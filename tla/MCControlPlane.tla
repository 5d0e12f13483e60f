---------------------------- MODULE MCControlPlane ----------------------------
(***************************************************************************)
(* Instances of the components of the control plane for TLC.  They share   *)
(* no state, so that an interleaving of two of them shows nothing that     *)
(* each alone does not: `focus` is the one that runs in a behaviour, and   *)
(* the others stay as they started.                                        *)
(***************************************************************************)
EXTENDS SoarOrchestrator, SoarEngine, EventHub, ThreatIntel, FeedManager, RateLimiter, Authorizer,
        Forensics, ThorQL, SigmaEngine, YaraEngine, EntityRisk, XdrCorrelation, CloudCollectors, TLC

VARIABLE focus

(* Things that differ only in their names are used in this order.          *)
InOrder(names, used(_)) == \A i, j \in DOMAIN names : i < j /\ used(names[j]) => used(names[i])

-----------------------------------------------------------------------------
(* SoarOrchestrator, SoarEngine                                            *)
AnAlert(known, labels, score) ==
  [host |-> known, ip |-> known, user |-> known, pid |-> known, labels |-> labels, risk |-> score]
MCAlerts == {AnAlert(TRUE, TRUE, "critical"), AnAlert(FALSE, TRUE, "text"), AnAlert(FALSE, FALSE, "high")}
MCPlan == <<{"look"}, {"act"}>>

(* Executions share nothing but the shutdown: the second of them is one of *)
(* the registered playbook.                                                *)
ExecutionsTried ==
  /\ InOrder(<<"e1", "e2">>, LAMBDA e : phase'[e] # "none")
  /\ plan'["e2"] \in {<<>>, MCPlan}

MCRecommended ==
  [i1 |-> {"block_src_ip", "capture_pcap_evidence"},
   i2 |-> {"quarantine_host", "alert_soc_team", "create_incident_ticket"}]

(* EventHub                                                                *)
ConnectedInOrder == InOrder(<<"c1", "c2", "c3">>, LAMBDA c : socket'[c] # "none")

(* ThreatIntel, FeedManager                                                *)
MCCounts == [otx |-> {1}, abuseipdb |-> {19, 20}]
MCFeedScore == [threatfox |-> 90]

Entry(value, kind) == [value |-> value, kind |-> kind]
MCLists(l) ==
  CASE l = "feodo_tracker" -> {{Entry("a", "ipv4")}, {Entry("a", "ipv4"), Entry("junk", "text")}}
    [] l = "otx" -> {{Entry("n", "network"), Entry("v6", "ipv6"), Entry("junk", "text")}}
    [] OTHER -> {{Entry("b", "ipv4")}}
MCCovers == {<<"a", "n">>, <<"b", "n">>, <<"a", "a">>, <<"b", "b">>, <<"v6", "v6">>}

(* Authorizer                                                              *)
MCTokens == {[realm |-> {"analyst", "offline_access"}, client |-> {}],
             [realm |-> {"analyst"}, client |-> {"admin"}]}
MCPolicy == {<<"admin", "w">>}

(* The third call changes the policy that is there at first, and comes     *)
(* when one enforcer was made and it is loaded.  A behaviour ends when a   *)
(* second one was made: DecisionsBacked says nothing of it.                *)
CallsTried ==
  /\ created <= 1
  /\ InOrder(<<"a1", "a2">>, LAMBDA c : authCall'[c].at # "idle")
  /\ authCall["a3"].at = "idle" /\ authCall'["a3"].at # "idle" =>
       /\ created = 1 /\ loaded[1]
       /\ authCall'["a3"].does # "authorize" /\ authCall'["a3"].policies = MCPolicy

(* Forensics: flows of each day, of which ClickHouse drops those of the    *)
(* first while the others are read.                                        *)
AFlow(src, seen, score, decision) ==
  [src |-> src, seen |-> seen, last |-> seen + 1, risk |-> score, bytes |-> seen, packets |-> 3,
   decision |-> decision, country |-> "c"]
MCFlow == [f1 |-> AFlow("a", 1, 9, "block"), f2 |-> AFlow("a", 2, 1, "allow"),
           f3 |-> AFlow("b", 0, 1, "allow"), f4 |-> AFlow("b", 2, 1, "block")]
MCThreat == [t1 |-> [src |-> "b", at |-> 1, risk |-> 5, severity |-> "high"]]

(* Rows come in any order but for two pairs; what is not a listing begins  *)
(* on day 1, and a request that was answered ends its behaviour.  No       *)
(* request reads the sums: they are merged and expire while there is none. *)
ForensicsTried ==
  /\ ~job.done
  /\ job.kind = "none" \/ statRows' = statRows \/ written' # written
  /\ "f4" \in written' => "f2" \in written'
  /\ "t1" \in written' => "f1" \in written
  /\ job'.kind \notin {"none", "pages", job.kind} => today = 1

APage(start, end, back, limit) ==
  [start |-> start, end |-> end, back |-> back, src |-> {}, decision |-> {}, minRisk |-> 0,
   limit |-> limit]
MCPageQueries == {APage({}, {}, 3, 1), APage({2}, {1}, 0, 1)}
MCHuntRequests == {<<"a", "b">>, <<"net", "bad">>}

(* ThorQL                                                                  *)
MCRow == [r1 |-> [table |-> "flows", ts |-> 0, key |-> "a"],
          r2 |-> [table |-> "flows", ts |-> 1, key |-> "a"],
          r3 |-> [table |-> "threats", ts |-> 1, key |-> "b"],
          r4 |-> [table |-> "flows", ts |-> 0, key |-> "b"]]
Where(col, holds, forbidden) == [col |-> col, holds |-> holds, forbidden |-> forbidden]
AQuery(source, where, last, group, limit, alert) ==
  [source |-> source, where |-> where, last |-> last, group |-> group, sort |-> {},
   limit |-> limit, alert |-> alert]
MCQueries ==
  {AQuery("flows", {Where("risk_score", {"r1", "r2"}, FALSE), Where("bogus", {"r1"}, FALSE)},
          {<<1, "m">>}, {}, {3}, {"hit"}),
   AQuery("flows", {}, {}, {{"src_ip"}}, {1}, {}),
   AQuery("ueba", {Where("bogus", {}, FALSE)}, {}, {}, {}, {}),
   AQuery("nothing", {}, {}, {}, {}, {}),
   AQuery("threats", {Where("severity", {"r3"}, TRUE)}, {}, {}, {}, {})}

(* SigmaEngine: rules with a filter, with a field list, and two that the   *)
(* engine does not evaluate as they are written.                           *)
AField(field, modifier, patterns) == [field |-> field, modifier |-> modifier, patterns |-> patterns]
Plain(name) == [name |-> name, positive |-> TRUE]
Negated(name) == [name |-> name, positive |-> FALSE]
ACondition(form, subset, rest, expr) ==
  [form |-> form, subset |-> subset, rest |-> rest, expr |-> expr]
MCRule ==
  [filtered |->
     [id |-> "1", order |-> <<"selection", "filter">>,
      selectors |-> [selection |-> {{AField("proto", "", {"tcp"}), AField("pps", "gte", {"10"})}},
                     filter |-> {{AField("flags", "contains", {"ack"})}}],
      condition |-> ACondition("expression", {}, FALSE, {{Plain("selection"), Negated("filter")}})],
   inside |->
     [id |-> "2", order |-> <<"sel", "sel_b">>,
      selectors |-> [sel |-> {{AField("keyword", "", {"tcp"})}},
                     sel_b |-> {{AField("pps", "startswith", {"1"})}}],
      condition |-> ACondition("expression", {}, FALSE, {{Plain("sel_b")}})],
   all |->
     [id |-> "1", order |-> <<"sel">>, selectors |-> [sel |-> {{AField("flags", "re", {"a.*"})}}],
      condition |-> ACondition("all", {"sel"}, TRUE, {})],
   listed |->
     [id |-> "4", order |-> <<"sel">>, selectors |-> [sel |-> {{AField("flags", "re", {"a.*"})}}],
      condition |-> ACondition("list", {}, FALSE, {})]]
MCEvents == [e1 |-> [proto |-> "tcp", pps |-> "10"], e2 |-> [proto |-> "tcp", flags |-> "ack"]]
MCFits == {<<"wildcard", "tcp", "tcp">>, <<"wildcard", "10", "10">>, <<"contains", "ack", "ack">>,
           <<"startswith", "1", "10">>, <<"re", "a.*", "ack">>, <<"contains", "tcp", "tcp">>}
MCOccurs == {<<"sel", "sel_b">>}

(* The rules looked at in each of the two files, and together.             *)
FileHolds(path) == IF path = "p" THEN {"filtered", "listed"} ELSE {"inside", "all", "bad"}
LookedAtTogether == {{"filtered", "inside", "bad"}, {"listed", "all"}}
FilesHold(d, found) ==
  /\ \A path \in DOMAIN d : d[path].content \in FileHolds(path)
  /\ \E some \in LookedAtTogether : found \cup {d[path].content : path \in DOMAIN d} \subseteq some

(* From the end of its reload a check looks at neither the files nor the   *)
(* clock: what happens to them then may as well happen after it.           *)
SigmaTried ==
  /\ FilesHold(disk', sigmaRules' \cup check'.found)
  /\ check.phase \in {"matching", "done"} => <<clock, dir, disk>>' = <<clock, dir, disk>>

(* YaraEngine                                                              *)
ARule(name, wants, upper) == [name |-> name, wants |-> wants, upper |-> upper]
MCTexts == {{ARule("size", {}, {})}, {ARule("broken", {}, {})}}
MCNamespaceOf == [f |-> "ns", g |-> "ns"]
MCBuiltin == {ARule("dns", {"iodine", "TUNNEL"}, {"TUNNEL"})}
MCPayloads == {{}, {"iodine", "TUNNEL"}}

(* EntityRisk, XdrCorrelation                                              *)
MCRiskEvents == {<<"scan", 49>>, <<"exfil", 90>>}
MCAnomalies == [geo |-> 40, c2 |-> 80]
MCPhase == [PortScan |-> 0, C2 |-> 11, Odd |-> 99]
MCRawEvents == {<<<<"ip", "a">>, <<"user", "u">>>>, <<<<"ip", "a">>, <<"ip", "a">>>>,
                <<<<"user", "u">>>>}
MCWindows == [ip |-> 1, user |-> 3]

(* CloudCollectors                                                         *)
ARecord(id, stream, when, bad) == [id |-> id, stream |-> stream, at |-> when, bad |-> bad]
MCDetectors == <<"duty", "duty2">>
MCCloudLog ==
  {ARecord(1, "trail", 2, TRUE), ARecord(2, "trail", 1, FALSE), ARecord(3, "trail", 0, FALSE),
   ARecord(4, "duty", 0, FALSE), ARecord(5, "duty", 0, FALSE), ARecord(6, "duty", 1, FALSE), ARecord(12, "duty2", 0, FALSE),
   ARecord(7, "signin", 0, FALSE), ARecord(8, "signin", 0, FALSE), ARecord(9, "signin", 1, FALSE),
   ARecord(10, "audit", 1, FALSE), ARecord(11, "audit", 2, TRUE)}
MCBadBody == <<"bad">>
MCFiles == [m1 |-> <<"log1", "empty">>, m2 |-> <<"log2">>, m3 |-> MCBadBody]
MCRecords == [log1 |-> <<[id |-> 1, bad |-> FALSE], [id |-> 2, bad |-> FALSE]>>, empty |-> <<>>,
              log2 |-> <<[id |-> 3, bad |-> FALSE], [id |-> 4, bad |-> TRUE]>>]

-----------------------------------------------------------------------------
CoreVars == <<orchVars, soarVars, hubVars>>
DataVars == <<intelVars, feedMgrVars, forensicsVars, thorqlVars>>
GuardVars == <<limiterVars, authVars>>
RuleVars == <<sigmaVars, yaraVars>>
JoinVars == <<riskVars, xdrAllVars, cloudVars>>

Focuses == {"playbooks", "actions", "store", "hub", "lookups", "refresh", "feeds", "limits",
            "rights", "forensics", "thorql", "sigma", "yara", "risk", "scorer", "chains",
            "incidents", "polls", "queue"}

(* A component that does not run starts in one state only.                 *)
Init ==
  /\ focus \in Focuses
  /\ OrchInit /\ SoarInit /\ HubInit /\ IntelInit /\ FeedMgrInit /\ LimiterInit /\ AuthInit
  /\ ForensicsInit /\ ThorQLInit /\ SigmaInit /\ YaraInit /\ RiskInit /\ XdrInit /\ CloudInit
  /\ (focus # "actions" => dryRun = FALSE)
  /\ (focus # "limits" => limiter = "window")
  /\ (focus # "thorql" => client = FALSE)
  /\ (focus # "sigma" => dir = FALSE /\ disk = <<>>)
  /\ FilesHold(disk, sigmaRules)
  /\ (focus # "yara" => yfiles = <<>>)
  /\ (focus # "scorer" => verbose = FALSE)

RunsCore ==
  /\ \/ focus = "playbooks" /\ OrchNext /\ ExecutionsTried /\ UNCHANGED <<soarVars, hubVars>>
     \/ focus = "actions" /\ IncidentNext /\ UNCHANGED <<orchVars, hubVars>>
     \/ focus = "store" /\ StoreNext /\ UNCHANGED <<orchVars, hubVars>>
     \/ focus = "hub" /\ HubNext /\ ConnectedInOrder /\ UNCHANGED <<orchVars, soarVars>>
  /\ UNCHANGED <<DataVars, GuardVars, RuleVars, JoinVars>>

RunsData ==
  /\ \/ focus = "lookups" /\ IntelNext /\ refresh' = "off"
        /\ UNCHANGED <<feedMgrVars, forensicsVars, thorqlVars>>
     \/ focus = "refresh" /\ IntelNext
        /\ (\A t, u \in Lookups : t = u \/ call'[t].at = "idle" \/ call'[u].at = "idle")
        /\ UNCHANGED <<feedMgrVars, forensicsVars, thorqlVars>>
     \/ focus = "feeds" /\ FeedMgrNext /\ UNCHANGED <<intelVars, forensicsVars, thorqlVars>>
     \/ focus = "forensics" /\ ForensicsNext /\ ForensicsTried /\ UNCHANGED <<intelVars, feedMgrVars, thorqlVars>>
     \/ focus = "thorql" /\ ThorQLNext /\ UNCHANGED <<intelVars, feedMgrVars, forensicsVars>>
  /\ UNCHANGED <<CoreVars, GuardVars, RuleVars, JoinVars>>

RunsGuard ==
  /\ \/ focus = "limits" /\ LimiterNext /\ UNCHANGED authVars
     \/ focus = "rights" /\ AuthNext /\ CallsTried /\ UNCHANGED limiterVars
  /\ UNCHANGED <<CoreVars, DataVars, RuleVars, JoinVars>>

RunsRules ==
  /\ \/ focus = "sigma" /\ SigmaNext /\ SigmaTried /\ UNCHANGED yaraVars
     \/ focus = "yara" /\ YaraNext /\ UNCHANGED sigmaVars
  /\ UNCHANGED <<CoreVars, DataVars, GuardVars, JoinVars>>

RunsJoin ==
  /\ \/ focus = "risk" /\ (NextHour \/ EngineNext) /\ UNCHANGED <<xdrAllVars, cloudVars>>
     \/ focus = "scorer" /\ (NextHour \/ ScorerNext) /\ UNCHANGED <<xdrAllVars, cloudVars>>
     \/ focus = "chains" /\ (NextMinute \/ BuilderNext) /\ UNCHANGED <<riskVars, cloudVars>>
     \/ focus = "incidents" /\ (NextMinute \/ StitcherNext) /\ UNCHANGED <<riskVars, cloudVars>>
     \/ focus = "polls" /\ (TimePasses \/ PollNext) /\ UNCHANGED <<riskVars, xdrAllVars>>
     \/ focus = "queue" /\ QueueNext /\ UNCHANGED <<riskVars, xdrAllVars>>
  /\ UNCHANGED <<CoreVars, DataVars, GuardVars, RuleVars>>

Next == (RunsCore \/ RunsData \/ RunsGuard \/ RunsRules \/ RunsJoin) /\ UNCHANGED focus

(* The fairness of each component, while it is the one that runs.          *)
Fairness ==
  /\ \A e \in Executions : WF_orchVars(focus = "playbooks" /\ OrchStep(e))
  /\ \A i \in Incidents : WF_soarVars(focus = "actions" /\ SoarStep(i))
  /\ WF_hubVars(focus = "hub" /\ Broadcast)
  /\ \A f \in Feeds : WF_intelVars(focus = "refresh" /\ FeedStep(f))
  /\ WF_intelVars(focus = "refresh" /\ RefreshStep)

Spec ==
  /\ Init
  /\ [][Next]_<<focus, CoreVars, DataVars, GuardVars, RuleVars, JoinVars>>
  /\ Fairness

-----------------------------------------------------------------------------
(* What was started ends: playbooks (orchestrator.py), incidents (soar.py),*)
(* broadcasts (connection_manager.py) and every refresh of the feeds       *)
(* (threat_intel.py).                                                      *)
JobsEnd == PlaybooksEnd /\ IncidentsEnd /\ ChannelDrains /\ FeedsKeepRefreshing
=============================================================================
