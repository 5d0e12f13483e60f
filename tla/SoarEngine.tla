----------------------------- MODULE SoarEngine -----------------------------
(***************************************************************************)
(* PlaybookEngine and ActionHandlers: control-plane/src/services/soar.py,  *)
(* with the rule store of routes/rules.py that two of its actions post to. *)
(*                                                                         *)
(* execute() gathers one task per recommended action.  A handler makes its *)
(* calls in rounds; the calls of a round are concurrent.  A call that is   *)
(* given up may have been carried out by the service all the same.         *)
(***************************************************************************)
EXTENDS Naturals, Sequences, FiniteSets, SequencesExt

CONSTANTS
  Incidents,     \* incident ids
  Recommended,   \* Recommended[i]: the known actions recommended for i
  Configured,    \* services with a URL in the configuration
  DryRuns,       \* the values of config["dry_run"] looked at
  RuleIds,       \* the uuids that the rule store gives out
  AuditMax       \* entries kept of the audit log: 10 000 in the code

ASSUME SoarAssumption == AuditMax \in Nat \ {0} /\ DryRuns \subseteq BOOLEAN

VARIABLES
  dryRun,   \* _dry_run
  stage,    \* stage[i]: "new", "running" or "over"
  result,   \* result[i][a]: the status of a, or "pending"
  round,    \* round[i][a]: the calls of a still to be made, round by round
  open,     \* calls <<i, a, c>> that wait for an answer
  errors,   \* calls whose answer was an error
  applied,  \* calls that the called service has carried out
  audit,    \* _audit_log: [id, success, failed] per incident
  rules     \* _rules: id -> [conditions, enabled]

soarVars == <<dryRun, stage, result, round, open, errors, applied, audit, rules>>

-----------------------------------------------------------------------------
(* handler_map; the other members of PlaybookAction have no handler.       *)
Handled == {"block_src_ip", "quarantine_host", "alert_soc_team",
            "create_threat_ioc", "create_incident_ticket"}

(* The rounds of calls of each handler.                                    *)
BlockIp == << {"rule"} >>
QuarantineHost == << {"rule_in", "rule_out"} >>
Asked(service) == IF service \in Configured THEN << {service} >> ELSE << >>
AlertSoc == Asked("slack") \o Asked("siem")
CreateIoc == << {"misp"} >>
CreateTicket == << {"ticket"} >>

Rounds(a) ==
  CASE a = "block_src_ip"           -> BlockIp
    [] a = "quarantine_host"        -> QuarantineHost
    [] a = "alert_soc_team"         -> AlertSoc
    [] a = "create_threat_ioc"      -> CreateIoc
    [] a = "create_incident_ticket" -> CreateTicket

RuleCalls == {"rule", "rule_in", "rule_out"}

(* Not even attempted: dry run, no handler, or no service configured.      *)
Skips(a) ==
  \/ dryRun
  \/ a \notin Handled
  \/ a = "create_threat_ioc" /\ "misp" \notin Configured
  \/ a = "create_incident_ticket" /\ "ticket" \notin Configured

(* FirewallRule requires "conditions", which no body of the handlers has:  *)
(* the request is answered 422.                                            *)
Acceptable(call) == call[3] \notin RuleCalls

Calls(i, a, cs) == {<<i, a, c>> : c \in cs}
OpenOf(i, a) == {c \in open : c[1] = i /\ c[2] = a}
ErrorsOf(i, a) == {c \in errors : c[1] = i /\ c[2] = a}
AppliedOf(i, a) == {c \in applied : c[1] = i /\ c[2] = a}
Ended(i) == \A a \in DOMAIN result[i] : result[i][a] # "pending"
Having(i, s) == {a \in DOMAIN result[i] : result[i][a] = s}

-----------------------------------------------------------------------------
SoarInit ==
  /\ dryRun \in DryRuns
  /\ stage = [i \in Incidents |-> "new"]
  /\ result = [i \in Incidents |-> <<>>]
  /\ round = [i \in Incidents |-> <<>>]
  /\ open = {}
  /\ errors = {}
  /\ applied = {}
  /\ audit = <<>>
  /\ rules = <<>>

(* execute() up to its gather: every task runs to its first call.  Actions *)
(* to skip, and an alert that nobody is configured to get, end at once.    *)
Execute(i) ==
  LET as == Recommended[i]
      calling == {a \in as : ~Skips(a) /\ Rounds(a) # <<>>}
      First(a) == IF Skips(a) THEN "skipped" ELSE IF a \in calling THEN "pending" ELSE "success"
  IN /\ stage[i] = "new"
     /\ stage' = [stage EXCEPT ![i] = IF as = {} THEN "over" ELSE "running"]
     /\ result' = [result EXCEPT ![i] = [a \in as |-> First(a)]]
     /\ round' = [round EXCEPT ![i] = [a \in calling |-> Tail(Rounds(a))]]
     /\ open' = open \cup UNION {Calls(i, a, Head(Rounds(a))) : a \in calling}
     /\ UNCHANGED <<dryRun, errors, applied, audit, rules>>

(* What a handler returns once its calls are answered: only block_ip,      *)
(* create_ioc and create_ticket look at what their call came to.           *)
Checked == {"block_src_ip", "create_threat_ioc", "create_incident_ticket"}
Returned(a, errs) == IF a \in Checked /\ errs # {} THEN "failed" ELSE "success"

(* The call is answered and its handler goes on: it waits for the rest of  *)
(* the round, makes the next round of calls, or returns.                   *)
GoOn(call, errs) ==
  LET i == call[1]
      a == call[2]
      rest == open \ {call}
      quiet == OpenOf(i, a) = {call}
      next == round[i][a]
      mine == {c \in errs : c[1] = i /\ c[2] = a}
  IN /\ errors' = errs
     /\ open' = IF quiet /\ next # <<>> THEN rest \cup Calls(i, a, Head(next)) ELSE rest
     /\ round' = IF quiet /\ next # <<>> THEN [round EXCEPT ![i][a] = Tail(next)] ELSE round
     /\ result' = IF quiet /\ next = <<>>
                  THEN [result EXCEPT ![i][a] = Returned(a, mine)]
                  ELSE result

AnswerOk(call) ==
  /\ call \in open
  /\ Acceptable(call)
  /\ applied' = applied \cup {call}
  /\ GoOn(call, errors)
  /\ UNCHANGED <<dryRun, stage, audit, rules>>

(* raise_for_status, a refused connection, a read timeout: the service may *)
(* or may not have carried out what it received.                           *)
CallRaises(call) ==
  /\ call \in open
  /\ applied' \in {applied, applied \cup {c \in {call} : Acceptable(c)}}
  /\ GoOn(call, errors \cup {call})
  /\ UNCHANGED <<dryRun, stage, audit, rules>>

(* Mutant: a timed-out action is not told from one that returned.          *)
TimeoutUnnoticed(i, a) ==
  /\ OpenOf(i, a) # {}
  /\ open' = open \ OpenOf(i, a)
  /\ result' = [result EXCEPT ![i][a] = Returned(a, ErrorsOf(i, a))]
  /\ UNCHANGED <<dryRun, stage, round, errors, applied, audit, rules>>

(* wait_for gives up after 15 s and cancels the handler in its calls.      *)
ActionTimesOut(i, a) ==
  /\ OpenOf(i, a) # {}
  /\ open' = open \ OpenOf(i, a)
  /\ result' = [result EXCEPT ![i][a] = "failed"]
  /\ applied' \in {applied, applied \cup {c \in OpenOf(i, a) : Acceptable(c)}}
  /\ UNCHANGED <<dryRun, stage, round, errors, audit, rules>>

(* The last results of a log.                                              *)
Kept(log) == IF Len(log) > AuditMax THEN SubSeq(log, Len(log) - AuditMax + 1, Len(log)) ELSE log

(* gather returns: count, append to the audit log, trim it.                *)
Conclude(i) ==
  /\ stage[i] = "running"
  /\ Ended(i)
  /\ stage' = [stage EXCEPT ![i] = "over"]
  /\ audit' = Kept(Append(audit,
       [id |-> i, success |-> Having(i, "success"), failed |-> Having(i, "failed")]))
  /\ UNCHANGED <<dryRun, result, round, open, errors, applied, rules>>

-----------------------------------------------------------------------------
(* The rule store, as its users drive it.  Every handler runs without an   *)
(* await, so each is one step.                                             *)
RuleStep(new) ==
  /\ rules' = new
  /\ UNCHANGED <<dryRun, stage, result, round, open, errors, applied, audit>>

Stored == DOMAIN rules
With(id, r) == [x \in Stored \cup {id} |-> IF x = id THEN r ELSE rules[x]]

CreateRule(id, on) == id \notin Stored /\ RuleStep(With(id, [conditions |-> TRUE, enabled |-> on]))

(* bulk-import stores what it is given, conditions or not.                 *)
ImportRule(id, r) == id \notin Stored /\ RuleStep(With(id, r))

(* update() overwrites any field.                                          *)
UpdateRule(id, r) == id \in Stored /\ RuleStep([rules EXCEPT ![id] = r])
DeleteRule(id) == id \in Stored /\ RuleStep([x \in Stored \ {id} |-> rules[x]])
ToggleRule(id) == id \in Stored /\ RuleStep([rules EXCEPT ![id].enabled = ~@])

RuleRecords == [conditions : BOOLEAN, enabled : BOOLEAN]

-----------------------------------------------------------------------------
SoarStep(i) ==
  \/ \E call \in {c \in open : c[1] = i} : AnswerOk(call) \/ CallRaises(call)
  \/ \E a \in DOMAIN result[i] : ActionTimesOut(i, a)
  \/ Conclude(i)

IncidentNext == \E i \in Incidents : Execute(i) \/ SoarStep(i)

StoreNext ==
  \E id \in RuleIds :
    \/ \E on \in BOOLEAN : CreateRule(id, on)
    \/ \E r \in RuleRecords : ImportRule(id, r) \/ UpdateRule(id, r)
    \/ DeleteRule(id) \/ ToggleRule(id)

SoarNext == IncidentNext \/ StoreNext

SoarFairness == \A i \in Incidents : WF_soarVars(SoarStep(i))
SoarSpec == SoarInit /\ [][SoarNext]_soarVars /\ SoarFairness

-----------------------------------------------------------------------------
(* The variables keep their types.                                         *)
SoarTypeOK ==
  /\ stage \in [Incidents -> {"new", "running", "over"}]
  /\ \A i \in Incidents :
       /\ DOMAIN result[i] \subseteq Recommended[i]
       /\ \A a \in DOMAIN result[i] :
            result[i][a] \in {"pending", "success", "failed", "skipped"}
  /\ errors \cap open = {}
  /\ Len(audit) <= AuditMax
  /\ \A id \in Stored : id \in RuleIds /\ rules[id] \in RuleRecords

(* A result tells what happened outside: the actions that check their      *)
(* answer succeed only when the service did what was asked, a skipped one  *)
(* touched nothing, a dry run touches nothing at all, and an alert fails   *)
(* only by its timeout.  An address is thus never reported blocked by      *)
(* block_ip, whose request cannot be accepted.  (Not so for                *)
(* quarantine_host: it succeeds even when both of its calls failed.)       *)
ResultsAreReal ==
  /\ dryRun => open = {} /\ applied = {}
  /\ \A i \in Incidents : \A a \in DOMAIN result[i] :
       /\ result[i][a] = "success" /\ a \in Checked => AppliedOf(i, a) # {}
       /\ result[i][a] = "success" => OpenOf(i, a) = {}
       /\ result[i][a] = "skipped" => OpenOf(i, a) = {} /\ AppliedOf(i, a) = {}
       /\ result[i][a] = "pending" <=> OpenOf(i, a) # {}

(* The audit log has one entry per concluded incident, the newest ones,    *)
(* each written when its last action had ended and never changed by it     *)
(* afterwards.                                                             *)
AuditTellsAll ==
  /\ \A k \in 1..Len(audit) :
       LET i == audit[k].id IN
         /\ stage[i] = "over"
         /\ audit[k].success = Having(i, "success")
         /\ audit[k].failed = Having(i, "failed")
         /\ \A j \in 1..Len(audit) : audit[j].id = i => j = k
  /\ LET over == Cardinality({i \in Incidents : stage[i] = "over" /\ Recommended[i] # {}})
     IN Len(audit) = IF over > AuditMax THEN AuditMax ELSE over

SoarReportsAreReal == SoarTypeOK /\ ResultsAreReal /\ AuditTellsAll

(* An incident that is executed comes to its end: a service that never     *)
(* answers is given up.                                                    *)
IncidentsEnd == \A i \in Incidents : stage[i] = "running" ~> stage[i] = "over"
=============================================================================
