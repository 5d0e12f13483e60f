----------------------------- MODULE ThreatIntel -----------------------------
(***************************************************************************)
(* ThreatIntelService: control-plane/src/services/threat_intel.py.         *)
(*                                                                         *)
(* A lookup goes through the dictionary _ip_cache (L1), Redis (L2), and    *)
(* three services asked at the same time.  Other lookups run at each of    *)
(* its awaits; L1 has no expiry, L2 forgets after an hour.  A background   *)
(* loop loads lists of addresses into Redis, each through a pipeline that  *)
(* is no transaction.                                                      *)
(***************************************************************************)
EXTENDS Naturals, FiniteSets, FiniteSetsExt

CONSTANTS
  Ips, LocalIps,  \* IPv4 addresses, those of _local_ranges among them
  Lookups,        \* calls of lookup_ip or is_malicious
  Counts,         \* Counts[s]: what source s may answer: MISP attributes, OTX
                  \* pulses, the confidence of AbuseIPDB in percent
  FeedScore,      \* FeedScore[f]: the score of THREAT_FEEDS[f]
  ThreatFox,      \* the feeds of type threatfox_api
  Threshold,      \* is_malicious's threshold: 50
  Nothing         \* None

ASSUME IntelAssumption ==
  /\ LocalIps \subseteq Ips /\ Ips # {}
  /\ ThreatFox \subseteq DOMAIN FeedScore
  /\ DOMAIN Counts \subseteq {"misp", "otx", "abuseipdb"}
  /\ \A s \in DOMAIN Counts : Counts[s] \subseteq IF s = "abuseipdb" THEN 0..100 ELSE Nat
  /\ \A f \in DOMAIN FeedScore : FeedScore[f] \in 0..100
  /\ Threshold \in 0..100

VARIABLES
  call,      \* call[t]: [at, ip, asks, found] of a lookup, see CallType
  l1,        \* _ip_cache
  l2,        \* the keys thor:threat_intel:ip:* in Redis
  reported,  \* history: <<ip, source, score>> that a source has answered
  refresh,   \* _feed_refresh_loop: "off", "asleep", "loading", "stopped"
  loading,   \* loading[f]: [at, todo, half] of _load_feed, see LoadType
  feedIps,   \* the Redis set feed_ips
  ipScores   \* the Redis hash ip_scores

cacheVars == <<l1, l2, reported>>
feedVars == <<refresh, loading, feedIps, ipScores>>
intelVars == <<call, cacheVars, feedVars>>

Sources == DOMAIN Counts
Feeds == DOMAIN FeedScore

(* The score in percent, or Nothing, that a source's answer comes to.      *)
MispScore(attributes) == IF attributes = 0 THEN Nothing ELSE 85
OtxScore(pulses) == IF pulses = 0 THEN Nothing ELSE Min({60 + 5 * pulses, 99})
AbuseScore(percent) == IF percent < 20 THEN Nothing ELSE percent

ScoreOf(s, n) ==
  CASE s = "misp"      -> MispScore(n)
    [] s = "otx"       -> OtxScore(n)
    [] s = "abuseipdb" -> AbuseScore(n)

Indicator == [score : 0..100, sources : SUBSET Sources]
CallType == [at : {"idle", "feed", "score", "l2", "live", "save", "done", "raised"},
             ip : Ips, asks : {"indicator", "verdict"},
             found : Indicator \cup {Nothing} \cup [verdict : BOOLEAN, score : 0..100]]
LoadType == [at : {"idle", "fetching", "writing", "done"}, todo : SUBSET Ips,
             half : Ips \cup {Nothing}]

-----------------------------------------------------------------------------
IntelInit ==
  /\ call \in [Lookups -> {[at |-> "idle", ip |-> CHOOSE i \in Ips : TRUE,
                            asks |-> "indicator", found |-> Nothing]}]
  /\ l1 = [i \in Ips |-> Nothing]
  /\ l2 = [i \in Ips |-> Nothing]
  /\ reported = {}
  /\ refresh = "off"
  /\ loading = [f \in Feeds |-> [at |-> "idle", todo |-> {}, half |-> Nothing]]
  /\ feedIps = {}
  /\ ipScores = [i \in Ips |-> Nothing]

(* The end of a call: is_malicious compares the score with its threshold.  *)
Verdict(found) ==
  IF found # Nothing /\ found.score >= Threshold
  THEN [verdict |-> TRUE, score |-> found.score]
  ELSE [verdict |-> FALSE, score |-> 0]

Answered(c, found) ==
  [c EXCEPT !.at = "done", !.found = IF c.asks = "verdict" THEN Verdict(found) ELSE found]

(* lookup_ip() up to its first await.                                      *)
Entered(c) ==
  CASE c.ip \in LocalIps    -> Answered(c, Nothing)
    [] c.ip \notin LocalIps /\ l1[c.ip] # Nothing -> Answered(c, l1[c.ip])
    [] OTHER                -> [c EXCEPT !.at = "l2"]

LookupIp(t, i) ==
  /\ call[t].at = "idle"
  /\ call' = [call EXCEPT ![t] = Entered([@ EXCEPT !.ip = i, !.asks = "indicator"])]
  /\ UNCHANGED <<cacheVars, feedVars>>

IsMalicious(t, i) ==
  /\ call[t].at = "idle"
  /\ call' = [call EXCEPT ![t] = [@ EXCEPT !.at = "feed", !.ip = i, !.asks = "verdict"]]
  /\ UNCHANGED <<cacheVars, feedVars>>

(* sismember(feed_ips) is answered.                                        *)
FeedAnswer(t) ==
  LET c == call[t] IN
  /\ c.at = "feed"
  /\ call' = [call EXCEPT ![t] = IF c.ip \in feedIps THEN [c EXCEPT !.at = "score"] ELSE Entered(c)]
  /\ UNCHANGED <<cacheVars, feedVars>>

(* hget(ip_scores): 85 stands in for a score that is not written yet.      *)
ScoreAnswer(t) ==
  LET c == call[t]
      s == IF ipScores[c.ip] = Nothing THEN 85 ELSE ipScores[c.ip]
  IN /\ c.at = "score"
     /\ call' = [call EXCEPT ![t] = [c EXCEPT !.at = "done",
                                              !.found = [verdict |-> TRUE, score |-> s]]]
     /\ UNCHANGED <<cacheVars, feedVars>>

(* redis.get() is answered.                                                *)
L2Answer(t) ==
  LET c == call[t] IN
  /\ c.at = "l2"
  /\ IF l2[c.ip] # Nothing
     THEN /\ l1' = [l1 EXCEPT ![c.ip] = l2[c.ip]]
          /\ call' = [call EXCEPT ![t] = Answered(c, l2[c.ip])]
     ELSE /\ call' = [call EXCEPT ![t].at = "live"]
          /\ UNCHANGED l1
  /\ UNCHANGED <<l2, reported, feedVars>>

(* Mutant: what did not answer is merged too.                              *)
MergedAll(answers) ==
  [score |-> Max({answers[s] : s \in DOMAIN answers}), sources |-> Sources]

(* _live_lookup: the highest score, and the sources of all of them.        *)
Merged(answers) ==
  [score |-> Max({answers[s] : s \in DOMAIN answers}), sources |-> DOMAIN answers]

(* Some sources answer; the others fail, or have no key.  Those that know  *)
(* the address give a score.  After stop() the client is closed.           *)
LiveAnswer(t, answering) ==
  LET c == call[t] IN
  /\ c.at = "live"
  /\ refresh = "stopped" => answering = {}
  /\ \E n \in [answering -> UNION {Counts[s] : s \in Sources}] :
       LET known == {s \in answering : ScoreOf(s, n[s]) # Nothing}
           answers == [s \in known |-> ScoreOf(s, n[s])]
       IN /\ \A s \in answering : n[s] \in Counts[s]
          /\ reported' = reported \cup {<<c.ip, s, answers[s]>> : s \in known}
          /\ call' = [call EXCEPT ![t] =
                        IF known = {} THEN Answered(c, Nothing)
                        ELSE [c EXCEPT !.at = "save", !.found = Merged(answers)]]
  /\ UNCHANGED <<l1, l2, feedVars>>

(* setex() is answered.                                                    *)
Save(t) ==
  LET c == call[t] IN
  /\ c.at = "save"
  /\ l2' = [l2 EXCEPT ![c.ip] = c.found]
  /\ l1' = [l1 EXCEPT ![c.ip] = c.found]
  /\ call' = [call EXCEPT ![t] = Answered(c, c.found)]
  /\ UNCHANGED <<reported, feedVars>>

(* A Redis command fails, whether or not Redis has executed it: nothing in *)
(* the service catches that.                                               *)
RedisRaises(t) ==
  LET c == call[t] IN
  /\ c.at \in {"feed", "score", "l2", "save"}
  /\ call' = [call EXCEPT ![t].at = "raised", ![t].found = Nothing]
  /\ l2' \in IF c.at = "save" THEN {l2, [l2 EXCEPT ![c.ip] = c.found]} ELSE {l2}
  /\ UNCHANGED <<l1, reported, feedVars>>

(* External: IP_CACHE_TTL is over.                                         *)
Expire(i) ==
  /\ l2[i] # Nothing
  /\ l2' = [l2 EXCEPT ![i] = Nothing]
  /\ UNCHANGED <<call, l1, reported, feedVars>>

-----------------------------------------------------------------------------
(* The refresh loop.  gather() starts all feeds; _load_feed catches what   *)
(* its feed raises.                                                        *)
BeginRefresh ==
  /\ refresh' = "loading"
  /\ loading' = [f \in Feeds |-> [at |-> "fetching", todo |-> {}, half |-> Nothing]]
  /\ UNCHANGED <<call, cacheVars, feedIps, ipScores>>

Start == refresh = "off" /\ BeginRefresh
WakeUp == refresh = "asleep" /\ BeginRefresh

(* The list arrives; the loader of ip_list feeds leaves out local ones.    *)
ListArrives(f, listed) ==
  /\ loading[f].at = "fetching"
  /\ loading' = [loading EXCEPT ![f] =
       [at |-> "writing", half |-> Nothing,
        todo |-> IF f \in ThreatFox THEN listed ELSE listed \ LocalIps]]
  /\ UNCHANGED <<call, cacheVars, refresh, feedIps, ipScores>>

(* The pipeline, command by command: sadd, then hset.                      *)
AddToSet(f, i) ==
  /\ loading[f].at = "writing" /\ loading[f].half = Nothing
  /\ i \in loading[f].todo
  /\ feedIps' = feedIps \cup {i}
  /\ loading' = [loading EXCEPT ![f].half = i]
  /\ UNCHANGED <<call, cacheVars, refresh, ipScores>>

AddScore(f) ==
  LET i == loading[f].half IN
  /\ i # Nothing
  /\ ipScores' = [ipScores EXCEPT ![i] = FeedScore[f]]
  /\ loading' = [loading EXCEPT ![f].half = Nothing, ![f].todo = @ \ {i}]
  /\ UNCHANGED <<call, cacheVars, refresh, feedIps>>

FeedLoaded(f) ==
  /\ loading[f].at = "writing" /\ loading[f].todo = {}
  /\ loading' = [loading EXCEPT ![f].at = "done"]
  /\ UNCHANGED <<call, cacheVars, refresh, feedIps, ipScores>>

(* The request or the pipeline fails, with a part of it executed.          *)
FeedFails(f) ==
  /\ loading[f].at \in {"fetching", "writing"}
  /\ loading' = [loading EXCEPT ![f] = [at |-> "done", todo |-> {}, half |-> Nothing]]
  /\ UNCHANGED <<call, cacheVars, refresh, feedIps, ipScores>>

(* Mutant: only a round in which every feed was read ends.                 *)
AllWritten == \A f \in Feeds : loading[f].at = "writing"

AllLoaded == \A f \in Feeds : loading[f].at = "done"

EndRefresh ==
  /\ refresh = "loading"
  /\ AllLoaded
  /\ refresh' = "asleep"
  /\ UNCHANGED <<call, cacheVars, loading, feedIps, ipScores>>

(* stop() cancels the loop, and gather() its loaders.                      *)
StopService ==
  /\ refresh \in {"asleep", "loading"}
  /\ refresh' = "stopped"
  /\ loading' = [f \in Feeds |-> [at |-> "idle", todo |-> {}, half |-> Nothing]]
  /\ UNCHANGED <<call, cacheVars, feedIps, ipScores>>

-----------------------------------------------------------------------------
LookupStep(t) ==
  \/ FeedAnswer(t) \/ ScoreAnswer(t) \/ L2Answer(t)
  \/ \E answering \in SUBSET Sources : LiveAnswer(t, answering)
  \/ Save(t) \/ RedisRaises(t)

FeedStep(f) ==
  \/ \E listed \in SUBSET Ips : ListArrives(f, listed)
  \/ \E i \in Ips : AddToSet(f, i)
  \/ AddScore(f) \/ FeedLoaded(f) \/ FeedFails(f)

RefreshStep == WakeUp \/ EndRefresh

IntelNext ==
  \/ \E t \in Lookups :
       \/ \E i \in Ips : LookupIp(t, i) \/ IsMalicious(t, i)
       \/ LookupStep(t)
  \/ \E i \in Ips : Expire(i)
  \/ \E f \in Feeds : FeedStep(f)
  \/ Start \/ RefreshStep \/ StopService

IntelFairness ==
  /\ \A f \in Feeds : WF_intelVars(FeedStep(f))
  /\ WF_intelVars(RefreshStep)

IntelSpec == IntelInit /\ [][IntelNext]_intelVars /\ IntelFairness

-----------------------------------------------------------------------------
(* The variables keep their types.                                         *)
IntelTypeOK ==
  /\ \A t \in Lookups : call[t] \in CallType
  /\ \A i \in Ips : {l1[i], l2[i]} \subseteq Indicator \cup {Nothing}
  /\ refresh \in {"off", "asleep", "loading", "stopped"}
  /\ \A f \in Feeds : loading[f] \in LoadType

(* An indicator is what its sources have said: each of them has reported   *)
(* the address, and one of them the score.                                 *)
Backed(i, ind) ==
  /\ \A s \in ind.sources : \E r \in reported : r[1] = i /\ r[2] = s
  /\ \E s \in ind.sources : <<i, s, ind.score>> \in reported

(* Through three levels and concurrent lookups, an address is never given  *)
(* another's indicator, or sources that did not report it; no local        *)
(* address is looked up; a verdict of "malicious" rests on a feed or on an *)
(* indicator above the threshold.                                          *)
AnswersAreReported ==
  /\ \A i \in Ips : \A ind \in {l1[i], l2[i]} \ {Nothing} : i \notin LocalIps /\ Backed(i, ind)
  /\ \A t \in Lookups :
       LET c == call[t] IN
       c.at = "done" /\ c.found # Nothing =>
         IF c.asks = "indicator" THEN c.ip \notin LocalIps /\ Backed(c.ip, c.found)
         ELSE c.found.verdict =>
                \/ c.ip \in feedIps /\ c.found.score \in {85} \cup {FeedScore[f] : f \in Feeds}
                \/ /\ c.found.score >= Threshold
                   /\ \E s \in Sources : <<c.ip, s, c.found.score>> \in reported

(* Both, as the runs check them.                                           *)
IntelSound == IntelTypeOK /\ AnswersAreReported

(* Once started, the feeds are refreshed again and again until the service *)
(* is stopped, whichever feed fails at whichever point.                    *)
FeedsKeepRefreshing ==
  (refresh = "loading") ~> (refresh = "asleep" \/ refresh = "stopped")
=============================================================================
