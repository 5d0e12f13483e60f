------------------------------ MODULE Forensics ------------------------------
(***************************************************************************)
(* The forensics API: routes/forensics.py and the query half of            *)
(* ThorClickHouseClient (services/clickhouse.py).                          *)
(*                                                                         *)
(* Batches of rows reach ClickHouse, and rows past their TTL leave it,     *)
(* between two pages of a listing and between the searches of a hunt.      *)
(* Requests only read, so a behaviour serves one of them.  Time is in      *)
(* days; ClickHouse itself (inserts, merges, TTL) is external.             *)
(***************************************************************************)
EXTENDS Naturals, Sequences, SequencesExt, FiniteSets, FiniteSetsExt, Functions,
        Bags, Ordering

CONSTANTS
  Flow,                    \* thor_flows: id -> [src, seen, last, risk, bytes, packets, decision, country]
  Threat,                  \* thor_threats: id -> [src, at, risk, severity]
  FlowTtl, ThreatTtl, StatsTtl,
  MaxRange,                \* 365 days
  PageQueries,             \* the listings asked for
  HuntRequests,            \* sequences of indicators
  Hosts, Nets,             \* the indicators that are addresses, and networks
  DaysBack,
  HighCount, MediumCount,  \* threats that make an address HIGH_RISK, MEDIUM_RISK
  LastDay                  \* bound of this model: the last day

FlowIds == DOMAIN Flow
ThreatIds == DOMAIN Threat

(* The optional parameters of a request hold one value at most.            *)
PageQueryOK(q) ==
  /\ \A S \in {q.start, q.end} : S \subseteq Nat /\ \A m, n \in S : m = n
  /\ q.back \in Nat /\ q.limit \in Nat \ {0}

ASSUME ForensicsAssumption ==
  /\ IsFiniteSet(FlowIds) /\ IsFiniteSet(ThreatIds) /\ FlowIds \cap ThreatIds = {}
  /\ \A f \in FlowIds : Flow[f].seen \in Nat /\ Flow[f].seen <= Flow[f].last
  /\ \A t \in ThreatIds : Threat[t].at \in Nat
  /\ {FlowTtl, ThreatTtl, StatsTtl, MaxRange, DaysBack, LastDay, MediumCount, HighCount} \subseteq Nat
  /\ 0 < MediumCount /\ MediumCount <= HighCount
  /\ \A q \in PageQueries : PageQueryOK(q)
  /\ \A iocs \in HuntRequests : iocs \in Seq(Range(iocs))

VARIABLES
  today,
  storedRows,  \* rows in the tables
  written,     \* rows ever inserted
  statRows,    \* thor_stats_1m: a bag of [day, flows, blocked]
  job          \* the request being served

forensicsVars == <<today, storedRows, written, statRows, job>>

TimeOf(r) == IF r \in FlowIds THEN Flow[r].seen ELSE Threat[r].at
Due(r) == today - TimeOf(r) >= (IF r \in FlowIds THEN FlowTtl ELSE ThreatTtl)

-----------------------------------------------------------------------------
ForensicsInit ==
  /\ today = 0 /\ storedRows = {} /\ written = {} /\ statRows = EmptyBag
  /\ job = [kind |-> "none", done |-> FALSE]

NextDay ==
  /\ today < LastDay
  /\ today' = today + 1
  /\ UNCHANGED <<storedRows, written, statRows, job>>

(* A block inserted into thor_flows passes through mv_stats_1m, which      *)
(* adds a row of sums for each minute of the block.                        *)
SumsOf(batch) ==
  LET fs == batch \cap FlowIds
      sums(d) == LET of == {f \in fs : Flow[f].seen = d}
                 IN  [day |-> d, flows |-> Cardinality(of),
                      blocked |-> Cardinality({f \in of : Flow[f].decision = "block"})]
  IN  SetToBag({sums(Flow[f].seen) : f \in fs})

InsertRows(batch) ==
  /\ batch # {}
  /\ batch \subseteq {r \in (FlowIds \cup ThreatIds) \ written : TimeOf(r) <= today}
  /\ storedRows' = storedRows \cup batch
  /\ written' = written \cup batch
  /\ statRows' = statRows (+) SumsOf(batch)
  /\ UNCHANGED <<today, job>>

(* The TTL is applied part by part, some time after a row is due.          *)
ExpireRows(rows) ==
  /\ rows # {} /\ rows \subseteq {r \in storedRows : Due(r)}
  /\ storedRows' = storedRows \ rows
  /\ UNCHANGED <<today, written, statRows, job>>

(* SummingMergeTree joins rows of one minute.                              *)
MergeStats ==
  /\ \E x, y \in BagToSet(statRows) :
       /\ x.day = y.day /\ SetToBag({x}) (+) SetToBag({y}) \sqsubseteq statRows
       /\ LET both == [day |-> x.day, flows |-> x.flows + y.flows,
                       blocked |-> x.blocked + y.blocked]
          IN  statRows' = (statRows (-) (SetToBag({x}) (+) SetToBag({y}))) (+) SetToBag({both})
  /\ UNCHANGED <<today, storedRows, written, job>>

(* The rows of sums have a TTL of their own, counted from their minute.    *)
ExpireStats ==
  /\ \E x \in BagToSet(statRows) :
       today - x.day >= StatsTtl /\ statRows' = statRows (-) SetToBag({x})
  /\ UNCHANGED <<today, storedRows, written, job>>

-----------------------------------------------------------------------------
(* _resolve_time_range: a missing end is now, a missing start lies `hours` *)
(* before the end; {} is the answer 400.                                   *)
TimeRange(q) ==
  LET end == IF q.end = {} THEN today ELSE Max(q.end)
      start == IF q.start # {} THEN Max(q.start) ELSE IF q.back > end THEN 0 ELSE end - q.back
  IN  IF start >= end \/ end - start > MaxRange THEN {} ELSE {[start |-> start, end |-> end]}

Within(t, range) == range.start <= t /\ t <= range.end
IsOr(wanted, value) == wanted = {} \/ value \in wanted

(* query_flows: BETWEEN, and a condition for each filter that is given.    *)
FlowsIn(q, range) ==
  {f \in storedRows \cap FlowIds :
     /\ Within(Flow[f].seen, range)
     /\ IsOr(q.src, Flow[f].src)
     /\ IsOr(q.decision, Flow[f].decision)
     /\ Flow[f].risk >= q.minRisk}

(* Mutant: the oldest flows first.                                         *)
OldestFirst(f, g) == Flow[f].seen <= Flow[g].seen

(* ORDER BY first_seen DESC                                                *)
Listed(f, g) == Flow[f].seen >= Flow[g].seen

(* Flows of one instant come in any order, and another one each time.      *)
Listings(fs) == {s \in SetToSeqs(fs) : \A i, j \in DOMAIN s : i < j => Listed(s[i], s[j])}

(* LIMIT limit OFFSET offset                                               *)
PageOf(s, offset, limit) ==
  SubSeq(s, offset + 1, IF offset + limit > Len(s) THEN Len(s) ELSE offset + limit)

StartPages(q) ==
  /\ job.kind = "none"
  /\ job' = [kind |-> "pages", q |-> q, offset |-> 0, got |-> {}, base |-> {},
             fresh |-> TRUE, done |-> FALSE, code |-> 200]
  /\ UNCHANGED <<today, storedRows, written, statRows>>

(* GET /forensics/flows with the next offset, until a page is not full.    *)
(* `base`: flows listed since the first page that have not fallen due.     *)
ReadPage ==
  /\ job.kind = "pages" /\ ~job.done
  /\ IF TimeRange(job.q) = {}
       THEN job' = [job EXCEPT !.done = TRUE, !.code = 400]
       ELSE LET range == CHOOSE r \in TimeRange(job.q) : TRUE
                fs == FlowsIn(job.q, range)
            IN  \E s \in Listings(fs) :
                  LET page == PageOf(s, job.offset, job.q.limit)
                      first == IF job.fresh THEN fs ELSE job.base \cap fs
                  IN  job' = [job EXCEPT !.got = @ \cup Range(page),
                                         !.offset = @ + job.q.limit,
                                         !.base = {f \in first : ~Due(f)},
                                         !.fresh = FALSE,
                                         !.done = Len(page) < job.q.limit]
  /\ UNCHANGED <<today, storedRows, written, statRows>>

-----------------------------------------------------------------------------
(* The reads that are one query: query_threats, query_top_talkers,         *)
(* query_attack_heatmap, export_csv and the health check.                  *)
Answer(kind, rows) ==
  /\ job.kind = "none"
  /\ job' = [kind |-> kind, rows |-> rows, done |-> TRUE]
  /\ UNCHANGED <<today, storedRows, written, statRows>>

ThreatBefore(t, u) ==
  \/ Threat[t].at > Threat[u].at
  \/ Threat[t].at = Threat[u].at /\ Threat[t].risk >= Threat[u].risk

QueryThreats(severity, limit) ==
  \E range \in TimeRange([start |-> {}, end |-> {}, back |-> DaysBack]) :
    LET ts == {t \in storedRows \cap ThreatIds :
                 Within(Threat[t].at, range) /\ IsOr(severity, Threat[t].severity)}
        s == SetToSortSeq(ts, ThreatBefore)
    IN  Answer("threats", PageOf(s, 0, limit))

(* Anything but "bytes" ranks by packets, "flows" too.                     *)
TopTalkers(by) ==
  \E range \in TimeRange([start |-> {}, end |-> {}, back |-> DaysBack]) :
    LET of(ip) == {f \in storedRows \cap FlowIds : Flow[f].src = ip /\ Within(Flow[f].seen, range)}
        metric(ip) == MapThenSumSet(LAMBDA f : IF by = "bytes" THEN Flow[f].bytes
                                               ELSE Flow[f].packets, of(ip))
    IN  Answer("talkers", SetToSortSeq({h \in Hosts : of(h) # {}},
                                       LAMBDA a, b : metric(a) >= metric(b)))

(* The join counts a threat once for each flow it falls in.                *)
AttackHeatmap ==
  \E range \in TimeRange([start |-> {}, end |-> {}, back |-> DaysBack]) :
    LET pairs == {p \in (storedRows \cap ThreatIds) \X (storedRows \cap FlowIds) :
                    /\ Threat[p[1]].src = Flow[p[2]].src
                    /\ Flow[p[2]].seen <= Threat[p[1]].at /\ Threat[p[1]].at <= Flow[p[2]].last
                    /\ Within(Threat[p[1]].at, range) /\ Flow[p[2]].country # ""}
    IN  Answer("heatmap", [c \in {Flow[p[2]].country : p \in pairs} |->
                             Cardinality({p \in pairs : Flow[p[2]].country = c})])

ExportCsv(table) ==
  \E range \in TimeRange([start |-> {}, end |-> {}, back |-> DaysBack]) :
    Answer("export", {r \in storedRows \cap table : Within(TimeOf(r), range)})

-----------------------------------------------------------------------------
(* POST /forensics/hunt keeps the addresses in order, repeats included,    *)
(* and counts networks without looking for them; GET /forensics/ip/{ip}    *)
(* searches one address.  Every search_ip starts at once.                  *)
StartHunt(kind, iocs) ==
  /\ job.kind = "none"
  /\ LET ips == AtPositions(iocs, {n \in 1..Len(iocs) : iocs[n] \in Hosts})
         nets == Cardinality({n \in 1..Len(iocs) : iocs[n] \in Nets})
         since == IF DaysBack > today THEN 0 ELSE today - DaysBack
     IN  job' = [kind |-> kind, ips |-> ips, nets |-> nets, since |-> since,
                 base |-> {r \in storedRows : TimeOf(r) >= since},
                 flows |-> <<>>, threats |-> <<>>, failed |-> {},
                 done |-> ips = <<>> /\ nets = 0,
                 code |-> IF ips = <<>> /\ nets = 0 THEN 400 ELSE 200,
                 matches |-> <<>>, verdict |-> "none"]
  /\ UNCHANGED <<today, storedRows, written, statRows>>

Hunting == job.kind \in {"hunt", "ip"} /\ ~job.done
Searching(i) == i \in DOMAIN job.ips \ job.failed
FoundBy(i, rows) == {r \in storedRows \cap rows : TimeOf(r) >= job.since
                       /\ (IF r \in FlowIds THEN Flow[r].src ELSE Threat[r].src) = job.ips[i]}

(* The rows that one of the two queries of search i returned.              *)
Gathered(results, i, rows) ==
  [n \in DOMAIN results \cup {i} |-> IF n = i THEN rows ELSE results[n]]

SearchFlows(i) ==
  /\ Searching(i) /\ i \notin DOMAIN job.flows
  /\ job' = [job EXCEPT !.flows = Gathered(@, i, FoundBy(i, FlowIds))]
  /\ UNCHANGED <<today, storedRows, written, statRows>>

SearchThreats(i) ==
  /\ Searching(i) /\ i \notin DOMAIN job.threats
  /\ job' = [job EXCEPT !.threats = Gathered(@, i, FoundBy(i, ThreatIds))]
  /\ UNCHANGED <<today, storedRows, written, statRows>>

(* One of the two queries raises: so does the search.                      *)
SearchFails(i) ==
  /\ Searching(i) /\ ~(i \in DOMAIN job.flows /\ i \in DOMAIN job.threats)
  /\ job' = [job EXCEPT !.failed = @ \cup {i}]
  /\ UNCHANGED <<today, storedRows, written, statRows>>

Searched == Hunting /\ \A i \in DOMAIN job.ips \ job.failed :
                          i \in DOMAIN job.flows /\ i \in DOMAIN job.threats

(* Mutant: the failed searches are dropped before the results are paired   *)
(* with the addresses.                                                     *)
AddressOfNext(i) == job.ips[i - Cardinality({j \in job.failed : j < i})]

(* zip(ip_iocs, results)                                                   *)
AddressOf(i) == job.ips[i]

RiskSum(fs) == MapThenSumSet(LAMBDA f : Flow[f].risk, fs)
RiskAtLeast(fs, tenths) == fs # {} /\ RiskSum(fs) >= tenths * Cardinality(fs)

(* A search without a flow has the average NaN, which no JSON answer holds *)
(* (the driver and the server are external): the request ends in 500.      *)
EndHunt ==
  /\ Searched /\ job.kind = "hunt"
  /\ LET hits == {i \in DOMAIN job.ips \ job.failed : job.flows[i] # {} \/ job.threats[i] # {}}
         count(i) == Cardinality(job.threats[i])
         risk(i, j) == RiskSum(job.flows[i]) * Cardinality(job.flows[j])
         before(i, j) == \/ count(i) > count(j)
                         \/ count(i) = count(j) /\ risk(i, j) > risk(j, i)
                         \/ count(i) = count(j) /\ risk(i, j) = risk(j, i) /\ i < j
     IN  IF \E i \in hits : job.flows[i] = {}
           THEN job' = [job EXCEPT !.done = TRUE, !.code = 500]
           ELSE \E sorted \in SetToSeqs(hits) :
                  /\ \A m, n \in DOMAIN sorted : m < n => before(sorted[m], sorted[n])
                  /\ job' = [job EXCEPT !.done = TRUE,
                               !.matches = [n \in DOMAIN sorted |->
                                  [ioc |-> AddressOf(sorted[n]),
                                   flows |-> Cardinality(job.flows[sorted[n]]),
                                   threats |-> count(sorted[n])]]]
  /\ UNCHANGED <<today, storedRows, written, statRows>>

HostVerdict(fs, threats) ==
  IF RiskAtLeast(fs, 8) \/ threats >= HighCount THEN "HIGH_RISK"
  ELSE IF RiskAtLeast(fs, 5) \/ threats >= MediumCount THEN "MEDIUM_RISK"
  ELSE IF RiskAtLeast(fs, 2) \/ threats >= 1 THEN "LOW_RISK" ELSE "CLEAN"

EndInvestigation ==
  /\ Searched /\ job.kind = "ip"
  /\ IF job.failed # {} \/ job.flows[1] = {}
       THEN job' = [job EXCEPT !.done = TRUE, !.code = 500]
       ELSE job' = [job EXCEPT !.done = TRUE,
                               !.verdict = HostVerdict(job.flows[1], Cardinality(job.threats[1]))]
  /\ UNCHANGED <<today, storedRows, written, statRows>>

Hunt ==
  /\ Hunting
  /\ \/ \E i \in DOMAIN job.ips : SearchFlows(i) \/ SearchThreats(i) \/ SearchFails(i)
     \/ EndHunt
     \/ EndInvestigation

ForensicsNext ==
  \/ NextDay
  \/ \E batch \in SUBSET ((FlowIds \cup ThreatIds) \ written) : InsertRows(batch)
  \/ \E rows \in SUBSET storedRows : ExpireRows(rows)
  \/ MergeStats \/ ExpireStats
  \/ \E q \in PageQueries : StartPages(q)
  \/ ReadPage
  \/ \E sev \in {{}, {"high"}} : QueryThreats(sev, 1)
  \/ \E by \in {"bytes", "flows"} : TopTalkers(by)
  \/ AttackHeatmap
  \/ \E table \in {FlowIds, ThreatIds} : ExportCsv(table)
  \/ \E iocs \in HuntRequests : StartHunt("hunt", iocs)
  \/ \E h \in Hosts : StartHunt("ip", <<h>>)
  \/ Hunt

ForensicsSpec == ForensicsInit /\ [][ForensicsNext]_forensicsVars

-----------------------------------------------------------------------------
ForensicsTypeOK ==
  /\ today \in 0..LastDay
  /\ storedRows \subseteq written /\ written \subseteq FlowIds \cup ThreatIds
  /\ \A x \in BagToSet(statRows) : x.blocked <= x.flows
  /\ job.done \in BOOLEAN

AloneInTime(f) == \A g \in FlowIds \ {f} : Flow[g].seen # Flow[f].seen

(* An analyst who reads page after page to the last gets every flow that   *)
(* was listed at the first page and still is, whatever is inserted or      *)
(* expires meanwhile, when no other flow has its first_seen (query_flows). *)
(* A listing without an end may become too long for a range, and stop.     *)
PagesMissNothing ==
  job.kind = "pages" /\ job.done /\ job.code = 200 => {f \in job.base : AloneInTime(f)} \subseteq job.got

(* A hunt that is answered names each ADDRESS whose search succeeded and   *)
(* that had flows when it began and still has them, with counts that do    *)
(* not exceed what was written for that address (ioc_hunt).  It says       *)
(* nothing of networks: ioc_hunt counts them and searches none.            *)
HuntIsComplete ==
  job.kind = "hunt" /\ job.done /\ job.code = 200 =>
    /\ \A i \in DOMAIN job.ips \ job.failed :
         (\E r \in job.base \cap storedRows \cap FlowIds : Flow[r].src = job.ips[i])
           => \E n \in DOMAIN job.matches : job.matches[n].ioc = job.ips[i]
    /\ \A n \in DOMAIN job.matches :
         /\ job.matches[n].flows <= Cardinality({f \in written \cap FlowIds :
                                                   Flow[f].src = job.matches[n].ioc})
         /\ job.matches[n].threats <= Cardinality({t \in written \cap ThreatIds :
                                                     Threat[t].src = job.matches[n].ioc})

(* No address with a threat on record through the search is called CLEAN   *)
(* (investigate_ip).                                                       *)
NoThreatCalledClean ==
  job.kind = "ip" /\ job.done /\ job.verdict = "CLEAN" =>
    ~\E t \in job.base \cap storedRows \cap ThreatIds : Threat[t].src = job.ips[1]

(* The minute sums of a day that their TTL has not reached account for     *)
(* every flow inserted of that day, merged or not, and also for those that *)
(* have left thor_flows (mv_stats_1m).                                     *)
StatsOfDay(d) ==
  SumFunction([x \in {y \in BagToSet(statRows) : y.day = d} |-> x.flows * statRows[x]])

StatsAddUp ==
  \A d \in 0..today : today - d < StatsTtl =>
    StatsOfDay(d) = Cardinality({f \in written \cap FlowIds : Flow[f].seen = d})

ForensicsSound ==
  /\ ForensicsTypeOK /\ PagesMissNothing /\ HuntIsComplete
  /\ NoThreatCalledClean /\ StatsAddUp
=============================================================================
