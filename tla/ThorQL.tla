------------------------------- MODULE ThorQL -------------------------------
(***************************************************************************)
(* The hunting language: ThorQLParser, ThorQLTranspiler and ThorQLExecutor *)
(* (thorql/executor.py), the saved hunts (thorql/saved_hunts.py) and the   *)
(* routes that run them (routes/query.py).                                 *)
(*                                                                         *)
(* A query is the record of its clauses; a condition is the column it      *)
(* begins with, the rows it holds of, and whether its text contains one of *)
(* the forbidden words.  A WHERE is taken to be a conjunction of such      *)
(* conditions: _parse_where splits the text at every AND, also at the one  *)
(* of a BETWEEN, and drops a part with an OR in it by its first column     *)
(* alone; such queries, which may lose rows, are left out.  The parse is   *)
(* synchronous, the table is read by an await, so rows may arrive between  *)
(* the two.  Time is in minutes.                                           *)
(***************************************************************************)
EXTENDS Naturals, Sequences, SequencesExt, FiniteSets, FiniteSetsExt, Functions

CONSTANTS
  Row,         \* id -> [table, ts, key]: the rows that may reach ClickHouse
  Queries,     \* the queries asked with POST /execute and GET /explain
  Connected,   \* values of "the executor was given a ClickHouse client"
  MaxLimit,    \* 10000
  LastQueryMinute  \* bound of this model: the last minute

RowIds == DOMAIN Row

(* The optional clauses of a query hold one value at most.                 *)
AtMostOne(S) == \A x, y \in S : x = y
ClausesOK(q) ==
  /\ AtMostOne(q.last) /\ q.last \subseteq Nat \X {"m", "h", "d", "w"}
  /\ AtMostOne(q.limit) /\ q.limit \subseteq Nat

ASSUME ThorQLAssumption ==
  /\ Connected \subseteq BOOLEAN /\ MaxLimit \in Nat \ {0} /\ LastQueryMinute \in Nat
  /\ IsFiniteSet(RowIds) /\ \A r \in RowIds : Row[r].ts \in Nat
  /\ \A q \in Queries : ClausesOK(q)

VARIABLES
  queryMinute,
  client,    \* is self.ch a client?
  rows,      \* the rows in ClickHouse
  request    \* [phase, asked, parsed, base, answer, alert]

thorqlVars == <<queryMinute, client, rows, request>>

-----------------------------------------------------------------------------
TableOf(source) ==
  CASE source \in {"ueba", "ueba_events"} -> "ueba_events"
    [] source \in {"audit", "audit_log"} -> "audit_log"
    [] OTHER -> source

(* ALLOWED_COLUMNS; a source that is not a key has no list of its own, and *)
(* any column is let through.                                              *)
Columns(source) ==
  CASE source = "flows" ->
         {"src_ip", "dst_ip", "src_port", "dst_port", "protocol", "bytes", "packets",
          "duration_ms", "decision", "risk_score", "confidence", "agent_id",
          "node_name", "flow_hash", "ts"}
    [] source = "threats" ->
         {"ts", "threat_id", "threat_type", "severity", "src_ip", "dst_ip",
          "risk_score", "blocked", "mitre_id", "mitre_name", "description"}
    [] source = "ueba_events" ->
         {"ts", "entity_id", "entity_type", "anomaly_type", "severity", "risk_delta",
          "description", "mitre_id"}
    [] source = "audit_log" ->
         {"ts", "entry_id", "event_type", "actor_id", "target", "action", "result",
          "source_ip", "session_id"}
    [] OTHER -> {}

QuerySources == {"flows", "threats", "ueba", "ueba_events", "audit", "audit_log", "cases"}

(* _parse_where: a condition on an unknown column is dropped.              *)
Known(c, source) == Columns(source) = {} \/ c.col \in Columns(source)
Accepted(q) == {c \in q.where : Known(c, q.source)}

(* _sanitize_condition raises for an accepted condition with such a word.  *)
Forbidden(q) == \E c \in Accepted(q) : c.forbidden

Minutes(n, unit) ==
  n * (CASE unit = "m" -> 1 [] unit = "h" -> 60 [] unit = "d" -> 1440 [] unit = "w" -> 10080)

(* parse: the optional clauses are sets of at most one value.              *)
Parse(q) ==
  [table |-> IF q.source \in QuerySources THEN TableOf(q.source) ELSE "flows",
   where |-> Accepted(q),
   last |-> {Minutes(l[1], l[2]) : l \in q.last},
   group |-> q.group,
   sort |-> IF q.sort # {} THEN q.sort ELSE IF q.group # {} THEN {"count"} ELSE {"ts"},
   limit |-> IF q.limit = {} THEN 100 ELSE Min({Max(q.limit), MaxLimit}),
   alert |-> q.alert]

(* A condition, a sort or an average on a column that is not there is an   *)
(* error of ClickHouse (external).                                         *)
Runnable(p) ==
  LET cols == IF p.table = "cases" THEN UNION {Columns(s) : s \in QuerySources} ELSE Columns(p.table)
  IN  /\ {c.col : c \in p.where} \subseteq cols
      /\ IF p.group = {} THEN p.sort \subseteq cols
         ELSE /\ "risk_score" \in cols
              /\ p.sort \subseteq (UNION p.group) \cup {"count", "avg_risk"}

-----------------------------------------------------------------------------
QueryIdle == [phase |-> "idle"]

ThorQLInit ==
  /\ queryMinute = 0
  /\ client \in Connected
  /\ rows = {}
  /\ request = QueryIdle

AddRows(batch) ==
  /\ batch # {} /\ batch \subseteq {r \in RowIds \ rows : Row[r].ts <= queryMinute}
  /\ rows' = rows \cup batch
  /\ UNCHANGED <<queryMinute, client, request>>

NextQueryMinute ==
  /\ queryMinute < LastQueryMinute
  /\ queryMinute' = queryMinute + 1
  /\ UNCHANGED <<client, rows, request>>

(* execute(): parse and transpile, or 400.                                 *)
ExecuteQuery(q) ==
  /\ request.phase = "idle"
  /\ request' = IF q.source \notin QuerySources \/ Forbidden(q)
                  THEN [phase |-> "answered", code |-> 400, asked |-> q]
                  ELSE [phase |-> "running", asked |-> q, parsed |-> Parse(q), base |-> rows]
  /\ UNCHANGED <<queryMinute, client, rows>>

(* Mutant: a row newer than the window's start is left out.                *)
OutsideLast(r, p) == p.last = {} \/ queryMinute - Row[r].ts < Max(p.last)

(* ts >= now() - INTERVAL, before the conditions of the query.  A window   *)
(* of 0 is no condition at all.                                            *)
InLast(r, p) == p.last \subseteq {0} \/ queryMinute - Row[r].ts <= Max(p.last)

Selected(p) ==
  {r \in rows : Row[r].table = p.table /\ InLast(r, p) /\ \A c \in p.where : r \in c.holds}

(* GROUP BY makes a line of each key, other queries of each row; with more *)
(* than the limit, the sort decides which lines stay (any may, here).      *)
Lines(p) == IF p.group = {} THEN {{r} : r \in Selected(p)}
            ELSE {{r \in Selected(p) : Row[r].key = k} : k \in {Row[r].key : r \in Selected(p)}}

Respond(lines) ==
  request' = [phase |-> "answered", code |-> 200, asked |-> request.asked,
              parsed |-> request.parsed, base |-> request.base, lines |-> lines,
              alert |-> request.parsed.alert # {} /\ lines # {}]

(* self.ch.execute: without a client there are no rows.                    *)
Read ==
  /\ request.phase = "running"
  /\ LET p == request.parsed
     IN  CASE ~client -> Respond({})
           [] client /\ ~Runnable(p) ->
                request' = [phase |-> "answered", code |-> 500, asked |-> request.asked]
           [] OTHER -> LET all == Lines(p)
                           n == Min({p.limit, Cardinality(all)})
                       IN  \E lines \in kSubset(n, all) : Respond(lines)
  /\ UNCHANGED <<queryMinute, client, rows>>

(* The answer has left, and the next request comes.                        *)
Sent ==
  /\ request.phase = "answered"
  /\ request' = QueryIdle
  /\ UNCHANGED <<queryMinute, client, rows>>

-----------------------------------------------------------------------------
(* BUILT_IN_HUNTS: the clauses that decide whether a hunt runs; its        *)
(* conditions are taken to hold of every row of the table.                 *)
HuntOf(source, cols, n, unit, group, sort, limit) ==
  [source |-> source, where |-> {[col |-> c, holds |-> RowIds, forbidden |-> FALSE] : c \in cols},
   last |-> {<<n, unit>>}, group |-> group, sort |-> {sort}, limit |-> {limit}, alert |-> {}]

BySource == {{"src_ip"}}
Ports == {"dst_port", "risk_score"}
Types == {"threat_type", "risk_score"}

Hunts ==
  [dns_tunneling |-> HuntOf("flows", Ports \cup {"protocol"}, 4, "h", BySource, "count", 50),
   c2_beaconing |-> HuntOf("threats", Types, 24, "h", {}, "risk_score", 100),
   lateral_movement |-> HuntOf("flows", Ports, 1, "h", BySource, "count", 50),
   data_exfiltration |-> HuntOf("flows", {"bytes", "dst_port"}, 24, "h", BySource, "sum", 30),
   brute_force |-> HuntOf("flows", Ports, 15, "m", BySource, "count", 50),
   crypto_mining |-> HuntOf("flows", Ports, 1, "h", {{"dst_ip"}}, "count", 30),
   port_scan |-> HuntOf("threats", Types, 1, "h", BySource, "count", 50),
   privilege_escalation |-> HuntOf("threats", {"threat_type", "severity"}, 4, "h", {}, "risk_score", 50),
   web_attacks |-> HuntOf("threats", Types, 24, "h", {}, "risk_score", 100),
   insider_threat |-> HuntOf("ueba_events", {"risk_delta", "severity"}, 24, "h", {}, "risk_delta", 50),
   new_admin_tools |-> HuntOf("flows", Ports, 6, "h", {{"src_ip", "dst_ip"}}, "risk_score", 50),
   tor_traffic |-> HuntOf("threats", Types, 24, "h", {}, "risk_score", 50)]

(* POST /hunts/{hunt_id}/execute                                           *)
ExecuteHunt(h) == ExecuteQuery(Hunts[h])

ThorQLNext ==
  \/ \E batch \in SUBSET (RowIds \ rows) : AddRows(batch)
  \/ NextQueryMinute
  \/ \E q \in Queries : ExecuteQuery(q)
  \/ \E h \in DOMAIN Hunts : ExecuteHunt(h)
  \/ Read
  \/ Sent

ThorQLSpec == ThorQLInit /\ [][ThorQLNext]_thorqlVars

-----------------------------------------------------------------------------
ThorQLTypeOK ==
  /\ queryMinute \in 0..LastQueryMinute /\ client \in BOOLEAN /\ rows \subseteq RowIds
  /\ request.phase \in {"idle", "running", "answered"}

(* An answer has at most `limit` lines; below the limit it holds every row *)
(* that was stored when the query came, is still inside the window and     *)
(* meets all the conditions as they were written: in a conjunction without *)
(* OR and BETWEEN, a condition that is dropped makes the answer wider,     *)
(* never narrower.  An alert is raised only with rows (execute).           *)
AnswerCoversQuestion ==
  request.phase = "answered" /\ request.code = 200 =>
    /\ Cardinality(request.lines) <= request.parsed.limit
    /\ request.alert => UNION request.lines # {}
    /\ client /\ Cardinality(request.lines) < request.parsed.limit =>
         \A r \in request.base :
           (/\ Row[r].table = TableOf(request.asked.source)
            /\ \A l \in request.asked.last : queryMinute - Row[r].ts <= Minutes(l[1], l[2])
            /\ \A c \in request.asked.where : r \in c.holds)
           => r \in UNION request.lines

HuntingSound == ThorQLTypeOK /\ AnswerCoversQuestion
=============================================================================
