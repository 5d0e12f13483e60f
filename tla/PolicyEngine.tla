---------------------------- MODULE PolicyEngine ----------------------------
(***************************************************************************)
(* PolicyEngine: control-plane/src/services/policy_engine.py.              *)
(*                                                                         *)
(* The rules are kept twice, in a list and in an index by rule_id.  A rule *)
(* that is added goes to the end of the list and marks it unsorted; the    *)
(* next evaluation that gets past the blocklist sorts it (list.sort is     *)
(* stable, reverse=True too), evicts the expired rules and takes the first *)
(* active rule that matches.                                               *)
(*                                                                         *)
(* No method awaits: each one is an action.  A rule is what _match_rule    *)
(* and evaluate read of it.  Of its conditions, those that reject a        *)
(* context one by one (addresses, ports, times, risk...) are the set of    *)
(* contexts that satisfy them; the geo list and the threat intelligence    *)
(* flag, whose order matters, are kept.  Counters are left out.            *)
(***************************************************************************)
EXTENDS Naturals, Sequences, FiniteSets, SequencesExt, Ordering

CONSTANTS
  Ids,         \* rule_id
  MaxPriority, \* priorities are 1..MaxPriority
  Rules,       \* the rules that callers add
  Contexts,    \* EvaluationContext: flows to decide about
  Country,     \* Country[c]: geo_country
  Intel,       \* the contexts with threat_intel_match
  Default,     \* default_action
  Blocklist,   \* the rule_id of a decision by the blocklist
  None         \* no rule

Priorities == 1..MaxPriority

ASSUME PolicyAssumption ==
  /\ MaxPriority \in Nat
  /\ None \notin Rules /\ None \notin Ids /\ Blocklist \notin Ids
  /\ \A r \in Rules : r.priority \in Priorities /\ r.scope \subseteq Contexts
  /\ Intel \subseteq Contexts

VARIABLES
  rules,    \* self._rules: the ids in list order
  rule,     \* self._rules_by_id: the rule of each id, or None
  sorted,   \* self._sorted
  off,      \* ids of rules with is_active = False
  over,     \* ids of rules whose expires_at has passed
  blocked,  \* contexts whose source is in _blocked_ips or _blocked_cidrs
  verdict   \* what evaluate() returned last

vars == <<rules, rule, sorted, off, over, blocked, verdict>>

-----------------------------------------------------------------------------
Init ==
  /\ rules = <<>>
  /\ rule = [id \in Ids |-> None]
  /\ sorted = TRUE
  /\ off = {}
  /\ over = {}
  /\ blocked = {}
  /\ verdict = [by |-> None, effect |-> Default]

(* _rules.remove(rule): dataclass equality finds the first equal rule.     *)
Removed(S, s) == AtPositions(s, {i \in DOMAIN s : s[i] \notin S})

(* Mutant: a rule that replaces another keeps the old one in the list.     *)
AppendOnly(id) == Append(rules, id)

(* add_rule: a rule under the same id is removed first.                    *)
Listed(id) == Append(Removed({id}, rules), id)

(* Mutant: an added rule does not mark the list unsorted.                  *)
StillSorted == sorted
Unsorted == FALSE

AddRule(id, r, isOff, isOver) ==
  /\ isOver => r.expires
  /\ rules' = Listed(id)
  /\ rule' = [rule EXCEPT ![id] = r]
  /\ off' = IF isOff THEN off \cup {id} ELSE off \ {id}
  /\ over' = IF isOver THEN over \cup {id} ELSE over \ {id}
  /\ sorted' = Unsorted
  /\ UNCHANGED <<blocked, verdict>>

(* remove_rule, of all ids in S.                                           *)
Drop(S, s) ==
  /\ rules' = Removed(S, s)
  /\ rule' = [id \in Ids |-> IF id \in S THEN None ELSE rule[id]]
  /\ off' = off \ S
  /\ over' = over \ S

RemoveRule(id) ==
  /\ rule[id] # None
  /\ Drop({id}, rules)
  /\ UNCHANGED <<sorted, blocked, verdict>>

ToggleRule(id) ==
  /\ rule[id] # None
  /\ off' = IF id \in off THEN off \ {id} ELSE off \cup {id}
  /\ UNCHANGED <<rules, rule, sorted, over, blocked, verdict>>

(* time.time() passes the rule's expires_at.                               *)
Expire(id) ==
  /\ rule[id] # None
  /\ rule[id].expires
  /\ over' = over \cup {id}
  /\ UNCHANGED <<rules, rule, sorted, off, blocked, verdict>>

UpdateBlocklist(S) ==
  /\ blocked' = S
  /\ UNCHANGED <<rules, rule, sorted, off, over, verdict>>

-----------------------------------------------------------------------------
(* _match_environment: a geo list that contains the country matches at     *)
(* once; one that does not is no condition at all.                         *)
MatchEnvironment(r, c) ==
  \/ r.geo # {} /\ Country[c] \in r.geo
  \/ r.intel => c \in Intel

MatchRule(r, c) == c \in r.scope /\ MatchEnvironment(r, c)

(* list.sort by priority, descending and stable.                           *)
Ahead(s) ==
  {w \in (DOMAIN s) \X (DOMAIN s) :
     \/ rule[s[w[1]]].priority > rule[s[w[2]]].priority
     \/ rule[s[w[1]]].priority = rule[s[w[2]]].priority /\ w[1] < w[2]}
ByPriority(s) ==
  LET p == Arranged(DOMAIN s, Ahead(s)) IN [n \in DOMAIN s |-> s[p[n]]]

InOrder == IF sorted THEN rules ELSE ByPriority(rules)

(* The first rule of the list that is active, unexpired and matches.       *)
Deciding(s, c) ==
  {i \in 1..Len(s) : s[i] \notin off \cup over /\ MatchRule(rule[s[i]], c)}

FirstOf(S) == CHOOSE i \in S : \A j \in S : i <= j

ByFirst(s, S) == [by |-> s[FirstOf(S)], effect |-> rule[s[FirstOf(S)]].effect]

(* evaluate: the source is on the blocklist; nothing else happens.         *)
EvaluateBlocked(c) ==
  /\ c \in blocked
  /\ verdict' = [by |-> Blocklist, effect |-> "block"]
  /\ UNCHANGED <<rules, rule, sorted, off, over, blocked>>

(* evaluate: sort if needed, evict, scan, fall back on the default.        *)
Evaluate(c) ==
  LET S == Deciding(InOrder, c) IN
  /\ c \notin blocked
  /\ Drop(over, InOrder)
  /\ sorted' = TRUE
  /\ verdict' = IF S = {} THEN [by |-> None, effect |-> Default]
                ELSE ByFirst(InOrder, S)
  /\ UNCHANGED blocked

-----------------------------------------------------------------------------
Next ==
  \/ \E id \in Ids :
       \/ \E r \in Rules, isOff, isOver \in BOOLEAN : AddRule(id, r, isOff, isOver)
       \/ RemoveRule(id) \/ ToggleRule(id) \/ Expire(id)
  \/ \E S \in SUBSET Contexts : UpdateBlocklist(S)
  \/ \E c \in Contexts : EvaluateBlocked(c) \/ Evaluate(c)

Spec == Init /\ [][Next]_vars

-----------------------------------------------------------------------------
(* The variables keep their types.                                         *)
TypeOK ==
  /\ rules \in Seq(Ids)
  /\ rule \in [Ids -> Rules \cup {None}]
  /\ sorted \in BOOLEAN
  /\ off \in SUBSET Ids
  /\ over \in SUBSET Ids
  /\ blocked \in SUBSET Contexts
  /\ verdict.by \in Ids \cup {None, Blocklist}

(* The list and the index hold the same rules, each once, and a list that  *)
(* is marked sorted is in descending order of priority, whatever was       *)
(* replaced, removed or evicted since the last sort.                       *)
ListMatchesIndex ==
  /\ TypeOK
  /\ ToSet(rules) = {id \in Ids : rule[id] # None}
  /\ IsInjective(rules)
  /\ sorted => \A i, j \in 1..Len(rules) :
                 i < j => rule[rules[i]].priority >= rule[rules[j]].priority

(* Every decision is the one of PolicyBase: the highest priority decides,  *)
(* among equals the earliest arrival, and expired or inactive rules never. *)
Arrivals(s, index) ==
  {w \in ToSet(s) \X ToSet(s) :
     index[w[1]].priority = index[w[2]].priority /\ Precedes(s, w[1], w[2])}
Base == INSTANCE PolicyBase WITH
  before <- Arrivals(rules, rule),
  Applies <- MatchRule
DecidesByPriority == Base!BaseSpec

-----------------------------------------------------------------------------
(* "Check if all conditions in a rule match the context" (docstring of     *)
(* _match_rule).  Violated: a geo_block_list that does not contain the     *)
(* country of the flow lets the rule match.                                *)
AllConditionsHold(r, c) ==
  /\ c \in r.scope
  /\ r.geo # {} => Country[c] \in r.geo
  /\ r.intel => c \in Intel
DecidedByConditions ==
  [][\A c \in Contexts : Evaluate(c) /\ verdict'.by \in Ids
       => AllConditionsHold(rule[verdict'.by], c)]_vars
=============================================================================
