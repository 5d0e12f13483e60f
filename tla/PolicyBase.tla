----------------------------- MODULE PolicyBase -----------------------------
(***************************************************************************)
(* What a policy engine promises about its decisions, without the list it  *)
(* scans, its index and its lazy sort: of the rules installed, active, not *)
(* expired and applicable, the one of highest priority decides, and among  *)
(* equals the one that was installed first.  Blocked contexts are decided  *)
(* before any rule.                                                        *)
(***************************************************************************)
EXTENDS Naturals

CONSTANTS
  Ids,           \* rule_id
  Rules,         \* what a rule says: a record with priority and effect
  Contexts,      \* what a decision is asked about
  Default,       \* the effect when no rule applies
  Blocklist,     \* the blocklist, as the maker of a decision
  None,          \* no rule
  Applies(_, _)  \* Applies(r, c): rule r applies to context c

VARIABLES
  before,   \* pairs of installed rules of one priority, the first installed first
  rule,     \* rule[id]: the rule installed under id, or None
  off,      \* installed rules that are switched off
  over,     \* installed rules that have expired
  blocked,  \* contexts on the threat intelligence blocklist
  verdict   \* the last decision: the rule that made it and its effect

base == <<rule, off, over, blocked, verdict, before>>

-----------------------------------------------------------------------------
BaseInit ==
  /\ before = {}
  /\ rule = [id \in Ids |-> None]
  /\ off = {}
  /\ over = {}
  /\ blocked = {}
  /\ verdict = [by |-> None, effect |-> Default]

Without(S) == {w \in before : w[1] \notin S /\ w[2] \notin S}
Absent(S) == [id \in Ids |-> IF id \in S THEN None ELSE rule[id]]

(* The other rules that are installed with the priority of r.              *)
Peers(id, r) == {x \in Ids \ {id} : rule[x] # None /\ rule[x].priority = r.priority}

Install(id, r, isOff, isOver) ==
  /\ rule' = [rule EXCEPT ![id] = r]
  /\ off' = IF isOff THEN off \cup {id} ELSE off \ {id}
  /\ over' = IF isOver THEN over \cup {id} ELSE over \ {id}
  /\ before' = Without({id}) \cup {<<x, id>> : x \in Peers(id, r)}
  /\ UNCHANGED <<blocked, verdict>>

Withdraw(S) ==
  /\ rule' = Absent(S)
  /\ off' = off \ S
  /\ over' = over \ S
  /\ before' = Without(S)

Switch(id) ==
  /\ rule[id] # None
  /\ off' = IF id \in off THEN off \ {id} ELSE off \cup {id}
  /\ UNCHANGED <<rule, over, blocked, verdict, before>>

Age(id) ==
  /\ rule[id] # None
  /\ over' = over \cup {id}
  /\ UNCHANGED <<rule, off, blocked, verdict, before>>

Block(S) == blocked' = S /\ UNCHANGED <<rule, off, over, verdict, before>>

Candidates(c) ==
  {id \in Ids : rule[id] # None /\ id \notin off \cup over /\ Applies(rule[id], c)}

Outranks(i, j) ==
  \/ rule[i].priority > rule[j].priority
  \/ rule[i].priority = rule[j].priority /\ <<i, j>> \in before

Winner(c) == CHOOSE i \in Candidates(c) : \A j \in Candidates(c) \ {i} : Outranks(i, j)

DecideByRule(c) ==
  /\ c \notin blocked
  /\ verdict' = IF Candidates(c) = {} THEN [by |-> None, effect |-> Default]
                ELSE [by |-> Winner(c), effect |-> rule[Winner(c)].effect]
  /\ Withdraw(over)
  /\ UNCHANGED blocked

DecideByList(c) ==
  /\ c \in blocked
  /\ verdict' = [by |-> Blocklist, effect |-> "block"]
  /\ UNCHANGED <<rule, off, over, blocked, before>>

BaseNext ==
  \/ \E id \in Ids :
       \/ \E r \in Rules, isOff, isOver \in BOOLEAN : Install(id, r, isOff, isOver)
       \/ Withdraw({id}) /\ UNCHANGED <<blocked, verdict>>
       \/ Switch(id) \/ Age(id)
  \/ \E S \in SUBSET Contexts : Block(S)
  \/ \E c \in Contexts : DecideByRule(c) \/ DecideByList(c)

BaseSpec == BaseInit /\ [][BaseNext]_base
=============================================================================
