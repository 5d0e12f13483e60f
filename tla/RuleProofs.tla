----------------------------- MODULE RuleProofs -----------------------------
(***************************************************************************)
(* Proofs about what decides by rules, lists and scores, for any rules,    *)
(* contexts, files, events, feeds, addresses, entities and identities.     *)
(*                                                                         *)
(* PolicyEngine: the list and the index hold the same rules, and the       *)
(* decisions are those of PolicyBase, which knows no list.  The invariant  *)
(* is inductive as it stands.  The refinement rests on it: a stable sort   *)
(* of a list without repetitions keeps the order of arrival among equal    *)
(* priorities, which is all that PolicyBase remembers.                     *)
(* SigmaEngine and YaraEngine: each check and scan applies the rules that  *)
(* were in force.  FeedManager: the block lists are backed by the feeds.   *)
(* EntityRisk: scores are those of now and alerts are handed over once.    *)
(* XdrCorrelation: what belongs together is in a chain or an incident.     *)
(***************************************************************************)
EXTENDS PolicyEngine, SigmaEngine, YaraEngine, FeedManager, EntityRisk, XdrCorrelation,
        SequenceLemmas

USE DEF Priorities

Installed == {id \in Ids : rule[id] # None}

(* A list of installed rules, each once.                                   *)
IsListing(s) ==
  /\ s \in Seq(Ids)
  /\ Distinct(s)
  /\ ToSet(s) = Installed

Descending(s) ==
  \A i, j \in 1..Len(s) : i < j => rule[s[i]].priority >= rule[s[j]].priority

(* t has, among equal priorities, the order of s.                          *)
SameArrivals(t, s) ==
  \A x, y \in Installed : rule[x].priority = rule[y].priority
     => (Precedes(t, x, y) <=> Precedes(s, x, y))

-----------------------------------------------------------------------------
LEMMA InstalledRules ==
  ASSUME TypeOK
  PROVE  \A x \in Installed : x \in Ids /\ rule[x] \in Rules /\ rule[x].priority \in Nat
BY PolicyAssumption DEF TypeOK, Installed

LEMMA ListingOfRules ==
  ListMatchesIndex <=> TypeOK /\ IsListing(rules) /\ (sorted => Descending(rules))
<1>1. ASSUME TypeOK
      PROVE  IsInjective(rules) <=> Distinct(rules)
  <2>1. rules \in Seq(Ids) /\ DOMAIN rules = 1..Len(rules)
    BY <1>1, LenProperties DEF TypeOK
  <2> QED
    BY <2>1 DEF IsInjective, Distinct
<1> QED
  BY <1>1 DEF ListMatchesIndex, IsListing, Descending, Installed, TypeOK

(* The stable sort.                                                        *)
LEMMA SortedListing ==
  ASSUME TypeOK, NEW s, IsListing(s)
  PROVE  LET t == ByPriority(s)
         IN  IsListing(t) /\ Descending(t) /\ SameArrivals(t, s)
<1> DEFINE R == Ahead(s)
<1>1. PICK l \in Nat : Len(s) = l
  BY LenProperties DEF IsListing
<1>2. DOMAIN s = 1..l /\ s \in [1..l -> Ids]
  BY <1>1, LenProperties DEF IsListing
<1>3. ToSet(s) = {s[i] : i \in 1..l}
  BY <1>1, ElementsOf DEF IsListing
<1>4. \A i \in 1..l : s[i] \in Installed /\ rule[s[i]].priority \in Nat
  BY <1>3, InstalledRules DEF IsListing
<1>5. \A i, j \in 1..l : <<i, j>> \in R <=>
        \/ rule[s[i]].priority > rule[s[j]].priority
        \/ rule[s[i]].priority = rule[s[j]].priority /\ i < j
  BY <1>2 DEF Ahead
<1> HIDE DEF R
<1>6. Orders(R, 1..l)
  <2>1. \A i \in 1..l : <<i, i>> \notin R
    BY <1>4, <1>5
  <2>2. ASSUME NEW i \in 1..l, NEW j \in 1..l, i # j
        PROVE  <<i, j>> \in R \/ <<j, i>> \in R
    <3>1. PICK a, b \in Nat : a = rule[s[i]].priority /\ b = rule[s[j]].priority
      BY <1>4
    <3>2. (a > b \/ (a = b /\ i < j)) \/ (b > a \/ (b = a /\ j < i))
      BY <2>2
    <3> QED
      BY <1>5, <3>1, <3>2
  <2>3. ASSUME NEW i \in 1..l, NEW j \in 1..l, NEW k \in 1..l,
               <<i, j>> \in R, <<j, k>> \in R
        PROVE  <<i, k>> \in R
    <3>1. PICK a, b, c \in Nat : /\ a = rule[s[i]].priority
                               /\ b = rule[s[j]].priority
                               /\ c = rule[s[k]].priority
      BY <1>4
    <3>2. (a > b \/ (a = b /\ i < j)) /\ (b > c \/ (b = c /\ j < k))
      BY <1>5, <2>3, <3>1
    <3>3. a > c \/ (a = c /\ i < k)
      BY <3>2
    <3> QED
      BY <1>5, <3>1, <3>3
  <2> QED
    BY <2>1, <2>2, <2>3 DEF Orders
<1>7. IsFiniteSet(1..l) /\ Cardinality(1..l) = l
  BY FS_Interval
<1> DEFINE p == Arranged(1..l, R)
           t == ByPriority(s)
<1>8. /\ p \in [1..l -> 1..l]
      /\ \A i \in 1..l : \E n \in 1..l : p[n] = i
      /\ \A m, n \in 1..l : m < n => <<p[m], p[n]>> \in R
      /\ \A m, n \in 1..l : p[m] = p[n] => m = n
  BY <1>6, <1>7, ArrangedInOrder, ZenonT(40)
<1>9. t = [n \in 1..l |-> s[p[n]]]
  BY <1>2 DEF ByPriority, R
<1> HIDE DEF p, t
<1>10. t \in Seq(Ids) /\ Len(t) = l
  <2>1. \A n \in 1..l : s[p[n]] \in Ids
    BY <1>2, <1>8
  <2> QED
    BY <1>9, <2>1
<1>11. \A n \in 1..l : t[n] = s[p[n]] /\ p[n] \in 1..l
  BY <1>8, <1>9
<1>12. Distinct(t)
  <2> SUFFICES ASSUME NEW m \in 1..l, NEW n \in 1..l, t[m] = t[n]
               PROVE  m = n
    BY <1>10 DEF Distinct
  <2>1. p[m] = p[n]
    BY <1>1, <1>11 DEF Distinct, IsListing
  <2> QED
    BY <1>8, <2>1
<1>13. ToSet(t) = ToSet(s)
  <2>1. ToSet(t) = {t[n] : n \in 1..l}
    BY <1>10, ElementsOf
  <2>2. \A n \in 1..l : t[n] \in ToSet(s)
    BY <1>3, <1>11
  <2>3. ASSUME NEW i \in 1..l
        PROVE  s[i] \in ToSet(t)
    <3>1. PICK n \in 1..l : p[n] = i
      BY <1>8
    <3>2. s[i] = t[n]
      BY <1>11, <3>1
    <3> QED
      BY <2>1, <3>2
  <2> QED
    BY <1>3, <2>1, <2>2, <2>3
<1>14. Descending(t)
  <2> SUFFICES ASSUME NEW m \in 1..l, NEW n \in 1..l, m < n
               PROVE  rule[t[m]].priority >= rule[t[n]].priority
    BY <1>10 DEF Descending
  <2>1. <<p[m], p[n]>> \in R
    BY <1>8
  <2> QED
    BY <1>4, <1>5, <1>11, <2>1
<1>15. SameArrivals(t, s)
  <2> SUFFICES ASSUME NEW x \in Installed, NEW y \in Installed,
                      rule[x].priority = rule[y].priority
               PROVE  Precedes(t, x, y) <=> Precedes(s, x, y)
    BY DEF SameArrivals
  <2>1. ASSUME Precedes(t, x, y)
        PROVE  Precedes(s, x, y)
    <3>1. PICK m, n \in 1..l : m < n /\ t[m] = x /\ t[n] = y
      BY <1>10, <2>1 DEF Precedes
    <3>2. <<p[m], p[n]>> \in R
      BY <1>8, <3>1
    <3>3. p[m] < p[n]
      BY <1>4, <1>5, <1>11, <3>1, <3>2
    <3> QED
      BY <1>1, <1>11, <3>1, <3>3 DEF Precedes
  <2>2. ASSUME Precedes(s, x, y)
        PROVE  Precedes(t, x, y)
    <3>1. PICK i, j \in 1..l : i < j /\ s[i] = x /\ s[j] = y
      BY <1>1, <2>2 DEF Precedes
    <3>2. PICK m, n \in 1..l : p[m] = i /\ p[n] = j
      BY <1>8, ZenonT(40)
    <3>3. ~(<<j, i>> \in R)
      BY <1>4, <1>5, <3>1
    <3>4. m < n
      BY <1>8, <3>1, <3>2, <3>3
    <3> QED
      BY <1>10, <1>11, <3>1, <3>2, <3>4 DEF Precedes
  <2> QED
    BY <2>1, <2>2
<1> QED
  BY <1>10, <1>12, <1>13, <1>14, <1>15 DEF IsListing, t

LEMMA InOrderListing ==
  ASSUME ListMatchesIndex
  PROVE  IsListing(InOrder) /\ Descending(InOrder) /\ SameArrivals(InOrder, rules)
<1>1. TypeOK /\ IsListing(rules) /\ (sorted => Descending(rules))
  BY ListingOfRules
<1>2. CASE sorted
  BY <1>1, <1>2 DEF InOrder, SameArrivals
<1>3. CASE ~sorted
  BY <1>1, <1>3, SortedListing DEF InOrder
<1> QED
  BY <1>2, <1>3

(* What is left of a list without the rules in S.                          *)
LEMMA RemovedListing ==
  ASSUME NEW s, s \in Seq(Ids), Distinct(s), NEW S
  PROVE  LET u == Removed(S, s)
         IN  /\ u \in Seq(Ids) /\ Distinct(u)
             /\ ToSet(u) = ToSet(s) \ S
             /\ \A x, y \in ToSet(u) : Precedes(u, x, y) <=> Precedes(s, x, y)
<1> DEFINE K == {i \in DOMAIN s : s[i] \notin S}
           u == Removed(S, s)
<1>1. PICK l \in Nat : Len(s) = l /\ DOMAIN s = 1..l
  BY LenProperties
<1>2. K \in SUBSET (1..Len(s))
  BY <1>1
<1>3. u = AtPositions(s, K)
  BY DEF Removed
<1>4. ToSet(s) = {s[i] : i \in 1..l}
  BY <1>1, ElementsOf
<1>5. {s[i] : i \in K} = ToSet(s) \ S
  BY <1>1, <1>4
<1> HIDE DEF K, u
<1>6. /\ u \in Seq(Ids) /\ Distinct(u)
      /\ ToSet(u) = {s[i] : i \in K}
      /\ \A x, y \in ToSet(u) : Precedes(u, x, y) <=> Precedes(s, x, y)
  BY <1>2, <1>3, KeptOfDistinct
<1> QED
  BY <1>5, <1>6 DEF u
-----------------------------------------------------------------------------
(* Each action keeps the list a listing of the index.                      *)
LEMMA AddKeepsListing ==
  ASSUME ListMatchesIndex, NEW id \in Ids, NEW r \in Rules,
         NEW isOff \in BOOLEAN, NEW isOver \in BOOLEAN, AddRule(id, r, isOff, isOver)
  PROVE  ListMatchesIndex'
<1>1. TypeOK /\ IsListing(rules)
  BY ListingOfRules
<1> DEFINE u == Removed({id}, rules)
<1>2. u \in Seq(Ids) /\ Distinct(u) /\ ToSet(u) = Installed \ {id}
  BY <1>1, RemovedListing DEF IsListing
<1>3. rules' = Append(u, id)
  BY DEF AddRule, Listed
<1> HIDE DEF u
<1>4. /\ rules' \in Seq(Ids) /\ Distinct(rules')
      /\ ToSet(rules') = (Installed \ {id}) \cup {id}
  <2>1. PICK v : v = Append(u, id)
    OBVIOUS
  <2>2. v \in Seq(Ids) /\ Distinct(v) /\ ToSet(v) = ToSet(u) \cup {id}
    BY <1>2, <2>1, AppendedOfDistinct
  <2> QED
    BY <1>2, <1>3, <2>1, <2>2
<1>5. rule' = [rule EXCEPT ![id] = r] /\ r # None
  BY PolicyAssumption DEF AddRule
<1>6. Installed' = Installed \cup {id}
  BY <1>1, <1>5 DEF Installed, TypeOK
<1>7. TypeOK'
  BY <1>1, <1>4, <1>5 DEF TypeOK, AddRule, Unsorted
<1>8. IsListing(rules)'
  BY <1>4, <1>6 DEF IsListing
<1>9. ~sorted'
  BY DEF AddRule, Unsorted
<1> QED
  <2>1. (TypeOK /\ IsListing(rules) /\ (sorted => Descending(rules)))'
    BY <1>7, <1>8, <1>9
  <2> QED
    BY <2>1, ListingOfRules, PTL

(* What Drop does to a listing in descending order.                        *)
LEMMA DropKeepsListing ==
  ASSUME TypeOK, NEW s, IsListing(s), NEW S \in SUBSET Ids, Drop(S, s)
  PROVE  /\ rules' \in Seq(Ids) /\ IsListing(rules)'
         /\ rule' \in [Ids -> Rules \cup {None}]
         /\ off' \in SUBSET Ids /\ over' \in SUBSET Ids
         /\ Descending(s) => Descending(rules)'
         /\ Installed' = Installed \ S
         /\ \A x \in Installed' : rule'[x] = rule[x]
         /\ \A x, y \in Installed' : Precedes(rules', x, y) <=> Precedes(s, x, y)
<1>1. PICK u : u = Removed(S, s)
  OBVIOUS
<1>2. rules' = u /\ rule' = [x \in Ids |-> IF x \in S THEN None ELSE rule[x]]
  BY <1>1 DEF Drop
<1>3. /\ u \in Seq(Ids) /\ Distinct(u)
      /\ ToSet(u) = Installed \ S
      /\ \A x, y \in ToSet(u) : Precedes(u, x, y) <=> Precedes(s, x, y)
  <2>1. s \in Seq(Ids) /\ Distinct(s) /\ ToSet(s) = Installed
    BY DEF IsListing
  <2> QED
    BY <1>1, <2>1, RemovedListing
<1>4. Installed' = Installed \ S
  BY <1>2 DEF Installed
<1>5. \A x \in Installed \ S : rule'[x] = rule[x]
  BY <1>2 DEF Installed
<1>6. IsListing(rules)'
  BY <1>2, <1>3, <1>4 DEF IsListing
<1>7. ASSUME Descending(s)
      PROVE  Descending(rules)'
  <2>1. PICK l, n \in Nat : Len(s) = l /\ Len(u) = n
    BY <1>3, LenProperties DEF IsListing
  <2>2. ToSet(u) = {u[i] : i \in 1..n}
    BY <1>3, <2>1, ElementsOf
  <2>3. ASSUME NEW i \in 1..n, NEW j \in 1..n, i < j
        PROVE  rule'[u[i]].priority >= rule'[u[j]].priority
    <3>1. u[i] \in ToSet(u) /\ u[j] \in ToSet(u)
      BY <2>2
    <3>2. Precedes(s, u[i], u[j])
      BY <1>3, <2>1, <2>3, <3>1 DEF Precedes
    <3>3. PICK a, b \in 1..l : a < b /\ s[a] = u[i] /\ s[b] = u[j]
      BY <2>1, <3>2 DEF Precedes
    <3>4. rule[u[i]].priority >= rule[u[j]].priority
      BY <1>7, <2>1, <3>3 DEF Descending
    <3> QED
      BY <1>3, <1>5, <3>1, <3>4
  <2> QED
    BY <1>2, <2>1, <2>3 DEF Descending
<1>8. /\ rule' \in [Ids -> Rules \cup {None}]
      /\ off' \in SUBSET Ids /\ over' \in SUBSET Ids
  BY <1>2 DEF TypeOK, Drop
<1> QED
  BY <1>2, <1>3, <1>4, <1>5, <1>6, <1>7, <1>8

LEMMA RemoveKeepsListing ==
  ASSUME ListMatchesIndex, NEW id \in Ids, RemoveRule(id)
  PROVE  ListMatchesIndex'
<1>1. TypeOK /\ IsListing(rules) /\ (sorted => Descending(rules))
  BY ListingOfRules
<1>2. Drop({id}, rules) /\ UNCHANGED <<sorted, blocked, verdict>>
  BY DEF RemoveRule
<1>3. /\ rules' \in Seq(Ids) /\ IsListing(rules)'
      /\ rule' \in [Ids -> Rules \cup {None}]
      /\ off' \in SUBSET Ids /\ over' \in SUBSET Ids
      /\ Descending(rules) => Descending(rules)'
  BY <1>1, <1>2, DropKeepsListing
<1>4. TypeOK'
  BY <1>1, <1>2, <1>3 DEF TypeOK
<1>5. (TypeOK /\ IsListing(rules) /\ (sorted => Descending(rules)))'
  BY <1>1, <1>2, <1>3, <1>4
<1> QED
  BY <1>5, ListingOfRules, PTL

LEMMA FirstIsLeast ==
  ASSUME NEW S \in SUBSET Nat, S # {}
  PROVE  FirstOf(S) \in S /\ \A j \in S : FirstOf(S) <= j
BY LeastNatural DEF FirstOf

(* The rules that may decide about c stand in the list at Deciding.        *)
LEMMA DecidingRules ==
  ASSUME NEW s, IsListing(s), NEW c
  PROVE  /\ Deciding(s, c) \in SUBSET Nat /\ Deciding(s, c) \in SUBSET (1..Len(s))
         /\ Base!Candidates(c) = {s[i] : i \in Deciding(s, c)}
         /\ Base!Candidates(c) \in SUBSET Installed
<1>1. PICK l \in Nat : Len(s) = l
  BY LenProperties DEF IsListing
<1>2. Installed = {s[i] : i \in 1..l}
  BY <1>1, ElementsOf DEF IsListing
<1>3. Base!Candidates(c) = {x \in Installed : x \notin off \cup over /\ MatchRule(rule[x], c)}
  BY DEF Base!Candidates, Installed
<1> QED
  BY <1>1, <1>2, <1>3 DEF Deciding

LEMMA EvaluateKeepsListing ==
  ASSUME ListMatchesIndex, NEW c \in Contexts, Evaluate(c)
  PROVE  ListMatchesIndex'
<1> DEFINE s == InOrder
           S == Deciding(s, c)
<1>1. TypeOK /\ IsListing(s) /\ Descending(s)
  BY ListingOfRules, InOrderListing
<1>2. Drop(over, s) /\ sorted' = TRUE /\ blocked' = blocked
  BY DEF Evaluate
<1>3. verdict' = IF S = {} THEN [by |-> None, effect |-> Default] ELSE ByFirst(s, S)
  BY DEF Evaluate
<1>4. S \in SUBSET Nat /\ S \in SUBSET (1..Len(s))
  BY <1>1, DecidingRules
<1> HIDE DEF s, S
<1>5. verdict'.by \in Ids \cup {None, Blocklist}
  <2>1. CASE S = {}
    BY <1>3, <2>1
  <2>2. CASE S # {}
    <3>1. FirstOf(S) \in 1..Len(s)
      BY <1>4, <2>2, FirstIsLeast
    <3>2. s[FirstOf(S)] \in Ids
      BY <1>1, <3>1, ElementOfSeq DEF IsListing
    <3> QED
      BY <1>3, <2>2, <3>2 DEF ByFirst
  <2> QED
    BY <2>1, <2>2
<1>6. /\ rules' \in Seq(Ids) /\ IsListing(rules)'
      /\ rule' \in [Ids -> Rules \cup {None}]
      /\ off' \in SUBSET Ids /\ over' \in SUBSET Ids
      /\ Descending(rules)'
  <2>1. over \in SUBSET Ids
    BY <1>1 DEF TypeOK
  <2>2. /\ rules' \in Seq(Ids) /\ IsListing(rules)'
        /\ rule' \in [Ids -> Rules \cup {None}]
        /\ off' \in SUBSET Ids /\ over' \in SUBSET Ids
        /\ Descending(s) => Descending(rules)'
    BY <1>1, <1>2, <2>1, DropKeepsListing
  <2> QED
    BY <1>1, <2>2
<1>7. TypeOK'
  BY <1>1, <1>2, <1>5, <1>6 DEF TypeOK
<1>8. (TypeOK /\ IsListing(rules) /\ (sorted => Descending(rules)))'
  BY <1>6, <1>7
<1> QED
  BY <1>8, ListingOfRules, PTL

-----------------------------------------------------------------------------
(* The list and the index hold the same rules, each once, in descending    *)
(* order when the list is marked sorted.                                   *)
THEOREM ListMatchesIndexAlways == Spec => []ListMatchesIndex
<1>1. Init => ListMatchesIndex
  <2> SUFFICES ASSUME Init
               PROVE  ListMatchesIndex
    OBVIOUS
  <2>1. /\ rules \in Seq(Ids) /\ Len(rules) = 0
        /\ ToSet(rules) = {}
    <3>1. rules = <<>>
      BY DEF Init
    <3>2. rules \in Seq(Ids) /\ Len(rules) = 0
      BY <3>1
    <3> QED
      BY <3>1, <3>2, EmptyHasNone
  <2>2. Installed = {}
    BY DEF Init, Installed
  <2>3. TypeOK
    BY <2>1 DEF Init, TypeOK
  <2> QED
    BY <2>1, <2>2, <2>3, ListingOfRules DEF IsListing, Distinct, Descending
<1>2. ListMatchesIndex /\ [Next]_vars => ListMatchesIndex'
  <2> SUFFICES ASSUME ListMatchesIndex, [Next]_vars
               PROVE  ListMatchesIndex'
    OBVIOUS
  <2>1. CASE \E id \in Ids, r \in Rules, isOff, isOver \in BOOLEAN : AddRule(id, r, isOff, isOver)
    BY <2>1, AddKeepsListing
  <2>2. CASE \E id \in Ids : RemoveRule(id)
    BY <2>2, RemoveKeepsListing
  <2>3. CASE \E id \in Ids : ToggleRule(id)
    BY <2>3 DEF ListMatchesIndex, TypeOK, ToggleRule
  <2>4. CASE \E id \in Ids : Expire(id)
    BY <2>4 DEF ListMatchesIndex, TypeOK, Expire
  <2>5. CASE \E S \in SUBSET Contexts : UpdateBlocklist(S)
    BY <2>5 DEF ListMatchesIndex, TypeOK, UpdateBlocklist
  <2>6. CASE \E c \in Contexts : EvaluateBlocked(c)
    BY <2>6 DEF ListMatchesIndex, TypeOK, EvaluateBlocked
  <2>7. CASE \E c \in Contexts : Evaluate(c)
    BY <2>7, EvaluateKeepsListing
  <2>8. CASE UNCHANGED vars
    BY <2>8 DEF ListMatchesIndex, TypeOK, vars
  <2> QED
    BY <2>1, <2>2, <2>3, <2>4, <2>5, <2>6, <2>7, <2>8 DEF Next
<1> QED
  BY <1>1, <1>2, PTL DEF Spec

-----------------------------------------------------------------------------
(* What PolicyBase remembers of the order follows each change of the list. *)
LEMMA AddInstalls ==
  ASSUME ListMatchesIndex, NEW id \in Ids, NEW r \in Rules,
         NEW isOff \in BOOLEAN, NEW isOver \in BOOLEAN, AddRule(id, r, isOff, isOver)
  PROVE  Base!Install(id, r, isOff, isOver)
<1>1. TypeOK /\ IsListing(rules)
  BY ListingOfRules
<1> DEFINE u == Removed({id}, rules)
<1>2. /\ u \in Seq(Ids) /\ Distinct(u) /\ ToSet(u) = Installed \ {id}
      /\ \A x, y \in ToSet(u) : Precedes(u, x, y) <=> Precedes(rules, x, y)
  BY <1>1, RemovedListing DEF IsListing
<1>3. rules' = Append(u, id) /\ rule' = [rule EXCEPT ![id] = r]
  BY DEF AddRule, Listed
<1>4. PICK v : v = Append(u, id)
  OBVIOUS
<1> HIDE DEF u
<1>5. /\ ToSet(v) = Installed \cup {id}
      /\ \A x, y \in ToSet(v) :
           Precedes(v, x, y) <=> (Precedes(u, x, y) \/ (x \in ToSet(u) /\ y = id))
  <2>1. id \notin ToSet(u)
    BY <1>2
  <2>2. /\ ToSet(v) = ToSet(u) \cup {id}
        /\ \A x, y \in ToSet(v) :
             Precedes(v, x, y) <=> (Precedes(u, x, y) \/ (x \in ToSet(u) /\ y = id))
    BY <1>2, <1>4, <2>1, AppendedOfDistinct
  <2> QED
    BY <1>2, <2>2
<1>6. \A x, y \in Installed : Precedes(u, x, y) <=>
        Precedes(rules, x, y) /\ x # id /\ y # id
  <2>1. \A x, y : Precedes(u, x, y) => x \in ToSet(u) /\ y \in ToSet(u)
    BY <1>2, PrecedesWithin
  <2> QED
    BY <1>2, <2>1
<1>7. Arrivals(v, rule') = Base!Without({id}) \cup {<<x, id>> : x \in Base!Peers(id, r)}
  <2> DEFINE B == Base!Without({id}) \cup {<<x, id>> : x \in Base!Peers(id, r)}
             T == Installed \cup {id}
  <2>1. ToSet(rules) = Installed
    BY <1>1 DEF IsListing
  <2>2. ASSUME NEW x \in T, NEW y \in T
        PROVE  <<x, y>> \in Arrivals(v, rule') <=> <<x, y>> \in B
    <3>1. <<x, y>> \in Arrivals(v, rule') <=>
            /\ rule'[x].priority = rule'[y].priority
            /\ Precedes(v, x, y)
      BY <1>5 DEF Arrivals
    <3>2. <<x, y>> \in B <=>
            \/ /\ x # id /\ y # id /\ x \in Installed /\ y \in Installed
               /\ rule[x].priority = rule[y].priority /\ Precedes(rules, x, y)
            \/ x \in Installed \ {id} /\ y = id /\ rule[x].priority = r.priority
      BY <2>1 DEF Base!Without, Base!Peers, Arrivals, Installed
    <3>3. CASE x # id /\ y # id
      <4>1. rule'[x] = rule[x] /\ rule'[y] = rule[y]
        BY <1>1, <1>3, <3>3 DEF TypeOK, Installed
      <4>2. Precedes(v, x, y) <=> Precedes(rules, x, y)
        BY <1>5, <1>6, <3>3
      <4> QED
        BY <3>1, <3>2, <3>3, <4>1, <4>2
    <3>4. CASE x # id /\ y = id
      <4>1. rule'[x] = rule[x] /\ rule'[y] = r
        BY <1>1, <1>3, <3>4 DEF TypeOK, Installed
      <4>2. Precedes(v, x, y)
        BY <1>2, <1>5, <3>4
      <4> QED
        BY <3>1, <3>2, <3>4, <4>1, <4>2
    <3>5. CASE x = id
      <4>1. ~Precedes(v, x, y)
        <5>1. x \notin ToSet(u)
          BY <1>2, <3>5
        <5>2. ~Precedes(u, x, y)
          BY <1>2, <5>1, PrecedesWithin
        <5> QED
          BY <1>5, <5>1, <5>2
      <4> QED
        BY <3>1, <3>2, <3>5, <4>1
    <3> QED
      BY <3>3, <3>4, <3>5
  <2>3. Arrivals(v, rule') \in SUBSET (T \X T)
    BY <1>5 DEF Arrivals
  <2>4. B \in SUBSET (T \X T)
    BY <2>1 DEF Base!Without, Base!Peers, Arrivals, Installed
  <2> HIDE DEF B
  <2>5. Arrivals(v, rule') = B
    BY <2>2, <2>3, <2>4
  <2> QED
    BY <2>5 DEF B
<1> QED
  BY <1>3, <1>4, <1>7 DEF Base!Install, AddRule

LEMMA DropWithdraws ==
  ASSUME ListMatchesIndex, NEW s, IsListing(s), SameArrivals(s, rules),
         NEW S \in SUBSET Ids, Drop(S, s)
  PROVE  Base!Withdraw(S)
<1>1. TypeOK /\ IsListing(rules)
  BY ListingOfRules
<1>2. /\ IsListing(rules)' /\ Installed' = Installed \ S
      /\ \A x \in Installed' : rule'[x] = rule[x]
      /\ \A x, y \in Installed' : Precedes(rules', x, y) <=> Precedes(s, x, y)
  BY <1>1, DropKeepsListing
<1>3. Arrivals(rules, rule)' = Base!Without(S)
  <2>1. ToSet(rules') = Installed \ S /\ ToSet(rules) = Installed
    BY <1>1, <1>2 DEF IsListing
  <2>2. ASSUME NEW x \in Installed \ S, NEW y \in Installed \ S
        PROVE  /\ rule'[x] = rule[x] /\ rule'[y] = rule[y]
               /\ rule[x].priority = rule[y].priority
                    => (Precedes(rules', x, y) <=> Precedes(rules, x, y))
    BY <1>2 DEF SameArrivals
  <2>3. Arrivals(rules, rule)' =
          {w \in (Installed \ S) \X (Installed \ S) :
             rule'[w[1]].priority = rule'[w[2]].priority /\ Precedes(rules', w[1], w[2])}
    BY <2>1 DEF Arrivals
  <2>4. Base!Without(S) =
          {w \in (Installed \ S) \X (Installed \ S) :
             rule[w[1]].priority = rule[w[2]].priority /\ Precedes(rules, w[1], w[2])}
    BY <2>1 DEF Arrivals, Base!Without
  <2> QED
    BY <2>2, <2>3, <2>4
<1> QED
  BY <1>3 DEF Drop, Base!Withdraw, Base!Absent

(* The first rule of the list that may decide is the one that outranks all *)
(* others.                                                                 *)
LEMMA FirstOutranks ==
  ASSUME ListMatchesIndex, NEW c \in Contexts, Deciding(InOrder, c) # {}
  PROVE  Base!Winner(c) = InOrder[FirstOf(Deciding(InOrder, c))]
<1> DEFINE s == InOrder
           S == Deciding(s, c)
           w == s[FirstOf(S)]
           C == Base!Candidates(c)
<1>1. TypeOK /\ IsListing(s) /\ Descending(s) /\ SameArrivals(s, rules) /\ IsListing(rules)
  BY ListingOfRules, InOrderListing
<1>2. PICK l \in Nat : Len(s) = l
  BY <1>1, LenProperties DEF IsListing
<1> HIDE DEF s
<1>3. /\ S \in SUBSET Nat /\ S \in SUBSET (1..l)
      /\ C = {s[i] : i \in S}
      /\ C \in SUBSET Installed
  BY <1>1, <1>2, DecidingRules
<1>4. S # {}
  BY DEF s
<1> HIDE DEF S
<1>5. FirstOf(S) \in S /\ \A j \in S : FirstOf(S) <= j
  BY <1>3, <1>4, FirstIsLeast
<1>6. w \in C
  BY <1>3, <1>5
<1> HIDE DEF C
<1>7. ASSUME NEW x \in C \ {w}
      PROVE  Base!Outranks(w, x) /\ ~Base!Outranks(x, w)
  <2>1. PICK j \in S : s[j] = x
    BY <1>3
  <2>2. FirstOf(S) < j /\ FirstOf(S) \in 1..l /\ j \in 1..l
    <3>1. FirstOf(S) # j
      BY <2>1
    <3>2. PICK i \in 1..l : i = FirstOf(S) /\ i <= j
      BY <1>3, <1>5
    <3>3. j \in 1..l
      BY <1>3
    <3> QED
      BY <3>1, <3>2, <3>3
  <2>3. rule[w].priority >= rule[x].priority /\ Precedes(s, w, x)
    BY <1>1, <1>2, <2>1, <2>2 DEF Descending, Precedes
  <2>4. ~Precedes(s, x, w)
    BY <1>1, <1>2, <2>1, <2>2 DEF Precedes, Distinct, IsListing
  <2>5. /\ w \in Installed /\ x \in Installed
        /\ rule[w].priority \in Nat /\ rule[x].priority \in Nat
    BY <1>1, <1>3, <1>6, InstalledRules
  <2>6. CASE rule[w].priority > rule[x].priority
    BY <2>5, <2>6 DEF Base!Outranks
  <2>7. CASE rule[w].priority = rule[x].priority
    <3>1. Precedes(rules, w, x) /\ ~Precedes(rules, x, w)
      BY <1>1, <2>3, <2>4, <2>5, <2>7 DEF SameArrivals
    <3>2. ToSet(rules) = Installed
      BY <1>1 DEF IsListing
    <3>3. <<w, x>> \in Arrivals(rules, rule) /\ <<x, w>> \notin Arrivals(rules, rule)
      BY <2>5, <2>7, <3>1, <3>2 DEF Arrivals
    <3> QED
      BY <2>5, <2>7, <3>3 DEF Base!Outranks
  <2> QED
    BY <2>3, <2>5, <2>6, <2>7
<1> HIDE DEF w
<1>8. ASSUME NEW x \in C, \A j \in C \ {x} : Base!Outranks(x, j)
      PROVE  x = w
  BY <1>6, <1>7, <1>8
<1>9. Base!Winner(c) = w
  BY <1>6, <1>7, <1>8 DEF Base!Winner, C
<1> QED
  BY <1>9 DEF w, S, s

LEMMA EvaluateDecides ==
  ASSUME ListMatchesIndex, NEW c \in Contexts, Evaluate(c)
  PROVE  Base!DecideByRule(c)
<1> DEFINE s == InOrder
           S == Deciding(s, c)
<1>1. TypeOK /\ IsListing(s) /\ SameArrivals(s, rules)
  BY ListingOfRules, InOrderListing
<1>2. Base!Candidates(c) = {} <=> S = {}
  <2>1. Base!Candidates(c) = {s[i] : i \in S}
    BY <1>1, DecidingRules
  <2> QED
    BY <2>1
<1>3. Base!Withdraw(over)
  <2>1. Drop(over, s) /\ over \in SUBSET Ids
    BY <1>1 DEF Evaluate, TypeOK
  <2> HIDE DEF s
  <2> QED
    BY <1>1, <2>1, DropWithdraws
<1>4. verdict' = IF Base!Candidates(c) = {} THEN [by |-> None, effect |-> Default]
                 ELSE [by |-> Base!Winner(c), effect |-> rule[Base!Winner(c)].effect]
  BY <1>2, FirstOutranks DEF Evaluate, ByFirst
<1> QED
  BY <1>3, <1>4 DEF Base!DecideByRule, Evaluate

(* Every decision of the engine is the one PolicyBase makes, which has no  *)
(* list, no index and no lazy sort.                                        *)
THEOREM DecidesByPriorityAlways == Spec => DecidesByPriority
<1>1. Init => Base!BaseInit
  <2> SUFFICES ASSUME Init
               PROVE  Base!BaseInit
    OBVIOUS
  <2>1. ToSet(rules) = {}
    BY EmptyHasNone DEF Init
  <2>2. Arrivals(rules, rule) = {}
    BY <2>1 DEF Arrivals
  <2> QED
    BY <2>2 DEF Init, Base!BaseInit
<1>2. ListMatchesIndex /\ [Next]_vars => [Base!BaseNext]_Base!base
  <2> SUFFICES ASSUME ListMatchesIndex, [Next]_vars
               PROVE  [Base!BaseNext]_Base!base
    OBVIOUS
  <2>1. ASSUME NEW id \in Ids, NEW r \in Rules, NEW isOff \in BOOLEAN, NEW isOver \in BOOLEAN,
               AddRule(id, r, isOff, isOver)
        PROVE  Base!BaseNext
    BY <2>1, AddInstalls DEF Base!BaseNext
  <2>2. ASSUME NEW id \in Ids, RemoveRule(id)
        PROVE  Base!BaseNext
    <3>1. IsListing(rules) /\ SameArrivals(rules, rules) /\ Drop({id}, rules)
      BY <2>2, ListingOfRules DEF SameArrivals, RemoveRule
    <3>2. Base!Withdraw({id}) /\ UNCHANGED <<blocked, verdict>>
      BY <2>2, <3>1, DropWithdraws DEF RemoveRule
    <3> QED
      BY <3>2 DEF Base!BaseNext
  <2>3. ASSUME NEW id \in Ids, ToggleRule(id)
        PROVE  Base!BaseNext
    <3>1. Base!Switch(id)
      BY <2>3 DEF ToggleRule, Base!Switch, Arrivals
    <3> QED
      BY <3>1 DEF Base!BaseNext
  <2>4. ASSUME NEW id \in Ids, Expire(id)
        PROVE  Base!BaseNext
    <3>1. Base!Age(id)
      BY <2>4 DEF Expire, Base!Age, Arrivals
    <3> QED
      BY <3>1 DEF Base!BaseNext
  <2>5. ASSUME NEW S \in SUBSET Contexts, UpdateBlocklist(S)
        PROVE  Base!BaseNext
    <3>1. Base!Block(S)
      BY <2>5 DEF UpdateBlocklist, Base!Block, Arrivals
    <3> QED
      BY <3>1 DEF Base!BaseNext
  <2>6. ASSUME NEW c \in Contexts, EvaluateBlocked(c)
        PROVE  Base!BaseNext
    <3>1. Base!DecideByList(c)
      BY <2>6 DEF EvaluateBlocked, Base!DecideByList, Arrivals
    <3> QED
      BY <3>1 DEF Base!BaseNext
  <2>7. ASSUME NEW c \in Contexts, Evaluate(c)
        PROVE  Base!BaseNext
    BY <2>7, EvaluateDecides DEF Base!BaseNext
  <2>8. CASE UNCHANGED vars
    BY <2>8 DEF vars, Base!base, Arrivals
  <2> QED
    BY <2>1, <2>2, <2>3, <2>4, <2>5, <2>6, <2>7, <2>8 DEF Next
<1> QED
  BY <1>1, <1>2, ListMatchesIndexAlways, PTL DEF Spec, DecidesByPriority, Base!BaseSpec

-----------------------------------------------------------------------------
(* SigmaEngine.  A load finds what was there when it began, which is at    *)
(* most MaxLoad seconds before it ended.                                   *)
Loadable(p) == disk[p].content \in DOMAIN RuleIn

Times ==
  /\ clock \in 0..LastSecond /\ loadedAt \in 0..clock /\ check.began \in 0..clock
  /\ check.phase = "loading" => clock <= check.began + MaxLoad
  /\ \A p \in DOMAIN disk : disk[p].since \in 0..clock

SigmaTypes ==
  /\ dir \in BOOLEAN
  /\ disk = [p \in DOMAIN disk |-> disk[p]] /\ DOMAIN disk \subseteq Paths
  /\ sigmaRules \subseteq DOMAIN RuleIn
  /\ check \in [phase : {"none", "loading", "matching", "done"}, event : DOMAIN Events \cup {""},
                began : Nat, todo : SUBSET Paths, found : SUBSET DOMAIN RuleIn, matched : SUBSET DOMAIN RuleIn,
                raised : BOOLEAN]

NoDirectory == ~dir => DOMAIN disk = {}

(* Files older than the last load.                                         *)
LoadedOnes ==
  \A p \in DOMAIN disk : disk[p].since + MaxLoad < loadedAt /\ Loadable(p) => disk[p].content \in sigmaRules

(* A reload finds what was there before the second in which it began.      *)
Reloading ==
  check.phase = "loading" =>
    \A p \in DOMAIN disk : disk[p].since < check.began /\ Loadable(p) =>
      p \in check.todo \/ disk[p].content \in check.found

(* After it, or if none was needed, files older than the interval and the  *)
(* duration are older than the last load.                                  *)
UpToDate ==
  check.phase \in {"matching", "done"} =>
    \A p \in DOMAIN disk :
      check.began - disk[p].since > ReloadAfter + MaxLoad => disk[p].since + MaxLoad < loadedAt

Tried ==
  check.phase = "done" /\ ~check.raised =>
    check.matched = {c \in sigmaRules : MatchEvent(check.event, RuleIn[c])}

SigmaInv == Times /\ SigmaTypes /\ NoDirectory /\ LoadedOnes /\ Reloading /\ UpToDate /\ Tried

LEMMA SecondsAreNatural ==
  ReloadAfter \in Nat /\ MaxLoad \in Nat /\ LastSecond \in Nat /\ LastSecond > ReloadAfter
<1>1. ReloadAfter \in Nat /\ MaxLoad \in Nat /\ LastSecond \in Nat
  BY SigmaAssumption
<1>2. LastSecond > ReloadAfter
  BY SigmaAssumption
<1> QED
  BY <1>1, <1>2

LEMMA SigmaStarts == SigmaInit => SigmaInv
<1> SUFFICES ASSUME SigmaInit PROVE SigmaInv
  OBVIOUS
<1>1. PICK P \in SUBSET Paths : disk \in [P -> [content : Contents, since : {0}]]
  BY DEF SigmaInit
<1>2. DOMAIN disk = P /\ \A p \in P : disk[p].since = 0
  BY <1>1
<1>3. ReloadAfter + 1 \in 0..LastSecond /\ clock = ReloadAfter + 1
  BY SecondsAreNatural DEF SigmaInit
<1>4. \A p \in DOMAIN disk : Loadable(p) => disk[p].content \in sigmaRules
  BY DEF SigmaInit, LoadFile, Loadable
<1>5. sigmaRules \subseteq DOMAIN RuleIn
  BY DEF SigmaInit, LoadFile
<1>8. Times
  <2>1. loadedAt \in 0..clock
    BY <1>3, SecondsAreNatural DEF SigmaInit
  <2>2. check.began = 0 /\ check.phase = "none"
    BY DEF SigmaInit, NoCheck
  <2> QED
    BY <1>2, <1>3, <2>1, <2>2, SecondsAreNatural DEF Times
<1>6. SigmaTypes
  <2>2. disk = [p \in DOMAIN disk |-> disk[p]]
    BY <1>1
  <2> QED
    BY <1>2, <1>3, <1>5, <2>2 DEF SigmaTypes, SigmaInit, NoCheck
<1>7. NoDirectory
  BY DEF NoDirectory, SigmaInit
<1> QED
  BY <1>4, <1>6, <1>7, <1>8 DEF SigmaInv, LoadedOnes, Reloading, UpToDate, Tried, SigmaInit, NoCheck

LEMMA SecondKeeps == SigmaInv /\ Second => SigmaInv'
<1> SUFFICES ASSUME SigmaInv, Second PROVE SigmaInv'
  OBVIOUS
<1> USE DEF SigmaInv, Second
<1>1. clock' = clock + 1 /\ clock' \in 0..LastSecond
  BY SecondsAreNatural DEF Times
<1>2. Times'
  BY <1>1, SecondsAreNatural DEF Times
<1>3. SigmaTypes'
  BY DEF SigmaTypes
<1> QED
  BY <1>1, <1>2, <1>3 DEF NoDirectory, LoadedOnes, Reloading, UpToDate, Tried, Loadable

(* Changes of the files, each of this second.                              *)
LEMMA FilesChange ==
  ASSUME SigmaInv, dir' \in BOOLEAN,
         disk' = [p \in DOMAIN disk' |-> disk'[p]], DOMAIN disk' \subseteq Paths,
         \A p \in DOMAIN disk' : \/ p \in DOMAIN disk /\ disk'[p] = disk[p]
                                 \/ disk'[p].since = clock,
         ~dir' => DOMAIN disk' = {},
         UNCHANGED <<clock, sigmaRules, loadedAt, check>>
  PROVE  SigmaInv'
<1> USE DEF SigmaInv
<1>0. clock \in Nat /\ loadedAt \in 0..clock /\ check.began \in 0..clock /\ ReloadAfter \in Nat /\ MaxLoad \in Nat
  BY SecondsAreNatural DEF Times
<1>1. Times'
  BY <1>0 DEF Times
<1>2. SigmaTypes'
  BY DEF SigmaTypes
<1>3. LoadedOnes'
  <2>1. \A p \in DOMAIN disk' : disk'[p].since = clock => ~(disk'[p].since + MaxLoad < loadedAt')
    BY <1>0
  <2> QED
    BY <2>1 DEF LoadedOnes, Loadable
<1>4. Reloading'
  <2>1. \A p \in DOMAIN disk' : disk'[p].since = clock => ~(disk'[p].since < check'.began)
    BY <1>0
  <2> QED
    BY <2>1 DEF Reloading, Loadable
<1>5. UpToDate'
  <2>1. \A p \in DOMAIN disk' : disk'[p].since = clock => ~(check'.began - disk'[p].since > ReloadAfter + MaxLoad)
    BY <1>0
  <2> QED
    BY <2>1 DEF UpToDate
<1> QED
  BY <1>1, <1>2, <1>3, <1>4, <1>5 DEF NoDirectory, Tried

LEMMA EditFileKeeps ==
  ASSUME SigmaInv, NEW p \in Paths, NEW c \in Contents, EditFile(p, c)
  PROVE  SigmaInv'
<1>1. DOMAIN disk' = DOMAIN disk \cup {p} /\ dir' = TRUE
  BY DEF EditFile
<1>2. \A q \in DOMAIN disk' : disk'[q] = IF q = p THEN [content |-> c, since |-> clock] ELSE disk[q]
  BY DEF EditFile
<1>3. \A q \in DOMAIN disk' : \/ q \in DOMAIN disk /\ disk'[q] = disk[q]
                              \/ disk'[q].since = clock
  BY <1>1, <1>2
<1>4. disk' = [q \in DOMAIN disk' |-> disk'[q]]
  BY DEF EditFile
<1>5. DOMAIN disk' \subseteq Paths
  BY <1>1 DEF SigmaInv, SigmaTypes
<1> QED
  BY <1>1, <1>3, <1>4, <1>5, FilesChange DEF EditFile

LEMMA RemoveFileKeeps ==
  ASSUME SigmaInv, NEW p \in Paths, RemoveFile(p)
  PROVE  SigmaInv'
<1>1. disk' = [q \in DOMAIN disk \ {p} |-> disk[q]]
  BY DEF RemoveFile, Restrict
<1>2. DOMAIN disk' \subseteq DOMAIN disk /\ \A q \in DOMAIN disk' : disk'[q] = disk[q]
  BY <1>1
<1>3. disk' = [q \in DOMAIN disk' |-> disk'[q]]
  BY <1>1
<1>4. DOMAIN disk' \subseteq Paths /\ dir \in BOOLEAN /\ (~dir => DOMAIN disk' = {})
  BY <1>2 DEF SigmaInv, SigmaTypes, NoDirectory
<1>5. dir' = dir /\ UNCHANGED <<clock, sigmaRules, loadedAt, check>>
  BY DEF RemoveFile
<1> QED
  BY <1>2, <1>3, <1>4, <1>5, FilesChange

LEMMA RemoveDirectoryKeeps == SigmaInv /\ RemoveDirectory => SigmaInv'
<1> SUFFICES ASSUME SigmaInv, RemoveDirectory PROVE SigmaInv'
  OBVIOUS
<1>1. DOMAIN disk' = {} /\ dir' = FALSE /\ UNCHANGED <<clock, sigmaRules, loadedAt, check>>
  BY DEF RemoveDirectory
<1>2. disk' = [q \in DOMAIN disk' |-> disk'[q]]
  BY DEF RemoveDirectory
<1> QED
  BY <1>1, <1>2, FilesChange

LEMMA StartCheckKeeps ==
  ASSUME SigmaInv, NEW e \in DOMAIN Events, StartCheck(e)
  PROVE  SigmaInv'
<1> USE DEF SigmaInv
<1>0. UNCHANGED <<clock, dir, disk, sigmaRules, loadedAt>>
  BY DEF StartCheck
<1> DEFINE begun == [NoCheck EXCEPT !.event = e, !.began = clock]
           Checks == [phase : {"none", "loading", "matching", "done"}, event : DOMAIN Events \cup {""},
                      began : Nat, todo : SUBSET Paths, found : SUBSET DOMAIN RuleIn,
                      matched : SUBSET DOMAIN RuleIn, raised : BOOLEAN]
<1>1. NoCheck \in Checks
  BY DEF NoCheck
<1>2. clock \in Nat
  BY SecondsAreNatural DEF Times
<1>10. begun \in Checks /\ begun.began = clock
  BY <1>1, <1>2
<1>3. clock \in Nat /\ MaxLoad \in Nat /\ ReloadAfter \in Nat /\ loadedAt \in Nat
  BY SecondsAreNatural DEF Times
<1>4. check' = IF Overdue /\ dir THEN [begun EXCEPT !.phase = "loading", !.todo = DOMAIN disk]
               ELSE [begun EXCEPT !.phase = "matching"]
  BY DEF StartCheck
<1> HIDE DEF begun
<1>5. check'.began = clock
  BY <1>10, <1>4
<1>6. Times'
  BY <1>0, <1>3, <1>5 DEF Times
<1>7. SigmaTypes'
  BY <1>0, <1>10, <1>4 DEF SigmaTypes
<1>8. CASE Overdue /\ dir
  <2>1. check'.phase = "loading" /\ check'.todo = DOMAIN disk
    BY <1>10, <1>4, <1>8
  <2> QED
    BY <1>0, <1>6, <1>7, <2>1 DEF NoDirectory, LoadedOnes, Reloading, UpToDate, Tried, Loadable
<1>9. CASE ~(Overdue /\ dir)
  <2>2. check'.phase = "matching"
    BY <1>10, <1>4, <1>9
  <2>4. UpToDate'
    <3>1. CASE ~Overdue
      BY <1>0, <1>3, <1>5, <3>1 DEF UpToDate, Overdue, Times
    <3>2. CASE ~dir
      BY <1>0, <3>2 DEF UpToDate, NoDirectory
    <3> QED
      BY <1>9, <3>1, <3>2
  <2> QED
    BY <1>0, <1>6, <1>7, <2>2, <2>4 DEF NoDirectory, LoadedOnes, Reloading, Tried, Loadable
<1> QED
  BY <1>8, <1>9

LEMMA ReadFileKeeps ==
  ASSUME SigmaInv, NEW p \in Paths, ReadFile(p)
  PROVE  SigmaInv'
<1> USE DEF SigmaInv
<1>0. UNCHANGED <<clock, dir, disk, sigmaRules, loadedAt>> /\ check.phase = "loading"
  BY DEF ReadFile
<1> DEFINE read == IF p \in DOMAIN disk THEN LoadFile(p) ELSE {}
<1>1. check' = [check EXCEPT !.todo = @ \ {p}, !.found = @ \cup read]
  BY DEF ReadFile
<1>2. read \subseteq DOMAIN RuleIn /\ (p \in DOMAIN disk /\ Loadable(p) => disk[p].content \in read)
  BY DEF LoadFile, Loadable
<1> HIDE DEF read
<1>3. /\ check'.phase = "loading" /\ check'.todo = check.todo \ {p}
      /\ check'.found = check.found \cup read /\ check'.began = check.began
  BY <1>0, <1>1 DEF SigmaTypes
<1>4. SigmaTypes'
  BY <1>0, <1>1, <1>2 DEF SigmaTypes
<1>5. Reloading'
  BY <1>0, <1>2, <1>3 DEF Reloading, Loadable
<1> QED
  BY <1>0, <1>3, <1>4, <1>5 DEF Times, NoDirectory, LoadedOnes, UpToDate, Tried, Loadable

LEMMA EndReloadKeeps == SigmaInv /\ EndReload => SigmaInv'
<1> SUFFICES ASSUME SigmaInv, EndReload PROVE SigmaInv'
  OBVIOUS
<1> USE DEF SigmaInv
<1>0. /\ UNCHANGED <<clock, dir, disk>> /\ check.phase = "loading" /\ check.todo = {}
      /\ sigmaRules' = check.found /\ loadedAt' = clock
  BY DEF EndReload
<1>1. check' = [check EXCEPT !.phase = "matching", !.found = {}]
  BY DEF EndReload
<1>2. check'.phase = "matching" /\ check'.began = check.began
  BY <1>1 DEF SigmaTypes
<1>3. clock \in Nat /\ ReloadAfter \in Nat /\ MaxLoad \in Nat /\ check.began \in 0..clock
      /\ clock <= check.began + MaxLoad /\ \A p \in DOMAIN disk : disk[p].since \in 0..clock
  BY <1>0, SecondsAreNatural DEF Times
<1>7. Times'
  BY <1>0, <1>2, <1>3 DEF Times
<1>4. SigmaTypes'
  BY <1>0, <1>1 DEF SigmaTypes
<1>5. LoadedOnes'
  <2>1. \A p \in DOMAIN disk : disk[p].since + MaxLoad < clock => disk[p].since < check.began
    BY <1>3
  <2> QED
    BY <1>0, <2>1 DEF LoadedOnes, Reloading, Loadable
<1>6. UpToDate'
  BY <1>0, <1>2, <1>3 DEF UpToDate
<1> QED
  BY <1>0, <1>2, <1>4, <1>5, <1>6, <1>7 DEF Times, NoDirectory, Reloading, Tried

LEMMA MatchRulesKeeps == SigmaInv /\ MatchRules => SigmaInv'
<1> SUFFICES ASSUME SigmaInv, MatchRules PROVE SigmaInv'
  OBVIOUS
<1> USE DEF SigmaInv
<1>0. UNCHANGED <<clock, dir, disk, sigmaRules, loadedAt>> /\ check.phase = "matching"
  BY DEF MatchRules
<1> DEFINE bad == {c \in sigmaRules : Raises(RuleIn[c])}
           hits(tried) == {c \in tried : MatchEvent(check.event, RuleIn[c])}
<1>1. \E tried \in IF bad = {} THEN {sigmaRules} ELSE SUBSET (sigmaRules \ bad) :
        check' = [check EXCEPT !.phase = "done", !.raised = bad # {},
                               !.matched = IF bad = {} THEN hits(tried) ELSE {}]
  BY DEF MatchRules
<1>2. PICK m \in {hits(sigmaRules), {}} :
        /\ check' = [check EXCEPT !.phase = "done", !.raised = bad # {}, !.matched = m]
        /\ bad = {} => m = hits(sigmaRules)
  BY <1>1
<1>3. m \subseteq DOMAIN RuleIn
  BY <1>2 DEF SigmaTypes
<1>4. /\ check'.phase = "done" /\ check'.raised = (bad # {}) /\ check'.matched = m
      /\ check'.event = check.event /\ check'.began = check.began
  BY <1>2 DEF SigmaTypes
<1>5. SigmaTypes'
  BY <1>0, <1>2, <1>3 DEF SigmaTypes
<1>6. Tried'
  BY <1>0, <1>2, <1>4 DEF Tried
<1> QED
  BY <1>0, <1>4, <1>5, <1>6 DEF Times, NoDirectory, LoadedOnes, Reloading, UpToDate, Loadable

LEMMA ReportKeeps == SigmaInv /\ Report => SigmaInv'
<1> SUFFICES ASSUME SigmaInv, Report PROVE SigmaInv'
  OBVIOUS
<1> USE DEF SigmaInv
<1>0. UNCHANGED <<clock, dir, disk, sigmaRules, loadedAt>> /\ check' = NoCheck /\ check'.phase = "none" /\ check'.began = 0
  BY DEF Report, NoCheck
<1>1. SigmaTypes'
  BY <1>0 DEF SigmaTypes, NoCheck
<1> QED
  BY <1>0, <1>1 DEF Times, NoDirectory, LoadedOnes, Reloading, UpToDate, Tried, Loadable

LEMMA SigmaSteps == SigmaInv /\ [SigmaNext]_sigmaVars => SigmaInv'
<1> SUFFICES ASSUME SigmaInv, [SigmaNext]_sigmaVars PROVE SigmaInv'
  OBVIOUS
<1>1. CASE UNCHANGED sigmaVars
  BY <1>1 DEF sigmaVars, SigmaInv, Times, SigmaTypes, NoDirectory, LoadedOnes, Reloading, UpToDate, Tried,
              Loadable
<1>2. ASSUME NEW p \in Paths, NEW c \in Contents, EditFile(p, c) PROVE SigmaInv'
  BY <1>2, EditFileKeeps
<1>3. ASSUME NEW p \in Paths, RemoveFile(p) PROVE SigmaInv'
  BY <1>3, RemoveFileKeeps
<1>4. ASSUME NEW p \in Paths, ReadFile(p) PROVE SigmaInv'
  BY <1>4, ReadFileKeeps
<1>5. ASSUME NEW e \in DOMAIN Events, StartCheck(e) PROVE SigmaInv'
  BY <1>5, StartCheckKeeps
<1> QED
  BY <1>1, <1>2, <1>3, <1>4, <1>5, SecondKeeps, RemoveDirectoryKeeps, EndReloadKeeps,
     MatchRulesKeeps, ReportKeeps DEF SigmaNext

LEMMA SigmaInvIsSound == SigmaInv => SigmaSound
<1> SUFFICES ASSUME SigmaInv PROVE SigmaSound
  OBVIOUS
<1>1. SigmaTypeOK
  BY DEF SigmaInv, Times, SigmaTypes, SigmaTypeOK
<1>2. RecentRulesApply
  BY DEF SigmaInv, LoadedOnes, UpToDate, Tried, Loadable, RecentRulesApply
<1> QED
  BY <1>1, <1>2 DEF SigmaSound

(* However files are edited, removed and reloaded, a check that returns    *)
(* has tried every rule that had been on disk for longer than the reload   *)
(* interval and the duration of a reload when it began (check_event,       *)
(* _reload), for any rules, events, interval and duration.                 *)
THEOREM SigmaIsAlwaysSound == SigmaSpec => []SigmaSound
<1>1. SigmaSpec => []SigmaInv
  BY SigmaStarts, SigmaSteps, PTL DEF SigmaSpec
<1> QED
  BY <1>1, SigmaInvIsSound, PTL

-----------------------------------------------------------------------------
(* YaraEngine.  What is compiled has the built-in rules in it, and what    *)
(* is active, or was when a scan began, compiled.                          *)
HasBuiltin(sources) ==
  /\ "builtin" \in DOMAIN sources
  /\ "builtin" \notin Range(NamespaceOf) => sources["builtin"] = Builtin

YaraTypes ==
  /\ yfiles = [f \in DOMAIN yfiles |-> yfiles[f]] /\ DOMAIN yfiles \subseteq YaraFiles
  /\ engine \in BOOLEAN /\ running \in BOOLEAN
  /\ reload = [phase |-> reload.phase, todo |-> reload.todo, sources |-> reload.sources]
  /\ reload.todo \subseteq YaraFiles
  /\ scan = [s \in Scanners |->
               [phase |-> scan[s].phase, kind |-> scan[s].kind, data |-> scan[s].data,
                rules |-> scan[s].rules, result |-> scan[s].result]]

Compiling == reload.phase = "reading" => HasBuiltin(reload.sources)

EngineIsWhole ==
  /\ engine => Compiles(active) /\ HasBuiltin(active)
  /\ ~engine => active = <<>> /\ ~running

ScansAreWhole ==
  \A s \in Scanners : scan[s].phase = "matching" =>
    Compiles(scan[s].rules) /\ HasBuiltin(scan[s].rules)

YaraInv == YaraTypes /\ Compiling /\ EngineIsWhole /\ ScansAreWhole

LEMMA YaraStarts == YaraInit => YaraInv
<1> SUFFICES ASSUME YaraInit PROVE YaraInv
  OBVIOUS
<1>1. PICK F \in SUBSET YaraFiles : yfiles \in [F -> Texts]
  BY DEF YaraInit
<1>2. yfiles = [f \in DOMAIN yfiles |-> yfiles[f]] /\ DOMAIN yfiles \subseteq YaraFiles
  BY <1>1
<1>3. reload.phase = "none" /\ reload.todo = {}
  BY DEF YaraInit, NoReload
<1>4. \A s \in Scanners : scan[s] = NoScan /\ scan[s].phase = "none"
  BY DEF YaraInit, NoScan
<1>5. YaraTypes
  BY <1>2, <1>3 DEF YaraTypes, YaraInit, NoReload, NoScan
<1> QED
  BY <1>3, <1>4, <1>5 DEF YaraInv, Compiling, EngineIsWhole, ScansAreWhole, YaraInit

LEMMA FilesOfRulesChange ==
  ASSUME YaraInv, yfiles' = [f \in DOMAIN yfiles' |-> yfiles'[f]], DOMAIN yfiles' \subseteq YaraFiles,
         UNCHANGED <<engine, active, running, reload, scan>>
  PROVE  YaraInv'
BY DEF YaraInv, YaraTypes, Compiling, EngineIsWhole, ScansAreWhole

LEMMA WriteFileKeeps ==
  ASSUME YaraInv, NEW f \in YaraFiles, NEW text \in Texts, WriteFile(f, text)
  PROVE  YaraInv'
<1>1. yfiles' = [g \in DOMAIN yfiles \cup {f} |-> IF g = f THEN text ELSE yfiles[g]]
  BY DEF WriteFile
<1>2. DOMAIN yfiles' \subseteq YaraFiles
  BY <1>1 DEF YaraInv, YaraTypes
<1> QED
  BY <1>1, <1>2, FilesOfRulesChange DEF WriteFile

LEMMA DeleteFileKeeps ==
  ASSUME YaraInv, NEW f \in YaraFiles, DeleteFile(f)
  PROVE  YaraInv'
<1>1. yfiles' = [g \in DOMAIN yfiles \ {f} |-> yfiles[g]]
  BY DEF DeleteFile, Restrict
<1>2. DOMAIN yfiles' \subseteq YaraFiles
  BY <1>1 DEF YaraInv, YaraTypes
<1> QED
  BY <1>1, <1>2, FilesOfRulesChange DEF DeleteFile

LEMMA BeginKeeps ==
  ASSUME YaraInv, reload' = BeginScan, UNCHANGED <<yfiles, engine, active, running, scan>>
  PROVE  YaraInv'
<1> USE DEF YaraInv
<1>1. /\ reload' = [phase |-> "reading", todo |-> DOMAIN yfiles, sources |-> reload'.sources]
      /\ HasBuiltin(reload'.sources)
  BY DEF BeginScan, HasBuiltin
<1>2. YaraTypes'
  BY <1>1 DEF YaraTypes
<1> QED
  BY <1>1, <1>2 DEF Compiling, EngineIsWhole, ScansAreWhole

LEMMA ReadRulesKeeps ==
  ASSUME YaraInv, NEW f \in YaraFiles, ReadRules(f)
  PROVE  YaraInv'
<1> USE DEF YaraInv
<1>0. UNCHANGED <<yfiles, engine, active, running, scan>> /\ reload.phase = "reading"
  BY DEF ReadRules
<1>1. HasBuiltin(reload.sources)
  BY <1>0 DEF Compiling
<1>2. \E S : /\ reload' = [phase |-> reload.phase, todo |-> reload.todo \ {f}, sources |-> S]
             /\ HasBuiltin(S)
  <2>1. CASE f \in DOMAIN yfiles
    <3> DEFINE S == [n \in DOMAIN reload.sources \cup {NamespaceOf[f]} |->
                      IF n = NamespaceOf[f] THEN yfiles[f] ELSE reload.sources[n]]
    <3>1. reload' = [reload EXCEPT !.todo = @ \ {f}, !.sources = S]
      BY <2>1 DEF ReadRules
    <3> HIDE DEF S
    <3>2. reload' = [phase |-> reload.phase, todo |-> reload.todo \ {f}, sources |-> S]
      BY <3>1 DEF YaraTypes
    <3>3. "builtin" \notin Range(NamespaceOf) => "builtin" # NamespaceOf[f]
      BY YaraAssumption DEF Range
    <3>4. HasBuiltin(S)
      BY <1>1, <3>3 DEF HasBuiltin, S
    <3> QED
      BY <3>2, <3>4
  <2>2. CASE f \notin DOMAIN yfiles
    <3>1. reload' = [reload EXCEPT !.todo = @ \ {f}]
      BY <2>2 DEF ReadRules
    <3>2. reload' = [phase |-> reload.phase, todo |-> reload.todo \ {f}, sources |-> reload.sources]
      BY <3>1 DEF YaraTypes
    <3> QED
      BY <1>1, <3>2
  <2> QED
    BY <2>1, <2>2
<1>3. PICK S : /\ reload' = [phase |-> reload.phase, todo |-> reload.todo \ {f}, sources |-> S]
               /\ HasBuiltin(S)
  BY <1>2
<1>4. YaraTypes'
  BY <1>0, <1>3 DEF YaraTypes
<1> QED
  BY <1>0, <1>3, <1>4 DEF Compiling, EngineIsWhole, ScansAreWhole

LEMMA CompileKeeps == YaraInv /\ Compile => YaraInv'
<1> SUFFICES ASSUME YaraInv, Compile PROVE YaraInv'
  OBVIOUS
<1> USE DEF YaraInv
<1>1. /\ UNCHANGED <<yfiles, scan>> /\ reload.phase = "reading" /\ reload' = NoReload
      /\ reload'.phase = "none"
  BY DEF Compile, NoReload
<1>2. HasBuiltin(reload.sources)
  BY <1>1 DEF Compiling
<1>3. EngineIsWhole' /\ engine' \in BOOLEAN /\ running' \in BOOLEAN
  <2>1. CASE Accepts(reload.sources)
    BY <1>2, <2>1 DEF Compile, Accepts, EngineIsWhole, YaraTypes
  <2>2. CASE ~Accepts(reload.sources)
    BY <2>2 DEF Compile, EngineIsWhole, YaraTypes
  <2> QED
    BY <2>1, <2>2
<1>4. YaraTypes'
  BY <1>1, <1>3 DEF YaraTypes, NoReload
<1> QED
  BY <1>1, <1>3, <1>4 DEF Compiling, ScansAreWhole

(* A scan starts with the active rules, ends, or is reported.              *)
LEMMA ScanKeeps ==
  ASSUME YaraInv, NEW s \in Scanners, NEW sc, scan' = [scan EXCEPT ![s] = sc],
         sc = [phase |-> sc.phase, kind |-> sc.kind, data |-> sc.data, rules |-> sc.rules,
               result |-> sc.result],
         sc.phase = "matching" => Compiles(sc.rules) /\ HasBuiltin(sc.rules),
         UNCHANGED <<yfiles, engine, active, running, reload>>
  PROVE  YaraInv'
<1> USE DEF YaraInv
<1>1. \A t \in Scanners : scan'[t] = IF t = s THEN sc ELSE scan[t]
  BY DEF YaraTypes
<1>2. YaraTypes'
  <2>1. scan' = [t \in Scanners |-> scan'[t]]
    BY DEF YaraTypes
  <2>2. \A t \in Scanners : scan'[t] =
           [phase |-> scan'[t].phase, kind |-> scan'[t].kind, data |-> scan'[t].data,
            rules |-> scan'[t].rules, result |-> scan'[t].result]
    BY <1>1 DEF YaraTypes
  <2> QED
    BY <2>1, <2>2 DEF YaraTypes
<1>3. ScansAreWhole'
  BY <1>1 DEF ScansAreWhole
<1> QED
  BY <1>2, <1>3 DEF Compiling, EngineIsWhole

LEMMA StartScanKeeps ==
  ASSUME YaraInv, NEW s \in Scanners, NEW kind, NEW data, StartScan(s, kind, data)
  PROVE  YaraInv'
<1> DEFINE sc == [phase |-> IF data = {} THEN "done" ELSE "matching", kind |-> kind, data |-> data,
                  rules |-> active, result |-> "none"]
<1>1. scan' = [scan EXCEPT ![s] = sc] /\ engine
  BY DEF StartScan
<1>2. Compiles(sc.rules) /\ HasBuiltin(sc.rules)
  BY <1>1 DEF YaraInv, EngineIsWhole
<1> QED
  BY <1>1, <1>2, ScanKeeps DEF StartScan

LEMMA EndScanKeeps ==
  ASSUME YaraInv, NEW s \in Scanners, EndScan(s)
  PROVE  YaraInv'
<1>1. PICK result : scan' = [scan EXCEPT ![s].phase = "done", ![s].result = result]
  BY DEF EndScan
<1> DEFINE sc == [phase |-> "done", kind |-> scan[s].kind, data |-> scan[s].data,
                  rules |-> scan[s].rules, result |-> result]
<1>2. scan[s] = [phase |-> scan[s].phase, kind |-> scan[s].kind, data |-> scan[s].data,
                 rules |-> scan[s].rules, result |-> scan[s].result]
  BY DEF YaraInv, YaraTypes
<1>3. [[scan[s] EXCEPT !.phase = "done"] EXCEPT !.result = result] = sc
  <2>1. ASSUME NEW r, r = [phase |-> r.phase, kind |-> r.kind, data |-> r.data, rules |-> r.rules,
                           result |-> r.result], NEW x
        PROVE  /\ [r EXCEPT !.phase = x] = [phase |-> x, kind |-> r.kind, data |-> r.data,
                                            rules |-> r.rules, result |-> r.result]
               /\ [r EXCEPT !.result = x] = [phase |-> r.phase, kind |-> r.kind, data |-> r.data,
                                             rules |-> r.rules, result |-> x]
    BY <2>1
  <2> DEFINE ended == [scan[s] EXCEPT !.phase = "done"]
  <2>2. ended = [phase |-> "done", kind |-> scan[s].kind, data |-> scan[s].data,
                 rules |-> scan[s].rules, result |-> scan[s].result]
    BY <1>2, <2>1
  <2> HIDE DEF ended
  <2>3. [ended EXCEPT !.result = result] =
           [phase |-> ended.phase, kind |-> ended.kind, data |-> ended.data, rules |-> ended.rules,
            result |-> result]
    BY <2>1, <2>2
  <2>4. [ended EXCEPT !.result = result] = sc
    BY <2>2, <2>3
  <2> QED
    BY <2>4 DEF ended
<1>4. scan' = [scan EXCEPT ![s] = sc]
  BY <1>1, <1>3 DEF YaraInv, YaraTypes
<1>5. sc.phase # "matching"
  OBVIOUS
<1> QED
  BY <1>4, <1>5, ScanKeeps DEF EndScan

LEMMA ScanSentKeeps ==
  ASSUME YaraInv, NEW s \in Scanners, ScanSent(s)
  PROVE  YaraInv'
<1>1. /\ NoScan = [phase |-> NoScan.phase, kind |-> NoScan.kind, data |-> NoScan.data,
                   rules |-> NoScan.rules, result |-> NoScan.result]
      /\ NoScan.phase # "matching"
  BY DEF NoScan
<1>2. scan' = [scan EXCEPT ![s] = NoScan]
  BY DEF ScanSent
<1> QED
  BY <1>1, <1>2, ScanKeeps DEF ScanSent

LEMMA YaraSteps == YaraInv /\ [YaraNext]_yaraVars => YaraInv'
<1> SUFFICES ASSUME YaraInv, [YaraNext]_yaraVars PROVE YaraInv'
  OBVIOUS
<1>1. CASE UNCHANGED yaraVars
  BY <1>1 DEF yaraVars, YaraInv, YaraTypes, Compiling, EngineIsWhole, ScansAreWhole
<1>2. ASSUME NEW f \in YaraFiles, NEW text \in Texts, WriteFile(f, text) PROVE YaraInv'
  BY <1>2, WriteFileKeeps
<1>3. ASSUME NEW f \in YaraFiles, DeleteFile(f) PROVE YaraInv'
  BY <1>3, DeleteFileKeeps
<1>4. ASSUME NEW f \in YaraFiles, ReadRules(f) PROVE YaraInv'
  BY <1>4, ReadRulesKeeps
<1>5. CASE GetEngine \/ AutoReload
  BY <1>5, BeginKeeps DEF GetEngine, AutoReload
<1>6. CASE StopReload
  BY <1>6 DEF StopReload, YaraInv, YaraTypes, Compiling, EngineIsWhole, ScansAreWhole
<1>7. ASSUME NEW s \in Scanners, NEW kind \in {"bytes", "dns"}, NEW data \in Payloads,
             StartScan(s, kind, data)
      PROVE  YaraInv'
  BY <1>7, StartScanKeeps
<1>8. ASSUME NEW s \in Scanners, EndScan(s) \/ ScanSent(s) PROVE YaraInv'
  BY <1>8, EndScanKeeps, ScanSentKeeps
<1> QED
  BY <1>1, <1>2, <1>3, <1>4, <1>5, <1>6, <1>7, <1>8, CompileKeeps DEF YaraNext

LEMMA YaraInvIsSound == YaraInv => YaraSound
BY DEF YaraInv, YaraTypes, EngineIsWhole, ScansAreWhole, HasBuiltin, YaraSound, YaraTypeOK,
       ScansUseWholeRules

(* Whatever the rule files are turned into, an engine has rules that       *)
(* compile, the built-in ones among them, and a scan uses one compilation  *)
(* to its end (_compile_rules, scan_bytes), for any files, rules, scanners *)
(* and payloads.                                                           *)
THEOREM YaraIsAlwaysSound == YaraSpec => []YaraSound
<1>1. YaraSpec => []YaraInv
  BY YaraStarts, YaraSteps, PTL DEF YaraSpec
<1> QED
  BY <1>1, YaraInvIsSound, PTL

-----------------------------------------------------------------------------
(* FeedManager.  What the feeds list is finite; what was listed is among   *)
(* the integrated entries or in an update that is not over.                *)
Iocs ==
  UNION {UNION {{[indicator |-> x.indicator, type |-> x.type, source |-> l] : x \in Entries(l, given)} :
                  given \in Lists(l)} : l \in Usable}

Indicators(s) == {x.indicator : x \in ToSet(s)}

FeedTypes ==
  /\ due \subseteq Loaders
  /\ update \in [Updates -> [active : BOOLEAN, running : SUBSET Loaders, iocs : Seq(Iocs)]]
  /\ \A u \in Updates : ~update[u].active => update[u].running = {} /\ update[u].iocs = <<>>
  /\ allIocs \in Seq(Iocs)

Integrated ==
  /\ ipSet = Typed(allIocs, "ip") /\ cidrs = Networks(allIocs)
  /\ feedStats.total = Len(allIocs)
  /\ feedStats.ips = Cardinality(ipSet) /\ feedStats.nets = Cardinality(cidrs)
  /\ \A l \in Loaders : feedStats.sources[l] = EntriesOf(allIocs, l)

NothingMissing ==
  \A i \in listedIocs :
    i \in Indicators(allIocs) \/ \E u \in Updates : i \in Indicators(update[u].iocs)

FeedsInv == FeedTypes /\ Integrated /\ NothingMissing

LEMMA EntriesTyped ==
  ASSUME NEW l \in Loaders, NEW given \in Lists(l)
  PROVE  /\ IsFiniteSet(Entries(l, given))
         /\ \A x \in Entries(l, given) : x.type \in {"ip", "cidr"}
<1>1. ASSUME NEW type, NEW part \in SUBSET given
      PROVE  IsFiniteSet(As(type, part)) /\ \A x \in As(type, part) : x.type = type
  <2> DEFINE made == [x \in part |-> [indicator |-> x.value, type |-> type]]
  <2>1. IsFiniteSet(part)
    BY FeedAssumption, FS_Subset
  <2>2. made \in Surjection(part, As(type, part))
    BY DEF Surjection, As
  <2>3. IsFiniteSet(As(type, part))
    BY <2>1, <2>2, FS_Surjection
  <2> QED
    BY <2>3 DEF As
<1>2. \A kinds : OfKinds(given, kinds) \subseteq given
  BY DEF OfKinds
<1>3. l \in {"feodo_tracker", "spamhaus_drop", "emerging_threats", "otx", "misp"}
  BY FeedAssumption
<1>4. \/ Entries(l, given) = As("ip", given)
      \/ Entries(l, given) = As("cidr", OfKinds(given, {"ipv4", "ipv6", "network"}))
      \/ Entries(l, given) = As("ip", OfKinds(given, {"ipv4", "ipv6"}))
      \/ Entries(l, given) = As("ip", OfKinds(given, {"ipv4"})) \cup
                           As("cidr", OfKinds(given, {"ipv6", "network"}))
  BY <1>3 DEF Entries, FeodoEntries, SpamhausEntries, EmergingThreatsEntries, OtxEntries, MispEntries
<1>5. CASE Entries(l, given) = As("ip", OfKinds(given, {"ipv4"})) \cup
                             As("cidr", OfKinds(given, {"ipv6", "network"}))
  <2> DEFINE one == As("ip", OfKinds(given, {"ipv4"}))
             two == As("cidr", OfKinds(given, {"ipv6", "network"}))
  <2>1. IsFiniteSet(one) /\ \A x \in one : x.type = "ip"
    BY <1>1, <1>2
  <2>2. IsFiniteSet(two) /\ \A x \in two : x.type = "cidr"
    BY <1>1, <1>2
  <2> HIDE DEF one, two
  <2>3. IsFiniteSet(one \cup two)
    BY <2>1, <2>2, FS_Union
  <2>4. \A x \in one \cup two : x.type \in {"ip", "cidr"}
    BY <2>1, <2>2
  <2> QED
    BY <1>5, <2>3, <2>4 DEF one, two
<1>6. CASE \/ Entries(l, given) = As("ip", given)
           \/ Entries(l, given) = As("cidr", OfKinds(given, {"ipv4", "ipv6", "network"}))
           \/ Entries(l, given) = As("ip", OfKinds(given, {"ipv4", "ipv6"}))
  BY <1>1, <1>2, <1>6
<1> QED
  BY <1>4, <1>5, <1>6

LEMMA IocsTyped ==
  ASSUME NEW x \in Iocs
  PROVE  x.source \in Usable /\ x.type \in {"ip", "cidr"}
<1>1. PICK l \in Usable : \E given \in Lists(l) : \E y \in Entries(l, given) :
        x = [indicator |-> y.indicator, type |-> y.type, source |-> l]
  BY DEF Iocs
<1>3. PICK given \in Lists(l) : \E y \in Entries(l, given) :
        x = [indicator |-> y.indicator, type |-> y.type, source |-> l]
  BY <1>1
<1>4. PICK y \in Entries(l, given) : x = [indicator |-> y.indicator, type |-> y.type, source |-> l]
  BY <1>3
<1>2. y.type \in {"ip", "cidr"}
  BY EntriesTyped, FeedAssumption
<1> QED
  BY <1>2, <1>4

(* What a load returns, in some order.                                     *)
LEMMA LoadedEntries ==
  ASSUME NEW l \in Usable, NEW given \in Lists(l)
  PROVE  LET returned == {[indicator |-> x.indicator, type |-> x.type, source |-> l] :
                            x \in Entries(l, given)}
         IN  /\ SetToSeq(returned) \in Seq(Iocs)
             /\ Indicators(SetToSeq(returned)) = {x.indicator : x \in Entries(l, given)}
<1> DEFINE returned == {[indicator |-> x.indicator, type |-> x.type, source |-> l] :
                          x \in Entries(l, given)}
           made == [x \in Entries(l, given) |->
                     [indicator |-> x.indicator, type |-> x.type, source |-> l]]
<1>1. IsFiniteSet(Entries(l, given))
  BY EntriesTyped, FeedAssumption
<1>2. made \in Surjection(Entries(l, given), returned)
  BY DEF Surjection
<1>3. IsFiniteSet(returned)
  BY <1>1, <1>2, FS_Surjection
<1>4. returned \subseteq Iocs
  BY DEF Iocs
<1>5. {x.indicator : x \in returned} = {x.indicator : x \in Entries(l, given)}
  <2>1. ASSUME NEW x \in returned
        PROVE  x.indicator \in {z.indicator : z \in Entries(l, given)}
    <3>1. PICK y \in Entries(l, given) : x = [indicator |-> y.indicator, type |-> y.type, source |-> l]
      BY <2>1
    <3>2. x.indicator = y.indicator
      BY <3>1
    <3> QED
      BY <3>2
  <2>2. ASSUME NEW y \in Entries(l, given)
        PROVE  \E x \in returned : y.indicator = x.indicator
    <3> WITNESS [indicator |-> y.indicator, type |-> y.type, source |-> l] \in returned
    <3> QED
      OBVIOUS
  <2> HIDE DEF returned
  <2> QED
    BY <2>1, <2>2
<1> HIDE DEF returned
<1>6. SetToSeq(returned) \in Seq(returned) /\ ToSet(SetToSeq(returned)) = returned
  BY <1>3, ElementsOfListing
<1>7. SetToSeq(returned) \in Seq(Iocs)
  BY <1>4, <1>6, WiderSeq
<1> QED
  BY <1>5, <1>6, <1>7 DEF Indicators, returned

LEMMA FeedsStart == FeedMgrInit => FeedsInv
<1> SUFFICES ASSUME FeedMgrInit PROVE FeedsInv
  OBVIOUS
<1>1. <<>> \in Seq(Iocs) /\ Len(<<>>) = 0 /\ DOMAIN <<>> = {}
  BY EmptySeq
<1>2. FeedTypes
  BY <1>1 DEF FeedMgrInit, FeedTypes, UpdateIdle
<1>3. \A type : Typed(<<>>, type) = {}
  BY EmptyHasNone DEF Typed
<1>4. Cardinality({}) = 0
  BY FS_EmptySet
<1>5. \A l : EntriesOf(<<>>, l) = 0
  BY <1>1, <1>4 DEF EntriesOf
<1>6. Integrated
  BY <1>1, <1>3, <1>4, <1>5 DEF FeedMgrInit, Integrated, Networks
<1> QED
  BY <1>2, <1>6 DEF FeedsInv, NothingMissing, FeedMgrInit

LEMMA BeginUpdateKeeps ==
  ASSUME FeedsInv, NEW u \in Updates, BeginUpdate(u)
  PROVE  FeedsInv'
<1> USE DEF FeedsInv
<1>1. /\ update' = [update EXCEPT ![u] = [active |-> TRUE, running |-> due, iocs |-> <<>>]]
      /\ UNCHANGED <<due, ipSet, cidrs, allIocs, feedStats, listedIocs>>
  BY DEF BeginUpdate
<1>2. <<>> \in Seq(Iocs) /\ update[u].iocs = <<>>
  BY EmptySeq DEF BeginUpdate, FeedTypes
<1>3. FeedTypes'
  BY <1>1, <1>2 DEF FeedTypes
<1>4. \A v \in Updates : update'[v].iocs = update[v].iocs
  BY <1>1, <1>2 DEF FeedTypes
<1>5. NothingMissing'
  BY <1>1, <1>4 DEF NothingMissing
<1> QED
  BY <1>1, <1>3, <1>5 DEF Integrated

LEMMA LoadFailsKeeps ==
  ASSUME FeedsInv, NEW u \in Updates, NEW l \in Loaders, LoadFails(u, l)
  PROVE  FeedsInv'
<1> USE DEF FeedsInv
<1>1. /\ update' = [update EXCEPT ![u].running = @ \ {l}]
      /\ UNCHANGED <<due, ipSet, cidrs, allIocs, feedStats, listedIocs>>
  BY DEF LoadFails
<1>2. FeedTypes'
  BY <1>1 DEF FeedTypes
<1>3. \A v \in Updates : update'[v].iocs = update[v].iocs
  BY <1>1 DEF FeedTypes
<1>4. NothingMissing'
  BY <1>1, <1>3 DEF NothingMissing
<1> QED
  BY <1>1, <1>2, <1>4 DEF Integrated

LEMMA LoadReturnsKeeps ==
  ASSUME FeedsInv, NEW u \in Updates, NEW l \in Loaders, NEW given \in Lists(l), LoadReturns(u, l, given)
  PROVE  FeedsInv'
<1> USE DEF FeedsInv
<1> DEFINE new == SetToSeq({[indicator |-> x.indicator, type |-> x.type, source |-> l] :
                              x \in Entries(l, given)})
<1>1. /\ update' = [update EXCEPT ![u].running = @ \ {l}, ![u].iocs = @ \o new]
      /\ l \in Usable /\ l \in update[u].running
      /\ due' = due \ {l}
      /\ listedIocs' = listedIocs \cup {x.indicator : x \in Entries(l, given)}
      /\ UNCHANGED <<ipSet, cidrs, allIocs, feedStats>>
  BY DEF LoadReturns
<1>2. new \in Seq(Iocs) /\ Indicators(new) = {x.indicator : x \in Entries(l, given)}
  BY <1>1, LoadedEntries
<1> HIDE DEF new
<1>3. update[u].iocs \in Seq(Iocs) /\ update[u].active
  BY <1>1 DEF FeedTypes
<1>4. update[u].iocs \o new \in Seq(Iocs)
  BY <1>2, <1>3, ConcatProperties
<1>5. Indicators(update[u].iocs \o new) = Indicators(update[u].iocs) \cup Indicators(new)
  BY <1>2, <1>3, ElementsOfConcat DEF Indicators
<1>6. FeedTypes'
  BY <1>1, <1>3, <1>4 DEF FeedTypes
<1>7. \A v \in Updates :
        update'[v].iocs = IF v = u THEN update[u].iocs \o new ELSE update[v].iocs
  BY <1>1 DEF FeedTypes
<1>8. NothingMissing'
  BY <1>1, <1>2, <1>5, <1>7 DEF NothingMissing
<1> QED
  BY <1>1, <1>6, <1>8 DEF Integrated

LEMMA IntegrateKeeps ==
  ASSUME FeedsInv, NEW u \in Updates, Integrate(u)
  PROVE  FeedsInv'
<1> USE DEF FeedsInv
<1> DEFINE new == update[u].iocs
           all == allIocs \o new
<1>1. /\ update' = [update EXCEPT ![u] = UpdateIdle]
      /\ UNCHANGED <<due, listedIocs>>
  BY DEF Integrate
<1>2. new \in Seq(Iocs) /\ allIocs \in Seq(Iocs)
  BY DEF FeedTypes
<1>3. all \in Seq(Iocs)
  BY <1>2, ConcatProperties
<1>4. ToSet(all) = ToSet(allIocs) \cup ToSet(new)
  BY <1>2, ElementsOfConcat
<1>5. allIocs' \in Seq(Iocs) /\ Integrated' /\ Indicators(allIocs') = Indicators(all)
  <2>1. CASE new = <<>>
    <3>1. UNCHANGED <<ipSet, cidrs, allIocs, feedStats>>
      BY <2>1 DEF Integrate
    <3>2. ToSet(all) = ToSet(allIocs)
      BY <1>4, <2>1, EmptyHasNone
    <3> QED
      BY <1>2, <3>1, <3>2 DEF Integrated, Indicators
  <2>2. CASE new # <<>>
    <3>1. /\ ipSet' = ipSet \cup Typed(new, "ip") /\ cidrs' = cidrs \cup Networks(new)
          /\ allIocs' = all
          /\ feedStats' = [total |-> Len(all), ips |-> Cardinality(ipSet'),
                           nets |-> Cardinality(cidrs'),
                           sources |-> [l \in Loaders |-> EntriesOf(all, l)]]
      BY <2>2 DEF Integrate, Extended
    <3> HIDE DEF new, all
    <3>2. \A type : Typed(all, type) = Typed(allIocs, type) \cup Typed(new, type)
      BY <1>4 DEF Typed
    <3>3. ipSet' = Typed(all, "ip")
      BY <3>1, <3>2 DEF Integrated
    <3>4. cidrs' = Networks(all)
      BY <3>1, <3>2 DEF Integrated, Networks
    <3>5. Integrated'
      BY <3>1, <3>3, <3>4 DEF Integrated
    <3> QED
      BY <1>3, <3>1, <3>5
  <2> QED
    BY <2>1, <2>2
<1>6. FeedTypes'
  BY <1>1, <1>5, EmptySeq DEF FeedTypes, UpdateIdle
<1>7. NothingMissing'
  <2>1. \A v \in Updates \ {u} : update'[v] = update[v]
    BY <1>1 DEF FeedTypes
  <2>2. Indicators(allIocs') = Indicators(allIocs) \cup Indicators(new)
    BY <1>4, <1>5 DEF Indicators
  <2> QED
    BY <1>1, <2>1, <2>2 DEF NothingMissing
<1> QED
  BY <1>5, <1>6, <1>7

LEMMA FeedsSteps == FeedsInv /\ [FeedMgrNext]_feedMgrVars => FeedsInv'
<1> SUFFICES ASSUME FeedsInv, [FeedMgrNext]_feedMgrVars PROVE FeedsInv'
  OBVIOUS
<1>1. CASE UNCHANGED feedMgrVars
  BY <1>1 DEF feedMgrVars, FeedsInv, FeedTypes, Integrated, NothingMissing
<1>2. ASSUME NEW l \in Loaders, BecomesDue(l) PROVE FeedsInv'
  BY <1>2 DEF BecomesDue, FeedsInv, FeedTypes, Integrated, NothingMissing
<1>3. ASSUME NEW u \in Updates, BeginUpdate(u) \/ Integrate(u) PROVE FeedsInv'
  BY <1>3, BeginUpdateKeeps, IntegrateKeeps
<1>4. ASSUME NEW u \in Updates, NEW l \in Loaders, LoadFails(u, l) PROVE FeedsInv'
  BY <1>4, LoadFailsKeeps
<1>5. ASSUME NEW u \in Updates, NEW l \in Loaders, NEW given \in Lists(l), LoadReturns(u, l, given)
      PROVE  FeedsInv'
  BY <1>5, LoadReturnsKeeps
<1> QED
  BY <1>1, <1>2, <1>3, <1>4, <1>5 DEF FeedMgrNext

LEMMA FeedsInvIsSound == FeedsInv => FeedsSound
<1> SUFFICES ASSUME FeedsInv PROVE FeedsSound
  OBVIOUS
<1> USE DEF FeedsInv
<1>0. ToSet(allIocs) = {allIocs[k] : k \in 1..Len(allIocs)} /\ ToSet(allIocs) \subseteq Iocs
  BY ElementsOf DEF FeedTypes
<1>1. FeedMgrTypeOK
  BY <1>0, IocsTyped DEF FeedTypes, FeedMgrTypeOK
<1>2. ASSUME NEW a \in Addresses, a \in ipSet
      PROVE  IocInfo(a) # {}
  <2>1. PICK x \in ToSet(allIocs) : x.indicator = a
    BY <1>2 DEF Integrated, Typed
  <2>2. PICK k \in 1..Len(allIocs) : allIocs[k].indicator = a
    BY <1>0, <2>1
  <2> QED
    BY <2>2 DEF IocInfo
<1>3. ASSUME NEW a \in Addresses, \A u \in Updates : ~update[u].active, a \in listedIocs
      PROVE  IsBlocked(a)
  <2>1. \A u \in Updates : Indicators(update[u].iocs) = {}
    BY <1>3, EmptyHasNone DEF FeedTypes, Indicators
  <2>2. PICK x \in ToSet(allIocs) : x.indicator = a
    BY <1>3, <2>1 DEF NothingMissing, Indicators
  <2>3. x.type \in {"ip", "cidr"}
    BY <1>0, IocsTyped
  <2>4. CASE x.type = "ip"
    BY <2>2, <2>4 DEF Integrated, Typed, IsBlocked
  <2>5. CASE x.type = "cidr"
    <3>1. <<a, a>> \in Covers
      BY FeedAssumption
    <3>2. a \in Typed(allIocs, "cidr")
      BY <2>2, <2>5 DEF Typed
    <3>3. a \in {c[2] : c \in Covers}
      BY <3>1
    <3> QED
      BY <3>1, <3>2, <3>3 DEF Integrated, Networks, IsBlocked
  <2> QED
    BY <2>3, <2>4, <2>5
<1>4. BlocklistBacked
  BY <1>2, <1>3 DEF Integrated, BlocklistBacked
<1> QED
  BY <1>1, <1>4 DEF FeedsSound

(* However updates overlap, feeds fail and lists change, the block lists   *)
(* are exactly the integrated entries, and while no update runs an address *)
(* that a feed has listed is blocked (is_blocked, _integrate_iocs), for    *)
(* any feeds, lists and networks.                                          *)
THEOREM FeedsAreAlwaysSound == FeedMgrSpec => []FeedsSound
<1>1. FeedMgrSpec => []FeedsInv
  BY FeedsStart, FeedsSteps, PTL DEF FeedMgrSpec
<1> QED
  BY <1>1, FeedsInvIsSound, PTL

-----------------------------------------------------------------------------
(* EntityRisk.                                                             *)

(* The powers of two are what their recursion says.                        *)
TwoToBy(f, n) ==
  /\ f \in [0..n -> Nat \ {0}] /\ f[0] = 1
  /\ \A m \in 1..n : f[m] = 2 * f[m - 1]

LEMMA PowersExist ==
  ASSUME NEW n \in Nat
  PROVE  \E f : TwoToBy(f, n)
<1> DEFINE G == {k \in Nat : \E f : TwoToBy(f, k)}
<1>1. 0 \in G
  <2>1. TwoToBy([m \in 0..0 |-> 1], 0)
    BY DEF TwoToBy
  <2> QED
    BY <2>1
<1>2. ASSUME NEW k \in Nat, k \in G PROVE k + 1 \in G
  <2>1. PICK f : TwoToBy(f, k)
    BY <1>2
  <2> DEFINE g == [m \in 0..(k + 1) |-> IF m = k + 1 THEN 2 * f[k] ELSE f[m]]
  <2>2. k \in 0..k /\ f[k] \in Nat \ {0} /\ 2 * f[k] \in Nat \ {0}
    BY <2>1 DEF TwoToBy
  <2>3. g \in [0..(k + 1) -> Nat \ {0}] /\ g[0] = 1
    BY <2>1, <2>2 DEF TwoToBy
  <2>4. ASSUME NEW m \in 1..(k + 1) PROVE g[m] = 2 * g[m - 1]
    <3>1. m - 1 \in 0..k /\ m \in 0..(k + 1) /\ m - 1 \in 0..(k + 1) /\ m - 1 # k + 1
      OBVIOUS
    <3>2. g[m - 1] = f[m - 1]
      BY <3>1
    <3>3. CASE m = k + 1
      BY <3>2, <3>3
    <3>4. CASE m # k + 1
      <4>1. m \in 1..k
        BY <3>4
      <4> QED
        BY <2>1, <3>1, <3>2, <3>4, <4>1 DEF TwoToBy
    <3> QED
      BY <3>3, <3>4
  <2>5. TwoToBy(g, k + 1)
    BY <2>3, <2>4 DEF TwoToBy
  <2> QED
    BY <2>5
<1> HIDE DEF G
<1>3. \A k \in Nat : k \in G
  BY <1>1, <1>2, SetOfNaturals
<1> QED
  BY <1>3 DEF G

LEMMA PowersOfTwo ==
  /\ TwoTo \in [0..LastScoreHour -> Nat \ {0}]
  /\ \A n \in 1..LastScoreHour : TwoTo[n] = 2 * TwoTo[n - 1]
<1>0. LastScoreHour \in Nat
  BY RiskAssumption
<1> DEFINE step(h) == [n \in 0..LastScoreHour |-> IF n = 0 THEN 1 ELSE 2 * h[n - 1]]
           h == CHOOSE x : x = step(x)
<1>1. TwoTo = h
  BY DEF TwoTo
<1>2. PICK f : TwoToBy(f, LastScoreHour)
  BY <1>0, PowersExist
<1>3. f = step(f)
  <2>1. f = [n \in 0..LastScoreHour |-> f[n]]
    BY <1>2 DEF TwoToBy
  <2>2. \A n \in 0..LastScoreHour : f[n] = IF n = 0 THEN 1 ELSE 2 * f[n - 1]
    BY <1>0, <1>2 DEF TwoToBy
  <2> QED
    BY <2>1, <2>2
<1> HIDE DEF step
<1>4. h = step(h)
  BY <1>3
<1> HIDE DEF h
<1> DEFINE G == {k \in Nat : k \in 0..LastScoreHour => h[k] = f[k]}
<1>5. h[0] = 1 /\ \A n \in 1..LastScoreHour : h[n] = 2 * h[n - 1]
  <2>1. \A n \in 0..LastScoreHour : h[n] = IF n = 0 THEN 1 ELSE 2 * h[n - 1]
    BY <1>4 DEF step
  <2>2. \A n \in 1..LastScoreHour : n \in 0..LastScoreHour /\ n # 0
    OBVIOUS
  <2>3. 0 \in 0..LastScoreHour
    BY <1>0
  <2> QED
    BY <2>1, <2>2, <2>3
<1>6. 0 \in G
  BY <1>2, <1>5 DEF TwoToBy
<1>7. ASSUME NEW k \in Nat, k \in G PROVE k + 1 \in G
  <2>1. SUFFICES ASSUME k + 1 \in 0..LastScoreHour PROVE h[k + 1] = f[k + 1]
    OBVIOUS
  <2>2. k \in 0..LastScoreHour /\ k + 1 \in 1..LastScoreHour /\ (k + 1) - 1 = k
    BY <1>0, <2>1
  <2>3. h[k] = f[k]
    BY <1>7, <2>2
  <2> QED
    BY <1>2, <1>5, <2>2, <2>3 DEF TwoToBy
<1>8. \A k \in Nat : k \in G
  <2> HIDE DEF G
  <2> QED
    BY <1>6, <1>7, SetOfNaturals
<1>9. \A k \in 0..LastScoreHour : h[k] = f[k]
  BY <1>0, <1>8
<1>10. h = f
  <2>1. h = [n \in 0..LastScoreHour |-> h[n]]
    BY <1>4 DEF step
  <2>2. f = [n \in 0..LastScoreHour |-> f[n]]
    BY <1>2 DEF TwoToBy
  <2> QED
    BY <1>9, <2>1, <2>2
<1> QED
  BY <1>1, <1>2, <1>10 DEF TwoToBy

(* They grow.                                                              *)
LEMMA PowersGrow ==
  ASSUME NEW a \in 0..LastScoreHour, NEW b \in 0..LastScoreHour, a <= b
  PROVE  TwoTo[a] <= TwoTo[b]
<1>0. LastScoreHour \in Nat
  BY RiskAssumption
<1> DEFINE G == {k \in Nat : a + k \in 0..LastScoreHour => TwoTo[a] <= TwoTo[a + k]}
<1>1. 0 \in G
  BY PowersOfTwo
<1>2. ASSUME NEW k \in Nat, k \in G PROVE k + 1 \in G
  <2>1. SUFFICES ASSUME a + (k + 1) \in 0..LastScoreHour PROVE TwoTo[a] <= TwoTo[a + (k + 1)]
    OBVIOUS
  <2> DEFINE c == a + k
             d == a + (k + 1)
  <2>2. c \in 0..LastScoreHour /\ d \in 1..LastScoreHour /\ d - 1 = c
    BY <1>0, <2>1
  <2>3. TwoTo[a] <= TwoTo[c]
    BY <1>2, <2>2
  <2> HIDE DEF c, d
  <2>4. TwoTo[d] = 2 * TwoTo[c] /\ TwoTo[c] \in Nat /\ TwoTo[a] \in Nat
    BY <2>2, PowersOfTwo
  <2>5. TwoTo[a] <= TwoTo[d]
    <3> DEFINE x == TwoTo[a]
               y == TwoTo[c]
               z == TwoTo[d]
    <3>1. x \in Nat /\ y \in Nat /\ z = 2 * y /\ x <= y
      BY <2>3, <2>4
    <3> HIDE DEF x, y, z
    <3>2. x <= z
      BY <3>1
    <3> QED
      BY <3>2 DEF x, z
  <2> QED
    BY <2>5 DEF d
<1>3. \A k \in Nat : k \in G
  <2> HIDE DEF G
  <2> QED
    BY <1>1, <1>2, SetOfNaturals
<1>4. b - a \in Nat /\ a + (b - a) = b
  BY <1>0
<1> QED
  BY <1>3, <1>4

LEMMA HalvedBounded ==
  ASSUME NEW delta \in Int, NEW age \in 0..LastScoreHour, NEW c \in Nat, delta <= c
  PROVE  Halved(delta, age) \in Int /\ Halved(delta, age) <= c
<1> DEFINE u == TwoTo[age]
<1>1. u \in Nat \ {0}
  BY PowersOfTwo
<1> HIDE DEF u
<1>2. CASE delta >= 0
  <2>1. delta \in Nat
    BY <1>2
  <2>2. u * c >= c
    BY <1>1
  <2>3. u * c \in Nat /\ delta <= u * c
    BY <1>1, <2>1, <2>2
  <2>4. delta \div u \in Nat /\ delta \div u <= c
    BY <1>1, <2>1, <2>3, DivBounded
  <2> QED
    BY <1>2, <2>4 DEF Halved, u
<1>3. CASE ~ (delta >= 0)
  <2>1. - delta \in Nat
    BY <1>3
  <2> DEFINE q == (- delta) \div u
  <2>2. q \in Nat
    BY <1>1, <2>1, DivBounded
  <2>3. Halved(delta, age) = - q
    BY <1>3 DEF Halved, u
  <2> HIDE DEF q
  <2>4. - q \in Int /\ - q <= c
    BY <2>2
  <2> QED
    BY <2>3, <2>4
<1> QED
  BY <1>2, <1>3

-----------------------------------------------------------------------------
(* _calculate_score keeps a total per type, and adds up what it keeps.     *)
Event == [at : 0..LastScoreHour, delta : Int, type : {x[1] : x \in RiskEvents}]

Past(h) == \A i \in 1..Len(h) : h[i].at <= hour /\ h[i].delta <= TypeCap

TypesIn(h) == {x.type : x \in Range(h)}

Tallies(T) ==
  {acc \in [types : [T -> Int], total : Int] :
     acc.total = SumOver(acc.types, T) /\ \A t \in T : acc.types[t] <= 2 * TypeCap}

(* What the i-th event of h does to the tally.                             *)
Tallied(h, i, acc) ==
  IF acc.types[h[i].type] < TypeCap
    THEN LET c == Halved(h[i].delta, hour - h[i].at)
         IN  [types |-> [acc.types EXCEPT ![h[i].type] = @ + c], total |-> acc.total + c]
    ELSE acc

LEMMA EmptyTally ==
  ASSUME NEW T, IsFiniteSet(T)
  PROVE  [types |-> [t \in T |-> 0], total |-> 0] \in Tallies(T)
<1> DEFINE z == [t \in T |-> 0]
<1>1. TypeCap \in Nat
  BY RiskAssumption
<1>2. z \in [T -> Int] /\ \A t \in T : z[t] \in Nat /\ z[t] \in Int /\ z[t] <= 0 /\ z[t] <= 2 * TypeCap
  BY <1>1
<1> HIDE DEF z
<1>3. SumOver(z, T) \in Nat
  BY <1>2, SumOfNaturals
<1>4. SumOver(z, T) <= 0 * Cardinality(T)
  BY <1>2, SumBounded
<1>5. Cardinality(T) \in Nat
  BY FS_CardinalityType
<1>6. SumOver(z, T) = 0
  BY <1>3, <1>4, <1>5
<1>7. [types |-> z, total |-> 0] \in [types : [T -> Int], total : Int]
  BY <1>2
<1> QED
  BY <1>2, <1>6, <1>7 DEF Tallies, z

LEMMA TallyKept ==
  ASSUME NEW h \in Seq(Event), Past(h), hour \in 0..LastScoreHour,
         NEW i \in 1..Len(h), NEW acc \in Tallies(TypesIn(h)), IsFiniteSet(TypesIn(h))
  PROVE  Tallied(h, i, acc) \in Tallies(TypesIn(h))
<1> DEFINE T == TypesIn(h)
           t == h[i].type
           c == Halved(h[i].delta, hour - h[i].at)
           g == [acc.types EXCEPT ![t] = @ + c]
<1>0. TypeCap \in Nat /\ LastScoreHour \in Nat
  BY RiskAssumption
<1>1. h[i] \in Event /\ h[i].at <= hour /\ h[i].delta <= TypeCap
  BY ElementOfSeq DEF Past
<1>2. t \in T
  <2>1. DOMAIN h = 1..Len(h)
    BY LenProperties
  <2> QED
    BY <2>1 DEF TypesIn, Range
<1>3. c \in Int /\ c <= TypeCap
  <2>1. hour - h[i].at \in 0..LastScoreHour /\ h[i].delta \in Int
    BY <1>0, <1>1 DEF Event
  <2> QED
    BY <1>0, <1>1, <2>1, HalvedBounded
<1> HIDE DEF T, t, c
<1>4. /\ acc.types \in [T -> Int] /\ acc.total \in Int
      /\ acc.total = SumOver(acc.types, T) /\ \A x \in T : acc.types[x] <= 2 * TypeCap
  BY DEF Tallies, T
<1>5. CASE acc.types[t] < TypeCap
  <2>1. g \in [T -> Int] /\ g[t] = acc.types[t] + c
    BY <1>2, <1>3, <1>4
  <2>2. \A x \in T : g[x] \in Int /\ acc.types[x] \in Int /\ (x # t => g[x] = acc.types[x])
    BY <1>2, <1>3, <1>4
  <2>3. acc.types[t] + c <= 2 * TypeCap
    BY <1>0, <1>2, <1>3, <1>4, <1>5
  <2>4. \A x \in T : g[x] <= 2 * TypeCap
    BY <1>4, <2>1, <2>2, <2>3
  <2>5. SumOver(g, T) = SumOver(acc.types, T) - acc.types[t] + g[t]
    <3> DEFINE f == acc.types
    <3>1. \A x \in T : f[x] \in Int /\ g[x] \in Int /\ (x # t => g[x] = f[x])
      BY <2>2
    <3>2. IsFiniteSet(T)
      BY DEF T
    <3> HIDE DEF f, g
    <3> QED
      BY <1>2, <3>1, <3>2, SumChanges DEF f
  <2>6. SumOver(g, T) = acc.total + c
    <3>1. acc.types[t] \in Int
      BY <1>2, <1>4
    <3> QED
      BY <1>3, <1>4, <2>1, <2>5, <3>1
  <2>7. [types |-> g, total |-> acc.total + c] \in [types : [T -> Int], total : Int]
    BY <1>3, <1>4, <2>1
  <2>8. [types |-> g, total |-> acc.total + c] \in Tallies(T)
    <3> HIDE DEF g
    <3> QED
      BY <2>4, <2>6, <2>7 DEF Tallies
  <2>9. Tallied(h, i, acc) = [types |-> g, total |-> acc.total + c]
    BY <1>5 DEF Tallied, t, c
  <2> QED
    BY <2>8, <2>9 DEF T
<1>6. CASE ~ (acc.types[t] < TypeCap)
  BY <1>6 DEF Tallied, t
<1> QED
  BY <1>5, <1>6

LEMMA TypesAreFew ==
  ASSUME NEW h \in Seq(Event)
  PROVE  IsFiniteSet(TypesIn(h)) /\ Cardinality(TypesIn(h)) \in Nat
<1>1. DOMAIN h = 1..Len(h) /\ Len(h) \in Nat
  BY LenProperties
<1> DEFINE b == [i \in 1..Len(h) |-> h[i].type]
<1>2. b \in Surjection(1..Len(h), TypesIn(h))
  BY <1>1 DEF Surjection, TypesIn, Range
<1>3. IsFiniteSet(1..Len(h))
  BY <1>1, FS_Interval, 1 \in Int
<1> QED
  BY <1>2, <1>3, FS_Surjection, FS_CardinalityType

(* No type has more than twice the cap in a score.                         *)
LEMMA ScoredBounded ==
  ASSUME NEW h \in Seq(Event), Past(h), hour \in 0..LastScoreHour
  PROVE  /\ Scored(h) \in Int
         /\ Scored(h) < 2 * TypeCap * Cardinality({x.type : x \in Range(h)}) + 1
<1> DEFINE T == TypesIn(h)
           n == Len(h)
           A == Tallies(T)
           base == [types |-> [t \in {x.type : x \in Range(h)} |-> 0], total |-> 0]
           F == [w \in (1..n) \X A |-> Tallied(h, w[1], w[2])]
           step(k) == [s \in SUBSET (1..n) |->
                         IF s = {} THEN base ELSE Tallied(h, Max(s), k[s \ {Max(s)}])]
           k == CHOOSE x : x = step(x)
<1>0. TypeCap \in Nat /\ n \in Nat /\ DOMAIN h = 1..n
  BY RiskAssumption, LenProperties
<1>1. IsFiniteSet(T) /\ Cardinality(T) \in Nat
  BY TypesAreFew
<1>2. Scored(h) = k[1..n].total
  BY <1>0 DEF Scored, FoldLeft, MapThenFoldSet, Tallied
<1>3. base \in A
  BY <1>1, EmptyTally DEF TypesIn
<1>4. F \in [(1..n) \X A -> A] /\ \A i \in 1..n, acc \in A : F[<<i, acc>>] = Tallied(h, i, acc)
  BY <1>1, TallyKept
<1> HIDE DEF A, F, base
<1>5. FoldRule(1..n, A, base, HighestOf(n), F)
  BY <1>0, <1>3, <1>4, PositionRules
<1>6. PICK g : FoldsBy(g, SUBSET (1..n), A, base, HighestOf(n), F)
  BY <1>5, FoldExists
<1>7. \A s \in SUBSET (1..n) : HighestOf(n)[s] = Max(s)
  BY DEF HighestOf
<1>8. g = step(g)
  <2>1. g = [s \in SUBSET (1..n) |-> g[s]]
    BY <1>6 DEF FoldsBy
  <2>2. ASSUME NEW s \in SUBSET (1..n), s # {} PROVE g[s] = Tallied(h, Max(s), g[s \ {Max(s)}])
    <3>1. Max(s) \in 1..n /\ g[s \ {Max(s)}] \in A
      BY <1>5, <1>6, <1>7, <2>2 DEF FoldsBy, FoldRule
    <3>2. g[s] = F[<<Max(s), g[s \ {Max(s)}]>>]
      BY <1>6, <1>7, <2>2 DEF FoldsBy
    <3> QED
      BY <1>4, <3>1, <3>2
  <2>3. g[{}] = base
    BY <1>6 DEF FoldsBy
  <2> QED
    BY <2>1, <2>2, <2>3
<1> HIDE DEF step
<1>9. k = step(k)
  BY <1>8
<1> HIDE DEF k
<1>10. SolvesToo(k, 1..n, A, base, HighestOf(n), F)
  <2>1. k[{}] = base
    BY <1>9 DEF step
  <2>2. ASSUME NEW s \in SUBSET (1..n), s # {}, k[s \ {Max(s)}] \in A
        PROVE  k[s] = F[<<Max(s), k[s \ {Max(s)}]>>]
    <3>1. Max(s) \in 1..n
      BY <1>5, <1>7, <2>2 DEF FoldRule
    <3>2. k[s] = Tallied(h, Max(s), k[s \ {Max(s)}])
      BY <1>9, <2>2 DEF step
    <3> QED
      BY <1>4, <2>2, <3>1, <3>2
  <2> QED
    BY <1>7, <2>1, <2>2 DEF SolvesToo
<1>11. k[1..n] \in A
  <2> DEFINE S == 1..n
             C == HighestOf(n)
  <2>1. Folds(k, S, A, base, C, F)
    BY <1>5, <1>10 DEF Folds
  <2> HIDE DEF S, C
  <2>2. \A s \in SUBSET S : k[s] \in A
    BY <2>1, FoldEnds
  <2> QED
    BY <2>2 DEF S
<1> DEFINE acc == k[1..n]
           f == acc.types
<1>12. /\ acc.total \in Int /\ acc.total = SumOver(f, T)
       /\ \A t \in T : f[t] \in Int /\ f[t] <= 2 * TypeCap
  BY <1>11 DEF A, Tallies
<1> HIDE DEF acc, f, T
<1>13. SumOver(f, T) <= (2 * TypeCap) * Cardinality(T)
  <2>1. 2 * TypeCap \in Nat
    BY <1>0
  <2> QED
    BY <1>1, <1>12, <2>1, SumBounded
<1>14. acc.total < 2 * TypeCap * Cardinality(T) + 1
  <2> DEFINE m == (2 * TypeCap) * Cardinality(T)
  <2>1. m \in Int /\ m = 2 * TypeCap * Cardinality(T)
    BY <1>0, <1>1
  <2> HIDE DEF m
  <2>2. acc.total <= m
    BY <1>12, <1>13 DEF m
  <2>3. acc.total < m + 1
    BY <1>12, <2>1, <2>2
  <2> QED
    BY <2>1, <2>3
<1> QED
  BY <1>2, <1>12, <1>14 DEF acc, T, TypesIn

-----------------------------------------------------------------------------
(* _compute_current_score.                                                 *)
Mark == [at : 0..LastScoreHour, delta : Nat]

Marked(h, now) == h \in Seq(Mark) /\ \A i \in 1..Len(h) : h[i].at <= now

Deltas(h) == [i \in DOMAIN h |-> h[i].delta]

Added(h) == SumOver(Deltas(h), DOMAIN h)

LEMMA CutAt ==
  ASSUME NEW a \in Nat, NEW b \in Nat, a <= b, NEW u \in Nat \ {0}
  PROVE  /\ Min({a \div u, MaxScore}) \in 0..MaxScore
         /\ Min({a \div u, MaxScore}) <= Min({b \div u, MaxScore})
         /\ \A c \in Nat : a <= u * c => Min({a \div u, MaxScore}) <= c
<1>0. MaxScore \in Nat
  BY RiskAssumption
<1> DEFINE q == a \div u
           r == b \div u
<1>1. q \in Nat /\ r \in Nat /\ q <= r
  BY DivBounded
<1>2. \A c \in Nat : a <= u * c => q <= c
  BY DivBounded
<1> HIDE DEF q, r
<1>3. /\ Min({q, MaxScore}) = (IF q <= MaxScore THEN q ELSE MaxScore)
      /\ Min({r, MaxScore}) = (IF r <= MaxScore THEN r ELSE MaxScore)
  BY <1>0, <1>1 DEF Min
<1>4. Min({q, MaxScore}) <= q /\ Min({q, MaxScore}) \in 0..MaxScore
  BY <1>0, <1>1, <1>3
<1>5. Min({q, MaxScore}) <= Min({r, MaxScore})
  BY <1>0, <1>1, <1>3
<1>6. ASSUME NEW c \in Nat, a <= u * c PROVE Min({q, MaxScore}) <= c
  <2>1. q <= c
    BY <1>2, <1>6
  <2> QED
    BY <1>0, <1>1, <1>3, <2>1
<1> QED
  BY <1>4, <1>5, <1>6 DEF q, r

LEMMA SumOfAll == ASSUME NEW f PROVE SumFunction(f) = SumOver(f, DOMAIN f)
BY DEF SumFunction, SumFunctionOnSet, FoldFunctionOnSet, SumOver

LEMMA PointsBounded ==
  ASSUME NEW now \in 0..LastScoreHour, NEW h, Marked(h, now)
  PROVE  /\ DOMAIN h = 1..Len(h) /\ IsFiniteSet(1..Len(h)) /\ Len(h) \in Nat
         /\ \A i \in 1..Len(h) :
              /\ Points(h, now)[i] \in Nat /\ Deltas(h)[i] \in Nat
              /\ Points(h, now)[i] <= TwoTo[LastScoreHour] * Deltas(h)[i]
         /\ SumFunction(Points(h, now)) = SumOver(Points(h, now), 1..Len(h))
         /\ Added(h) = SumOver(Deltas(h), 1..Len(h))
         /\ SumOver(Points(h, now), 1..Len(h)) \in Nat /\ Added(h) \in Nat
         /\ SumOver(Points(h, now), 1..Len(h)) <= TwoTo[LastScoreHour] * Added(h)
<1>0. LastScoreHour \in Nat
  BY RiskAssumption
<1>1. DOMAIN h = 1..Len(h) /\ Len(h) \in Nat
  BY LenProperties DEF Marked
<1>2. IsFiniteSet(1..Len(h))
  BY <1>1, FS_Interval, 1 \in Int
<1> DEFINE f == Points(h, now)
           d == Deltas(h)
           c == TwoTo[LastScoreHour]
<1>3. DOMAIN f = 1..Len(h) /\ DOMAIN d = 1..Len(h)
  BY <1>1 DEF Points, Deltas
<1>4. c \in Nat
  BY <1>0, PowersOfTwo
<1>5. ASSUME NEW i \in 1..Len(h) PROVE f[i] \in Nat /\ d[i] \in Nat /\ f[i] <= c * d[i]
  <2>1. h[i] \in Mark /\ h[i].at <= now
    BY ElementOfSeq DEF Marked
  <2> DEFINE x == h[i].delta
             k == LastScoreHour - (now - h[i].at)
             u == TwoTo[k]
  <2>2. x \in Nat /\ k \in 0..LastScoreHour
    BY <1>0, <2>1 DEF Mark
  <2>3. f[i] = x * u /\ d[i] = x
    BY <1>1 DEF Points, Deltas
  <2> HIDE DEF x, k
  <2>4. u \in Nat /\ u <= c
    BY <1>0, <2>2, PowersOfTwo, PowersGrow
  <2> HIDE DEF u, c
  <2>5. x * u \in Nat /\ x * u <= c * x
    BY <1>4, <2>2, <2>4
  <2> QED
    BY <2>2, <2>3, <2>5
<1> HIDE DEF f, d, c
<1>6. SumOver(f, 1..Len(h)) \in Nat /\ SumOver(d, 1..Len(h)) \in Nat
  BY <1>2, <1>5, SumOfNaturals
<1>7. SumOver(f, 1..Len(h)) <= c * SumOver(d, 1..Len(h))
  <2> DEFINE T == 1..Len(h)
  <2>1. IsFiniteSet(T) /\ \A x \in T : f[x] \in Int /\ d[x] \in Int /\ f[x] <= c * d[x]
    BY <1>2, <1>5
  <2> HIDE DEF T
  <2>2. SumOver(f, T) <= c * SumOver(d, T)
    BY <1>4, <2>1, SumAtMost
  <2> QED
    BY <2>2 DEF T
<1>8. SumFunction(f) = SumOver(f, 1..Len(h))
  BY <1>3, SumOfAll
<1>9. Added(h) = SumOver(d, 1..Len(h))
  BY <1>1 DEF Added, d
<1> QED
  BY <1>1, <1>2, <1>5, <1>6, <1>7, <1>8, <1>9 DEF f, d, c

(* A score is within its limit and counts no more than was added.          *)
LEMMA ScoreBounded ==
  ASSUME NEW now \in 0..LastScoreHour, NEW h, Marked(h, now)
  PROVE  ScoreAt(h, now) \in 0..MaxScore /\ ScoreAt(h, now) <= Added(h) /\ Added(h) \in Nat
<1> DEFINE a == SumFunction(Points(h, now))
           u == TwoTo[LastScoreHour]
<1>1. a \in Nat /\ a <= u * Added(h) /\ Added(h) \in Nat
  BY PointsBounded
<1>2. u \in Nat \ {0}
  BY PowersOfTwo, RiskAssumption
<1>3. ScoreAt(h, now) = Min({a \div u, MaxScore})
  BY DEF ScoreAt
<1> HIDE DEF a, u
<1>4. Min({a \div u, MaxScore}) \in 0..MaxScore /\ Min({a \div u, MaxScore}) <= Added(h)
  <2> DEFINE c == Added(h)
             m == Min({a \div u, MaxScore})
  <2>1. c \in Nat /\ a <= u * c /\ a <= a
    BY <1>1
  <2> HIDE DEF c
  <2>2. m \in 0..MaxScore /\ \A x \in Nat : a <= u * x => m <= x
    BY <1>1, <1>2, <2>1, CutAt
  <2> HIDE DEF m
  <2>3. m <= c
    BY <2>1, <2>2
  <2> QED
    BY <2>2, <2>3 DEF m, c
<1> QED
  BY <1>1, <1>3, <1>4

(* It falls with time.                                                     *)
LEMMA ScoreFalls ==
  ASSUME NEW now \in 0..LastScoreHour, now + 1 \in 0..LastScoreHour, NEW h, Marked(h, now)
  PROVE  Marked(h, now + 1) /\ ScoreAt(h, now + 1) <= ScoreAt(h, now)
<1>0. LastScoreHour \in Nat
  BY RiskAssumption
<1>1. Marked(h, now + 1)
  <2>1. \A i \in 1..Len(h) : h[i] \in Mark
    BY ElementOfSeq DEF Marked
  <2> QED
    BY <2>1 DEF Marked, Mark
<1> DEFINE f == Points(h, now)
           g == Points(h, now + 1)
           T == 1..Len(h)
           u == TwoTo[LastScoreHour]
<1>2. \A i \in T : f[i] \in Nat /\ g[i] \in Nat
  BY <1>1, PointsBounded
<1>3. ASSUME NEW i \in T PROVE g[i] <= 1 * f[i]
  <2>1. h[i] \in Mark /\ h[i].at <= now /\ DOMAIN h = 1..Len(h)
    BY ElementOfSeq, PointsBounded DEF Marked
  <2> DEFINE x == h[i].delta
             k == LastScoreHour - (now - h[i].at)
             j == LastScoreHour - ((now + 1) - h[i].at)
             v == TwoTo[k]
             w == TwoTo[j]
  <2>2. x \in Nat /\ k \in 0..LastScoreHour /\ j \in 0..LastScoreHour /\ j <= k
    BY <1>0, <2>1 DEF Mark
  <2>3. f[i] = x * v /\ g[i] = x * w
    BY <2>1 DEF Points
  <2> HIDE DEF x, k, j
  <2>4. v \in Nat /\ w \in Nat /\ w <= v
    BY <2>2, PowersOfTwo, PowersGrow
  <2> HIDE DEF v, w
  <2>5. x * w <= 1 * (x * v)
    BY <2>2, <2>4
  <2> QED
    BY <2>3, <2>5
<1>4. IsFiniteSet(T)
  BY PointsBounded
<1>5. SumFunction(f) = SumOver(f, T) /\ SumFunction(g) = SumOver(g, T)
      /\ SumOver(f, T) \in Nat /\ SumOver(g, T) \in Nat
  BY <1>1, PointsBounded
<1>6. u \in Nat \ {0}
  BY PowersOfTwo, <1>0
<1> HIDE DEF f, g, T, u
<1>7. SumOver(g, T) <= 1 * SumOver(f, T)
  <2>1. \A x \in T : f[x] \in Int /\ g[x] \in Int /\ g[x] <= 1 * f[x]
    BY <1>2, <1>3
  <2> QED
    BY <1>4, <2>1, SumAtMost, 1 \in Nat
<1>8. SumOver(g, T) <= SumOver(f, T)
  BY <1>5, <1>7
<1>9. Min({SumOver(g, T) \div u, MaxScore}) <= Min({SumOver(f, T) \div u, MaxScore})
  BY <1>5, <1>6, <1>8, CutAt
<1> QED
  BY <1>1, <1>5, <1>9 DEF ScoreAt, f, g, u

(* Trimming takes nothing but events away.                                 *)
LEMMA ScoreTrimmed ==
  ASSUME NEW now \in 0..LastScoreHour, NEW h, Marked(h, now), NEW K \in SUBSET (1..Len(h)),
         NEW t, t = AtPositions(h, K)
  PROVE  Marked(t, now) /\ ScoreAt(t, now) <= ScoreAt(h, now) /\ Added(t) <= Added(h)
<1>1. h \in Seq(Mark)
  BY DEF Marked
<1>2. PICK p \in [1..Len(t) -> K] : \A n \in 1..Len(t) : t[n] = h[p[n]]
  BY <1>1, PlacesKept
<1>3. t \in Seq(Mark)
  BY <1>1, PlacesKept
<1>4. Marked(t, now)
  <2>1. \A n \in 1..Len(t) : p[n] \in 1..Len(h)
    BY <1>2
  <2> QED
    BY <1>2, <1>3, <2>1 DEF Marked
<1> DEFINE f == Points(h, now)
           g == Points(t, now)
           d == Deltas(h)
           e == Deltas(t)
           u == TwoTo[LastScoreHour]
<1>5. /\ DOMAIN h = 1..Len(h) /\ \A i \in 1..Len(h) : f[i] \in Nat /\ d[i] \in Nat
      /\ SumFunction(f) = SumOver(f, 1..Len(h)) /\ Added(h) = SumOver(d, 1..Len(h))
      /\ SumOver(f, 1..Len(h)) \in Nat
  BY PointsBounded
<1>6. /\ DOMAIN t = 1..Len(t)
      /\ SumFunction(g) = SumOver(g, 1..Len(t)) /\ Added(t) = SumOver(e, 1..Len(t))
      /\ SumOver(g, 1..Len(t)) \in Nat
  BY <1>4, PointsBounded
<1>7. \A k \in 1..Len(t), i \in K : t[k] = h[i] => g[k] = f[i] /\ e[k] = d[i]
  BY <1>5, <1>6 DEF Points, Deltas
<1>8. u \in Nat \ {0}
  BY PowersOfTwo, RiskAssumption
<1> HIDE DEF f, g, d, e, u
<1>9. SumOver(g, 1..Len(t)) <= SumOver(f, 1..Len(h))
  BY <1>1, <1>5, <1>7, SumAtPositions
<1>10. SumOver(e, 1..Len(t)) <= SumOver(d, 1..Len(h))
  BY <1>1, <1>5, <1>7, SumAtPositions
<1>11. ScoreAt(t, now) <= ScoreAt(h, now)
  <2> DEFINE a == SumFunction(g)
             b == SumFunction(f)
  <2>1. a \in Nat /\ b \in Nat /\ a <= b
    BY <1>5, <1>6, <1>9
  <2>2. ScoreAt(t, now) = Min({a \div u, MaxScore}) /\ ScoreAt(h, now) = Min({b \div u, MaxScore})
    BY DEF ScoreAt, f, g, u
  <2> HIDE DEF a, b
  <2>3. Min({a \div u, MaxScore}) <= Min({b \div u, MaxScore})
    BY <1>8, <2>1, CutAt
  <2> QED
    BY <2>2, <2>3
<1> QED
  BY <1>4, <1>5, <1>6, <1>10, <1>11

LEMMA AddedAppends ==
  ASSUME NEW now \in 0..LastScoreHour, NEW h, Marked(h, now), NEW m \in Mark, m.at <= now
  PROVE  Marked(Append(h, m), now) /\ Added(Append(h, m)) = Added(h) + m.delta
<1>1. h \in Seq(Mark) /\ Len(h) \in Nat
  BY LenProperties DEF Marked
<1> DEFINE t == Append(h, m)
           n == Len(h)
           d == Deltas(h)
           e == Deltas(t)
           S == 1..(n + 1)
<1>2. /\ t \in Seq(Mark) /\ Len(t) = n + 1 /\ t[n + 1] = m
      /\ \A i \in 1..n : t[i] = h[i]
  BY <1>1, AppendProperties
<1>3. Marked(t, now)
  <2>1. \A i \in 1..(n + 1) : i \in 1..n \/ i = n + 1
    BY <1>1
  <2> QED
    BY <1>2, <2>1 DEF Marked
<1>4. /\ DOMAIN h = 1..n /\ \A i \in 1..n : d[i] \in Nat
      /\ Added(h) = SumOver(d, 1..n) /\ Added(h) \in Nat /\ IsFiniteSet(1..n)
  BY PointsBounded
<1>5. /\ DOMAIN t = 1..(n + 1) /\ \A i \in S : e[i] \in Nat
      /\ Added(t) = SumOver(e, S) /\ IsFiniteSet(S)
  BY <1>2, <1>3, PointsBounded
<1>6. (\A i \in 1..n : e[i] = d[i]) /\ e[n + 1] = m.delta
  BY <1>1, <1>2, <1>4, <1>5 DEF Deltas
<1>7. S = (1..n) \cup {n + 1} /\ 1..n \in SUBSET S /\ n + 1 \in S \ (1..n)
  BY <1>1
<1> DEFINE R == 1..n
<1> HIDE DEF t, d, e, S, R, n
<1>8. SumOver(e, R \cup {n + 1}) = e[n + 1] + SumOver(e, R)
  <2>1. R \in SUBSET S /\ n + 1 \in S \ R /\ \A x \in S : e[x] \in Int
    BY <1>5, <1>7 DEF R
  <2> QED
    BY <1>5, <2>1, SumGrows
<1>9. SumOver(e, R) = SumOver(d, R)
  <2>1. \A x \in R : d[x] \in Int /\ d[x] = e[x]
    BY <1>4, <1>6 DEF R
  <2>2. IsFiniteSet(R)
    BY <1>4 DEF R
  <2> QED
    BY <2>1, <2>2, SumAgrees
<1>10. m.delta \in Nat
  BY DEF Mark
<1>11. Added(t) = m.delta + Added(h)
  BY <1>4, <1>5, <1>6, <1>7, <1>8, <1>9 DEF R
<1> QED
  BY <1>3, <1>4, <1>10, <1>11 DEF t

LEMMA NothingMarked ==
  ASSUME NEW now \in 0..LastScoreHour
  PROVE  Marked(<<>>, now) /\ Added(<<>>) = 0 /\ ScoreAt(<<>>, now) = 0
<1>1. Marked(<<>>, now)
  BY DEF Marked
<1>2. DOMAIN <<>> = {}
  OBVIOUS
<1>3. Added(<<>>) = 0
  BY <1>2, SumOfNone DEF Added
<1>4. ScoreAt(<<>>, now) = 0
  BY <1>1, <1>3, ScoreBounded, RiskAssumption
<1> QED
  BY <1>1, <1>3, <1>4

-----------------------------------------------------------------------------
(* The inductive invariant: the clock, the engine and the scorer.          *)
Alert == [id : Nat, entity : Entities, score : Int, severity : {"critical", "high", "medium"}]

Profile == [type : EntityTypes, score : 0..MaxScore, peak : Nat, alerts : Nat, kept : Nat]

ClockInv == hour \in 0..LastScoreHour /\ posts \in 0..MaxPosts

EngineInv ==
  /\ risk \in [Entities -> Seq(Event)] /\ \A e \in Entities : Past(risk[e])
  /\ pending \in Seq(Alert) /\ drained \in Seq(Nat) /\ raised \in Nat
  /\ drained \o AlertIds(pending) = [n \in 1..raised |-> n]

(* What is known of the history of an entity, and of its profile.          *)
MarksInv ==
  /\ marks \in [Entities -> Seq(Mark)] /\ since \in [Entities -> Nat]
  /\ \A e \in Entities : Marked(marks[e], hour) /\ Added(marks[e]) <= since[e]

ProfilesInv ==
  /\ DOMAIN profiles \subseteq Entities /\ profiles \in [DOMAIN profiles -> Profile]
  /\ \A e \in DOMAIN profiles : /\ profiles[e].score <= profiles[e].peak
                                /\ profiles[e].score <= since[e]
                                /\ ScoreAt(marks[e], hour) <= profiles[e].score

ListInv ==
  /\ alertList \subseteq DOMAIN profiles
  /\ \A e \in alertList : profiles[e].score >= AlertAt

RiskInv == ClockInv /\ EngineInv /\ MarksInv /\ ProfilesInv /\ ListInv

(* The ids of an append and of nothing.                                    *)
LEMMA IdsOfAlerts ==
  /\ \A p \in Seq(Alert) : AlertIds(p) \in Seq(Nat) /\ Len(AlertIds(p)) = Len(p)
  /\ \A p \in Seq(Alert), a \in Alert : AlertIds(Append(p, a)) = Append(AlertIds(p), a.id)
  /\ AlertIds(<<>>) = <<>>
<1>1. ASSUME NEW p \in Seq(Alert) PROVE AlertIds(p) \in Seq(Nat) /\ Len(AlertIds(p)) = Len(p)
  <2>0. \A i \in 1..Len(p) : p[i] \in Alert
    BY ElementOfSeq
  <2>1. DOMAIN p = 1..Len(p) /\ Len(p) \in Nat /\ \A i \in 1..Len(p) : p[i].id \in Nat
    BY <2>0, LenProperties DEF Alert
  <2>2. AlertIds(p) \in [1..Len(p) -> Nat]
    BY <2>1 DEF AlertIds
  <2> QED
    BY <2>1, <2>2, SeqDef, LenProperties
<1>2. ASSUME NEW p \in Seq(Alert), NEW a \in Alert PROVE AlertIds(Append(p, a)) = Append(AlertIds(p), a.id)
  <2> DEFINE q == Append(p, a)
             n == Len(p)
  <2>1. DOMAIN p = 1..n /\ n \in Nat
    BY LenProperties
  <2>2. /\ q \in Seq(Alert) /\ Len(q) = n + 1 /\ q[n + 1] = a /\ DOMAIN q = 1..(n + 1)
        /\ \A i \in 1..n : q[i] = p[i]
    BY AppendProperties, LenProperties
  <2>3. AlertIds(p) \in Seq(Nat) /\ Len(AlertIds(p)) = n /\ a.id \in Nat
    BY <1>1 DEF Alert
  <2> DEFINE u == Append(AlertIds(p), a.id)
  <2>4. /\ u \in Seq(Nat) /\ Len(u) = n + 1 /\ u[n + 1] = a.id /\ DOMAIN u = 1..(n + 1)
        /\ \A i \in 1..n : u[i] = AlertIds(p)[i]
    BY <2>3, AppendProperties, LenProperties
  <2>5. \A i \in 1..n : AlertIds(p)[i] = p[i].id
    BY <2>1 DEF AlertIds
  <2>6. AlertIds(q) = [i \in 1..(n + 1) |-> q[i].id]
    BY <2>2 DEF AlertIds
  <2>7. u = [i \in 1..(n + 1) |-> u[i]]
    BY <2>4
  <2>8. \A i \in 1..(n + 1) : u[i] = q[i].id
    <3>1. \A i \in 1..(n + 1) : i \in 1..n \/ i = n + 1
      BY <2>1
    <3> HIDE DEF u, q
    <3> QED
      BY <3>1, <2>2, <2>4, <2>5
  <2> HIDE DEF u, q
  <2> QED
    BY <2>6, <2>7, <2>8 DEF u, q
<1>3. AlertIds(<<>>) = <<>>
  BY DEF AlertIds
<1> QED
  BY <1>1, <1>2, <1>3

LEMMA RiskStarts == RiskInit => RiskInv
<1> SUFFICES ASSUME RiskInit PROVE RiskInv
  OBVIOUS
<1> USE DEF RiskInit
<1>1. LastScoreHour \in Nat /\ MaxPosts \in Nat /\ TypeCap \in Nat
  BY RiskAssumption
<1>2. ClockInv
  BY <1>1 DEF ClockInv
<1>3. EngineInv
  <2>1. risk \in [Entities -> Seq(Event)] /\ \A e \in Entities : Past(risk[e])
    BY DEF Past
  <2>2. drained \o AlertIds(pending) = <<>>
    BY IdsOfAlerts
  <2>3. [n \in 1..raised |-> n] = <<>>
    OBVIOUS
  <2> QED
    BY <2>1, <2>2, <2>3 DEF EngineInv
<1>4. MarksInv
  <2>1. Marked(<<>>, hour) /\ Added(<<>>) = 0
    BY <1>1, NothingMarked
  <2> QED
    BY <2>1 DEF MarksInv
<1>5. ProfilesInv /\ ListInv
  BY DEF ProfilesInv, ListInv
<1> QED
  BY <1>2, <1>3, <1>4, <1>5 DEF RiskInv

-----------------------------------------------------------------------------
(* The engine.                                                             *)
LEMMA HourOfEngine ==
  ASSUME RiskInv, NextHour PROVE ClockInv' /\ EngineInv'
<1> USE DEF RiskInv, NextHour, ClockInv, EngineInv, xdrVars
<1>1. hour' \in 0..LastScoreHour /\ hour <= hour'
  BY RiskAssumption
<1>2. \A e \in Entities : risk[e] \in Seq(Event)
  OBVIOUS
<1>3. ASSUME NEW e \in Entities PROVE Past(risk[e])'
  <2> DEFINE h == risk[e]
  <2>0. h \in Seq(Event)
    BY <1>2
  <2>1. \A i \in 1..Len(h) : h[i] \in Event
    <3> HIDE DEF h
    <3> QED
      BY <2>0, ElementOfSeq
  <2>4. \A i \in 1..Len(h) : h[i].at \in Int
    BY <2>1, RiskAssumption DEF Event
  <2>2. Past(risk[e]) /\ risk' = risk
    OBVIOUS
  <2> QED
    BY <1>1, <2>4, <2>2, RiskAssumption DEF Past
<1> QED
  BY <1>1, <1>3

LEMMA EngineAdds ==
  ASSUME RiskInv, NEW e \in Entities, NEW x \in RiskEvents, AddRisk(e, x[1], x[2])
  PROVE  ClockInv' /\ EngineInv'
<1> DEFINE new == [at |-> hour, delta |-> Min({x[2], TypeCap}), type |-> x[1]]
           all == Append(risk[e], new)
           K == {i \in DOMAIN all : hour - all[i].at < Day}
           h == AtPositions(all, K)
           score == Scored(h)
           alert == [id |-> raised + 1, entity |-> e, score |-> score, severity |-> Severity(score)]
<1>0. TypeCap \in Nat /\ LastScoreHour \in Nat /\ MaxPosts \in Nat /\ x[2] \in Int
  BY RiskAssumption
<1>1. /\ ClockInv /\ EngineInv /\ hour' = hour /\ posts < MaxPosts /\ posts' = posts + 1
      /\ drained' = drained /\ risk' = [risk EXCEPT ![e] = h]
      /\ \/ raised' = raised + 1 /\ pending' = Append(pending, alert)
         \/ raised' = raised /\ pending' = pending
  BY DEF RiskInv, AddRisk
<1>2. new \in Event /\ new.at = hour /\ new.delta <= TypeCap
  <2>1. Min({x[2], TypeCap}) = IF x[2] <= TypeCap THEN x[2] ELSE TypeCap
    BY <1>0 DEF Min
  <2> QED
    BY <1>0, <1>1, <2>1 DEF Event, ClockInv
<1>3. risk[e] \in Seq(Event) /\ Past(risk[e]) /\ Len(risk[e]) \in Nat
  BY <1>1, LenProperties DEF EngineInv
<1> HIDE DEF new
<1>4. all \in Seq(Event) /\ Past(all) /\ DOMAIN all = 1..Len(all)
  <2>1. /\ all \in Seq(Event) /\ Len(all) = Len(risk[e]) + 1 /\ all[Len(risk[e]) + 1] = new
        /\ \A i \in 1..Len(risk[e]) : all[i] = risk[e][i]
    BY <1>2, <1>3, AppendProperties
  <2>2. \A i \in 1..Len(all) : i \in 1..Len(risk[e]) \/ i = Len(risk[e]) + 1
    BY <1>3, <2>1
  <2>3. new.at <= hour
    BY <1>0, <1>1, <1>2 DEF ClockInv
  <2>4. DOMAIN all = 1..Len(all)
    BY <2>1, LenProperties
  <2> HIDE DEF all
  <2>5. Past(all)
    BY <1>2, <1>3, <2>1, <2>2, <2>3 DEF Past
  <2> QED
    BY <2>1, <2>4, <2>5
<1> HIDE DEF all
<1>5. h \in Seq(Event) /\ Past(h)
  <2>1. K \in SUBSET (1..Len(all))
    BY <1>4
  <2> HIDE DEF K
  <2>2. h \in Seq(Event)
    BY <1>4, <2>1, PlacesKept
  <2>3. PICK p \in [1..Len(h) -> K] : \A n \in 1..Len(h) : h[n] = all[p[n]]
    BY <1>4, <2>1, PlacesKept
  <2>4. \A n \in 1..Len(h) : p[n] \in 1..Len(all)
    BY <2>1, <2>3
  <2> HIDE DEF h
  <2>5. Past(h)
    BY <1>4, <2>3, <2>4 DEF Past
  <2> QED
    BY <2>2, <2>5
<1> HIDE DEF h
<1>6. score \in Int
  BY <1>1, <1>5, ScoredBounded DEF ClockInv
<1> HIDE DEF score
<1>7. alert \in Alert
  BY <1>1, <1>6 DEF Alert, EngineInv, Severity
<1>8. ClockInv'
  BY <1>0, <1>1 DEF ClockInv
<1>9. risk' \in [Entities -> Seq(Event)] /\ \A z \in Entities : Past(risk[z])'
  <2>1. \A z \in Entities : risk'[z] = IF z = e THEN h ELSE risk[z]
    BY <1>1 DEF EngineInv
  <2>2. \A z \in Entities : Past(risk'[z])
    BY <1>1, <1>5, <2>1 DEF EngineInv
  <2>3. \A z \in Entities : Past(risk[z])' <=> Past(risk'[z])
    BY <1>1 DEF Past
  <2> QED
    BY <1>1, <1>5, <2>2, <2>3 DEF EngineInv
<1>10. CASE raised' = raised /\ pending' = pending
  BY <1>1, <1>8, <1>9, <1>10 DEF EngineInv
<1>11. CASE raised' = raised + 1 /\ pending' = Append(pending, alert)
  <2>1. pending \in Seq(Alert) /\ drained \in Seq(Nat) /\ raised \in Nat /\ alert.id = raised + 1
        /\ drained \o AlertIds(pending) = [n \in 1..raised |-> n]
    BY <1>1 DEF EngineInv
  <2> HIDE DEF alert
  <2>2. AlertIds(pending') = Append(AlertIds(pending), raised + 1) /\ AlertIds(pending) \in Seq(Nat)
    BY <1>7, <1>11, <2>1, IdsOfAlerts
  <2>3. pending' \in Seq(Alert) /\ raised' \in Nat
    BY <1>7, <1>11, <2>1, AppendProperties
  <2> DEFINE u == AlertIds(pending)
             v == [n \in 1..raised |-> n]
  <2>4. drained \o Append(u, raised + 1) = Append(drained \o u, raised + 1)
    <3>1. u \in Seq(Nat) /\ raised + 1 \in Nat
      BY <2>1, <2>2
    <3> HIDE DEF u
    <3> QED
      BY <2>1, <3>1
  <2>5. Append(v, raised + 1) = [n \in 1..(raised + 1) |-> n]
    BY <2>1
  <2>6. drained' \o AlertIds(pending') = [n \in 1..raised' |-> n]
    BY <1>1, <1>11, <2>1, <2>2, <2>4, <2>5
  <2>7. AlertIds(pending') = AlertIds(pending)'
    BY DEF AlertIds
  <2> QED
    BY <1>1, <1>8, <1>9, <2>1, <2>3, <2>6, <2>7 DEF EngineInv
<1> QED
  BY <1>1, <1>10, <1>11

LEMMA EngineDrains ==
  ASSUME RiskInv, DrainAlerts PROVE ClockInv' /\ EngineInv'
<1>1. /\ ClockInv /\ EngineInv /\ hour' = hour /\ posts' = posts /\ risk' = risk /\ raised' = raised
      /\ drained' = drained \o AlertIds(pending) /\ pending' = <<>>
  BY DEF RiskInv, DrainAlerts, LeftAfterDrain
<1>2. \A e \in Entities : Past(risk[e])'
  BY <1>1 DEF EngineInv, Past
<1>3. drained' \in Seq(Nat) /\ AlertIds(pending') = <<>>
  BY <1>1, IdsOfAlerts DEF EngineInv
<1>4. drained' \o AlertIds(pending') = drained'
  BY <1>3
<1>5. AlertIds(pending') = AlertIds(pending)'
  BY DEF AlertIds
<1>6. ClockInv'
  BY <1>1 DEF ClockInv
<1> QED
  BY <1>1, <1>2, <1>3, <1>4, <1>5, <1>6 DEF EngineInv

-----------------------------------------------------------------------------
(* The scorer.                                                             *)
LEMMA HourOfScorer ==
  ASSUME RiskInv, NextHour PROVE MarksInv' /\ ProfilesInv' /\ ListInv'
<1>0. LastScoreHour \in Nat /\ MaxScore \in Nat
  BY RiskAssumption
<1>1. /\ MarksInv /\ ProfilesInv /\ hour \in 0..LastScoreHour /\ hour + 1 \in 0..LastScoreHour
      /\ hour' = hour + 1 /\ alertList' = {}
      /\ marks' = marks /\ since' = since /\ profiles' = profiles
  BY <1>0 DEF RiskInv, ClockInv, NextHour
<1>2. ASSUME NEW e \in Entities
      PROVE  /\ Marked(marks[e], hour + 1) /\ ScoreAt(marks[e], hour + 1) <= ScoreAt(marks[e], hour)
             /\ ScoreAt(marks[e], hour + 1) \in Int /\ ScoreAt(marks[e], hour) \in Int
  <2>1. Marked(marks[e], hour)
    BY <1>1 DEF MarksInv
  <2> DEFINE h == marks[e]
  <2> HIDE DEF h
  <2>2. Marked(h, hour + 1) /\ ScoreAt(h, hour + 1) <= ScoreAt(h, hour)
    BY <1>1, <2>1, ScoreFalls DEF h
  <2>3. ScoreAt(h, hour + 1) \in 0..MaxScore /\ ScoreAt(h, hour) \in 0..MaxScore
    BY <1>1, <2>1, <2>2, ScoreBounded DEF h
  <2> QED
    BY <1>0, <2>2, <2>3 DEF h
<1>3. MarksInv'
  BY <1>1, <1>2 DEF MarksInv
<1>4. ProfilesInv'
  <2>1. \A e \in DOMAIN profiles : profiles[e] \in Profile /\ profiles[e].score \in Int /\ e \in Entities
    BY <1>0, <1>1 DEF ProfilesInv, Profile
  <2>2. \A e \in DOMAIN profiles : ScoreAt(marks[e], hour + 1) <= profiles[e].score
    BY <1>1, <1>2, <2>1 DEF ProfilesInv
  <2> QED
    BY <1>1, <2>2 DEF ProfilesInv
<1> QED
  BY <1>1, <1>3, <1>4 DEF ListInv

(* What a read does to one profile: its score falls to what its marks say. *)
LEMMA ScorerRefreshes ==
  ASSUME RiskInv, NEW es \in SUBSET DOMAIN profiles, Refreshed(es), hour' = hour, since' = since
  PROVE  /\ MarksInv' /\ ProfilesInv' /\ DOMAIN profiles' = DOMAIN profiles
         /\ \A e \in es : profiles'[e].score = ScoreAt(marks[e], hour)
<1>0. MaxScore \in Nat
  BY RiskAssumption
<1>1. /\ MarksInv /\ ProfilesInv /\ hour \in 0..LastScoreHour
      /\ marks' = [e \in Entities |-> IF e \in es THEN Trimmed(marks[e]) ELSE marks[e]]
      /\ DOMAIN profiles' = DOMAIN profiles
      /\ profiles' = [e \in DOMAIN profiles |->
           IF e \in es THEN [profiles[e] EXCEPT !.score = ScoreAt(marks[e], hour)] ELSE profiles[e]]
  BY DEF RiskInv, ClockInv, Refreshed, Score
<1>2. ASSUME NEW e \in Entities
      PROVE  /\ Marked(marks'[e], hour) /\ marks'[e] \in Seq(Mark)
             /\ Added(marks'[e]) <= Added(marks[e]) /\ Added(marks'[e]) \in Int /\ Added(marks[e]) \in Int
             /\ ScoreAt(marks'[e], hour) <= ScoreAt(marks[e], hour)
             /\ ScoreAt(marks'[e], hour) \in 0..MaxScore /\ ScoreAt(marks[e], hour) \in 0..MaxScore
  <2> DEFINE h == marks[e]
             t == Trimmed(h)
  <2>1. Marked(h, hour)
    BY <1>1 DEF MarksInv
  <2>2. ScoreAt(h, hour) \in 0..MaxScore /\ Added(h) \in Nat
    BY <1>1, <2>1, ScoreBounded
  <2>3. Marked(t, hour) /\ ScoreAt(t, hour) <= ScoreAt(h, hour) /\ Added(t) <= Added(h)
    <3> DEFINE K == {i \in DOMAIN h : hour - h[i].at < Week}
    <3>1. K \in SUBSET (1..Len(h)) /\ t = AtPositions(h, K)
      <4>1. DOMAIN h = 1..Len(h)
        BY <2>1, LenProperties DEF Marked
      <4> QED
        BY <4>1 DEF Trimmed
    <3> HIDE DEF K, t, h
    <3> QED
      BY <1>1, <2>1, <3>1, ScoreTrimmed
  <2>4. ScoreAt(t, hour) \in 0..MaxScore /\ Added(t) \in Nat
    BY <1>1, <2>3, ScoreBounded
  <2>5. marks'[e] = t \/ marks'[e] = h
    BY <1>1
  <2>6. h \in Seq(Mark) /\ t \in Seq(Mark)
    BY <2>1, <2>3 DEF Marked
  <2>7. ScoreAt(h, hour) <= ScoreAt(h, hour) /\ Added(h) <= Added(h)
    BY <1>0, <2>2
  <2> HIDE DEF h, t
  <2> QED
    BY <2>1, <2>2, <2>3, <2>4, <2>5, <2>6, <2>7 DEF h
<1>3. MarksInv'
  <2>1. marks' \in [Entities -> Seq(Mark)]
    BY <1>1, <1>2
  <2>2. \A e \in Entities : Added(marks'[e]) <= since[e]
    BY <1>1, <1>2 DEF MarksInv
  <2> QED
    BY <1>1, <1>2, <2>1, <2>2 DEF MarksInv
<1>4. ASSUME NEW e \in DOMAIN profiles
      PROVE  /\ profiles'[e] \in Profile
             /\ profiles'[e].score <= profiles'[e].peak /\ profiles'[e].score <= since[e]
             /\ ScoreAt(marks'[e], hour) <= profiles'[e].score
             /\ e \in es => profiles'[e].score = ScoreAt(marks[e], hour)
  <2> DEFINE p == profiles[e]
             s == ScoreAt(marks[e], hour)
             q == [p EXCEPT !.score = s]
  <2>1. /\ e \in Entities /\ p \in Profile /\ p.score <= p.peak /\ p.score <= since[e] /\ s <= p.score
        /\ since[e] \in Nat
    BY <1>1 DEF ProfilesInv, MarksInv
  <2>2. s \in 0..MaxScore /\ ScoreAt(marks'[e], hour) <= s /\ ScoreAt(marks'[e], hour) \in 0..MaxScore
    BY <1>2, <2>1
  <2>3. profiles'[e] = IF e \in es THEN q ELSE p
    BY <1>1
  <2>4. p.score \in 0..MaxScore /\ p.peak \in Nat
    BY <2>1 DEF Profile
  <2> HIDE DEF s, p
  <2>5. q \in Profile /\ q.score = s /\ q.peak = p.peak
    BY <2>1, <2>2 DEF Profile
  <2> HIDE DEF q
  <2>6. s <= p.peak /\ s <= since[e] /\ ScoreAt(marks'[e], hour) <= p.score
    BY <1>0, <2>1, <2>2, <2>4
  <2>7. CASE e \in es
    BY <2>2, <2>3, <2>5, <2>6, <2>7 DEF s
  <2>8. CASE e \notin es
    BY <2>1, <2>3, <2>6, <2>8 DEF p
  <2> QED
    BY <2>7, <2>8
<1>5. ProfilesInv'
  <2>1. profiles' \in [DOMAIN profiles' -> Profile]
    BY <1>1, <1>4
  <2>2. DOMAIN profiles' \subseteq Entities
    BY <1>1 DEF ProfilesInv
  <2> QED
    BY <1>1, <1>4, <2>1, <2>2 DEF ProfilesInv
<1> QED
  BY <1>1, <1>3, <1>4, <1>5

LEMMA ScorerAdds ==
  ASSUME RiskInv, NEW e \in Entities, NEW t \in EntityTypes, NEW a \in DOMAIN Anomalies,
         AddAnomaly(e, t, a)
  PROVE  MarksInv' /\ ProfilesInv' /\ ListInv'
<1> DEFINE m == [at |-> hour, delta |-> Anomalies[a]]
           h == Append(marks[e], m)
           old == IF e \in DOMAIN profiles THEN profiles[e]
                  ELSE [type |-> "user", score |-> 0, peak |-> 0, alerts |-> 0, kept |-> 0]
           score == ScoreAt(h, hour)
           new == [old EXCEPT !.type = IF verbose /\ score >= AlertAt THEN @ ELSE t,
                              !.score = score, !.peak = Max({@, score}),
                              !.alerts = IF score >= AlertAt THEN @ + 1 ELSE @,
                              !.kept = Min({@ + 1, MaxEvents})]
<1>0. MaxScore \in Nat /\ MaxEvents \in Nat /\ Anomalies[a] \in Nat /\ "user" \in EntityTypes
      /\ LastScoreHour \in Nat
  BY RiskAssumption
<1>1. /\ MarksInv /\ ProfilesInv /\ hour \in 0..LastScoreHour /\ hour' = hour /\ alertList' = {}
      /\ profiles' = [x \in DOMAIN profiles \cup {e} |-> IF x = e THEN new ELSE profiles[x]]
      /\ marks' = [marks EXCEPT ![e] = Trimmed(h)]
      /\ since' = [since EXCEPT ![e] = @ + Anomalies[a]]
  BY DEF RiskInv, ClockInv, AddAnomaly, Score
<1>2. Marked(marks[e], hour) /\ Added(marks[e]) <= since[e] /\ since[e] \in Nat
      /\ Added(marks[e]) \in Nat
  BY <1>1, ScoreBounded DEF MarksInv
<1>3. m \in Mark /\ m.at <= hour /\ m.delta = Anomalies[a]
  BY <1>0, <1>1 DEF Mark
<1> HIDE DEF m
<1>4. Marked(h, hour) /\ Added(h) = Added(marks[e]) + Anomalies[a]
  <2>1. Marked(Append(marks[e], m), hour) /\ Added(Append(marks[e], m)) = Added(marks[e]) + m.delta
    BY <1>1, <1>2, <1>3, AddedAppends
  <2> QED
    BY <1>3, <2>1
<1> HIDE DEF h
<1>5. score \in 0..MaxScore /\ score <= Added(h) /\ Added(h) \in Nat
  BY <1>1, <1>4, ScoreBounded
<1>6. Marked(Trimmed(h), hour) /\ ScoreAt(Trimmed(h), hour) <= score /\ Added(Trimmed(h)) <= Added(h)
  <2> DEFINE K == {i \in DOMAIN h : hour - h[i].at < Week}
  <2>1. K \in SUBSET (1..Len(h)) /\ Trimmed(h) = AtPositions(h, K)
    <3>1. DOMAIN h = 1..Len(h)
      BY <1>4, LenProperties DEF Marked
    <3> QED
      BY <3>1 DEF Trimmed
  <2> HIDE DEF K
  <2> QED
    BY <1>1, <1>4, <2>1, ScoreTrimmed
<1>7. Added(Trimmed(h)) \in Nat
  BY <1>1, <1>6, ScoreBounded
<1>8. since' \in [Entities -> Nat] /\ since'[e] = since[e] + Anomalies[a]
      /\ \A z \in Entities : z # e => since'[z] = since[z]
  BY <1>0, <1>1 DEF MarksInv
<1>9. Added(Trimmed(h)) <= since'[e] /\ score <= since'[e]
  BY <1>0, <1>2, <1>4, <1>5, <1>6, <1>7, <1>8
<1> HIDE DEF score
<1>10. old \in Profile
  BY <1>0, <1>1 DEF ProfilesInv, Profile
<1> HIDE DEF old
<1>11. new \in Profile /\ new.score = score /\ new.score <= new.peak
  <2> DEFINE ty == IF verbose /\ score >= AlertAt THEN old.type ELSE t
             pk == Max({old.peak, score})
             al == IF score >= AlertAt THEN old.alerts + 1 ELSE old.alerts
             kp == Min({old.kept + 1, MaxEvents})
  <2>0. new = [old EXCEPT !.type = ty, !.score = score, !.peak = pk, !.alerts = al, !.kept = kp]
    OBVIOUS
  <2>2. old.peak \in Nat /\ old.type \in EntityTypes /\ old.alerts \in Nat /\ old.kept \in Nat
    BY <1>10 DEF Profile
  <2>3. score \in Nat
    BY <1>0, <1>5
  <2>4. pk = (IF old.peak >= score THEN old.peak ELSE score)
    BY <2>2, <2>3 DEF Max
  <2>5. kp = (IF old.kept + 1 <= MaxEvents THEN old.kept + 1 ELSE MaxEvents)
    BY <1>0, <2>2 DEF Min
  <2>6. pk \in Nat /\ kp \in Nat /\ score <= pk
    BY <1>0, <2>2, <2>3, <2>4, <2>5
  <2>7. ty \in EntityTypes /\ al \in Nat
    BY <2>2
  <2> HIDE DEF ty, pk, al, kp, new
  <2>8. new \in Profile /\ new.score = score /\ new.peak = pk
    BY <1>5, <1>10, <2>0, <2>6, <2>7 DEF Profile
  <2> QED
    BY <2>6, <2>8
<1> HIDE DEF new
<1>12. Trimmed(h) \in Seq(Mark)
  BY <1>6 DEF Marked
<1>13. marks' \in [Entities -> Seq(Mark)] /\ marks'[e] = Trimmed(h)
       /\ \A z \in Entities : z # e => marks'[z] = marks[z]
  BY <1>1, <1>12 DEF MarksInv
<1>14. MarksInv'
  <2>1. ASSUME NEW z \in Entities PROVE Marked(marks'[z], hour) /\ Added(marks'[z]) <= since'[z]
    <3>1. CASE z = e
      BY <1>6, <1>9, <1>13, <3>1
    <3>2. CASE z # e
      <4>1. marks'[z] = marks[z] /\ since'[z] = since[z]
        BY <1>8, <1>13, <3>2
      <4>2. Marked(marks[z], hour) /\ Added(marks[z]) <= since[z]
        BY <1>1 DEF MarksInv
      <4> QED
        BY <4>1, <4>2
    <3> QED
      BY <3>1, <3>2
  <2> QED
    BY <1>1, <1>8, <1>13, <2>1 DEF MarksInv
<1>15. ProfilesInv'
  <2>1. DOMAIN profiles' = DOMAIN profiles \cup {e} /\ DOMAIN profiles \subseteq Entities
    BY <1>1 DEF ProfilesInv
  <2>2. ASSUME NEW z \in DOMAIN profiles'
        PROVE  /\ profiles'[z] \in Profile
               /\ profiles'[z].score <= profiles'[z].peak /\ profiles'[z].score <= since'[z]
               /\ ScoreAt(marks'[z], hour) <= profiles'[z].score
    <3>1. CASE z = e
      <4>1. profiles'[z] = new
        BY <1>1, <3>1
      <4>2. ScoreAt(marks'[e], hour) <= score
        BY <1>6, <1>13
      <4> QED
        BY <1>9, <1>11, <3>1, <4>1, <4>2
    <3>2. CASE z # e
      <4>1. z \in DOMAIN profiles /\ z \in Entities
        BY <2>1, <3>2
      <4>2. profiles'[z] = profiles[z] /\ marks'[z] = marks[z] /\ since'[z] = since[z]
        BY <1>1, <1>8, <1>13, <3>2, <4>1
      <4>3. /\ profiles[z] \in Profile
            /\ profiles[z].score <= profiles[z].peak /\ profiles[z].score <= since[z]
            /\ ScoreAt(marks[z], hour) <= profiles[z].score
        BY <1>1, <4>1 DEF ProfilesInv
      <4> QED
        BY <4>2, <4>3
    <3> QED
      BY <3>1, <3>2
  <2>3. profiles' \in [DOMAIN profiles' -> Profile]
    <3>1. profiles' = [x \in DOMAIN profiles' |-> profiles'[x]]
      BY <1>1
    <3> QED
      BY <2>2, <3>1
  <2>4. DOMAIN profiles' \subseteq Entities
    BY <2>1
  <2> QED
    BY <1>1, <2>2, <2>3, <2>4 DEF ProfilesInv
<1> QED
  BY <1>1, <1>14, <1>15 DEF ListInv

LEMMA ScorerResets ==
  ASSUME RiskInv, NEW e \in Entities, ResetEntity(e) PROVE MarksInv' /\ ProfilesInv' /\ ListInv'
<1>0. MaxScore \in Nat
  BY RiskAssumption
<1>1. /\ MarksInv /\ ProfilesInv /\ hour \in 0..LastScoreHour /\ hour' = hour /\ alertList' = {}
      /\ e \in DOMAIN profiles /\ profiles' = [profiles EXCEPT ![e].score = 0]
      /\ marks' = [marks EXCEPT ![e] = <<>>] /\ since' = [since EXCEPT ![e] = 0]
  BY DEF RiskInv, ClockInv, ResetEntity
<1>2. Marked(<<>>, hour) /\ Added(<<>>) = 0 /\ ScoreAt(<<>>, hour) = 0 /\ <<>> \in Seq(Mark)
  BY <1>1, NothingMarked
<1>3. \A z \in Entities : /\ marks'[z] = IF z = e THEN <<>> ELSE marks[z]
                          /\ since'[z] = IF z = e THEN 0 ELSE since[z]
  BY <1>1 DEF MarksInv
<1>4. marks' \in [Entities -> Seq(Mark)] /\ since' \in [Entities -> Nat]
  BY <1>1, <1>2 DEF MarksInv
<1>5. \A z \in Entities : Marked(marks'[z], hour) /\ Added(marks'[z]) <= since'[z]
  BY <1>1, <1>2, <1>3 DEF MarksInv
<1>6. MarksInv'
  BY <1>1, <1>4, <1>5 DEF MarksInv
<1> DEFINE p == profiles[e]
           q == [p EXCEPT !.score = 0]
<1>7. q \in Profile /\ q.score = 0 /\ q.peak \in Nat
  <2>1. p \in Profile
    BY <1>1 DEF ProfilesInv
  <2> HIDE DEF p
  <2> QED
    BY <1>0, <2>1 DEF Profile
<1>8. DOMAIN profiles' = DOMAIN profiles /\ \A z \in DOMAIN profiles : profiles'[z] = IF z = e THEN q ELSE profiles[z]
  BY <1>1
<1> HIDE DEF q
<1>9. ASSUME NEW z \in DOMAIN profiles
      PROVE  /\ profiles'[z] \in Profile
             /\ profiles'[z].score <= profiles'[z].peak /\ profiles'[z].score <= since'[z]
             /\ ScoreAt(marks'[z], hour) <= profiles'[z].score
  <2>1. z \in Entities
    BY <1>1 DEF ProfilesInv
  <2>2. CASE z = e
    BY <1>2, <1>3, <1>7, <1>8, <2>1, <2>2
  <2>3. CASE z # e
    <3>1. profiles'[z] = profiles[z] /\ marks'[z] = marks[z] /\ since'[z] = since[z]
      BY <1>3, <1>8, <2>1, <2>3
    <3>2. /\ profiles[z] \in Profile
          /\ profiles[z].score <= profiles[z].peak /\ profiles[z].score <= since[z]
          /\ ScoreAt(marks[z], hour) <= profiles[z].score
      BY <1>1 DEF ProfilesInv
    <3> QED
      BY <3>1, <3>2
  <2> QED
    BY <2>2, <2>3
<1>10. ProfilesInv'
  <2>1. profiles' \in [DOMAIN profiles' -> Profile]
    <3>1. profiles' = [x \in DOMAIN profiles' |-> profiles'[x]]
      BY <1>1 DEF ProfilesInv
    <3> QED
      BY <1>8, <1>9, <3>1
  <2>2. DOMAIN profiles' \subseteq Entities
    BY <1>1, <1>8 DEF ProfilesInv
  <2> QED
    BY <1>1, <1>8, <1>9, <2>1, <2>2 DEF ProfilesInv
<1> QED
  BY <1>1, <1>6, <1>10 DEF ListInv

-----------------------------------------------------------------------------
(* Reads and resets leave the engine alone, the engine leaves the scorer.  *)
LEMMA EngineUntouched ==
  ASSUME RiskInv, hour' = hour, posts' \in 0..MaxPosts, UNCHANGED xdrVars
  PROVE  ClockInv' /\ EngineInv'
<1>1. \A e \in Entities : Past(risk[e])'
  BY DEF RiskInv, EngineInv, Past, xdrVars
<1>2. AlertIds(pending)' = AlertIds(pending)
  BY DEF AlertIds, xdrVars
<1> QED
  BY <1>1, <1>2 DEF RiskInv, ClockInv, EngineInv, xdrVars

LEMMA ScorerUntouched ==
  ASSUME RiskInv, hour' = hour, UNCHANGED uebaVars PROVE MarksInv' /\ ProfilesInv' /\ ListInv'
BY DEF RiskInv, MarksInv, ProfilesInv, ListInv, uebaVars

LEMMA ScorerReads ==
  ASSUME RiskInv, NEW es \in SUBSET DOMAIN profiles, Refreshed(es), hour' = hour, since' = since,
         alertList' \subseteq {e \in es : Score(marks[e]) >= AlertAt}
  PROVE  MarksInv' /\ ProfilesInv' /\ ListInv'
<1>1. /\ MarksInv' /\ ProfilesInv' /\ DOMAIN profiles' = DOMAIN profiles
      /\ \A e \in es : profiles'[e].score = ScoreAt(marks[e], hour)
  BY ScorerRefreshes
<1> QED
  BY <1>1 DEF ListInv, Score

LEMMA TopsAreAmong ==
  ASSUME NEW es, NEW n, NEW top \in Tops(es, n)
  PROVE  /\ top \subseteq es /\ Cardinality(top) = Min({n, Cardinality(es)})
         /\ \A a \in top, b \in es \ top : Score(marks[a]) >= Score(marks[b])
BY DEF Tops, kSubset

LEMMA RiskSteps == RiskInv /\ [RiskNext]_riskVars => RiskInv'
<1> SUFFICES ASSUME RiskInv, [RiskNext]_riskVars PROVE RiskInv'
  OBVIOUS
<1>0. posts \in 0..MaxPosts /\ posts + 1 \in Nat /\ MaxPosts \in Nat
      /\ (posts < MaxPosts => posts + 1 \in 0..MaxPosts)
  BY RiskAssumption DEF RiskInv, ClockInv
<1>1. CASE NextHour
  <2>1. ClockInv' /\ EngineInv'
    BY <1>1, HourOfEngine
  <2>2. MarksInv' /\ ProfilesInv' /\ ListInv'
    BY <1>1, HourOfScorer
  <2> QED
    BY <2>1, <2>2 DEF RiskInv
<1>2. ASSUME NEW e \in Entities, NEW x \in RiskEvents, AddRisk(e, x[1], x[2]) PROVE RiskInv'
  <2>1. ClockInv' /\ EngineInv'
    BY <1>2, EngineAdds
  <2>2. hour' = hour /\ UNCHANGED uebaVars
    BY <1>2 DEF AddRisk
  <2>3. MarksInv' /\ ProfilesInv' /\ ListInv'
    BY <2>2, ScorerUntouched
  <2> QED
    BY <2>1, <2>3 DEF RiskInv
<1>3. CASE DrainAlerts
  <2>1. ClockInv' /\ EngineInv'
    BY <1>3, EngineDrains
  <2>2. hour' = hour /\ UNCHANGED uebaVars
    BY <1>3 DEF DrainAlerts
  <2>3. MarksInv' /\ ProfilesInv' /\ ListInv'
    BY <2>2, ScorerUntouched
  <2> QED
    BY <2>1, <2>3 DEF RiskInv
<1>4. ASSUME NEW e \in Entities, NEW t \in EntityTypes, NEW a \in DOMAIN Anomalies, AddAnomaly(e, t, a)
      PROVE  RiskInv'
  <2>1. hour' = hour /\ posts' \in 0..MaxPosts /\ UNCHANGED xdrVars
    BY <1>0, <1>4 DEF AddAnomaly
  <2>2. ClockInv' /\ EngineInv'
    BY <2>1, EngineUntouched
  <2>3. MarksInv' /\ ProfilesInv' /\ ListInv'
    BY <1>4, ScorerAdds
  <2> QED
    BY <2>2, <2>3 DEF RiskInv
<1>5. ASSUME NEW es \in SUBSET DOMAIN profiles, Refreshed(es), UNCHANGED <<hour, posts, xdrVars, since>>,
             alertList' \subseteq {e \in es : Score(marks[e]) >= AlertAt}
      PROVE  RiskInv'
  <2>1. hour' = hour /\ posts' \in 0..MaxPosts /\ UNCHANGED xdrVars /\ since' = since
    BY <1>0, <1>5
  <2>2. ClockInv' /\ EngineInv'
    BY <2>1, EngineUntouched
  <2>3. MarksInv' /\ ProfilesInv' /\ ListInv'
    BY <1>5, <2>1, ScorerReads
  <2> QED
    BY <2>2, <2>3 DEF RiskInv
<1>6. ASSUME NEW e \in Entities, GetProfile(e) PROVE RiskInv'
  <2>1. {e} \in SUBSET DOMAIN profiles /\ Refreshed({e}) /\ UNCHANGED <<hour, posts, xdrVars, since>>
        /\ alertList' = {}
    BY <1>6 DEF GetProfile
  <2> QED
    BY <1>5, <2>1
<1>7. ASSUME NEW t \in EntityTypes, GetTopEntities(t) PROVE RiskInv'
  <2> DEFINE es == {e \in DOMAIN profiles : profiles[e].type = t}
  <2>1. es \in SUBSET DOMAIN profiles /\ Refreshed(es) /\ UNCHANGED <<hour, posts, xdrVars, since>>
        /\ alertList' = {}
    BY <1>7 DEF GetTopEntities
  <2> HIDE DEF es
  <2> QED
    BY <1>5, <2>1
<1>8. CASE GetActiveAlerts
  <2> DEFINE es == DOMAIN profiles
  <2>1. es \in SUBSET DOMAIN profiles /\ Refreshed(es) /\ UNCHANGED <<hour, posts, xdrVars, since>>
    BY <1>8 DEF GetActiveAlerts
  <2>2. PICK top \in Tops(es, TopN) : alertList' = AlertsAmong(top)
    BY <1>8 DEF GetActiveAlerts
  <2>3. alertList' \subseteq {e \in es : Score(marks[e]) >= AlertAt}
    BY <2>2, TopsAreAmong DEF AlertsAmong
  <2> HIDE DEF es
  <2> QED
    BY <1>5, <2>1, <2>3
<1>9. ASSUME NEW e \in Entities, ResetEntity(e) PROVE RiskInv'
  <2>1. hour' = hour /\ posts' \in 0..MaxPosts /\ UNCHANGED xdrVars
    BY <1>0, <1>9 DEF ResetEntity
  <2>2. ClockInv' /\ EngineInv'
    BY <2>1, EngineUntouched
  <2>3. MarksInv' /\ ProfilesInv' /\ ListInv'
    BY <1>9, ScorerResets
  <2> QED
    BY <2>2, <2>3 DEF RiskInv
<1>10. CASE UNCHANGED riskVars
  <2>1. hour' = hour /\ posts' \in 0..MaxPosts /\ UNCHANGED xdrVars /\ UNCHANGED uebaVars
    BY <1>0, <1>10 DEF riskVars, xdrVars, uebaVars
  <2>2. ClockInv' /\ EngineInv'
    BY <2>1, EngineUntouched
  <2>3. MarksInv' /\ ProfilesInv' /\ ListInv'
    BY <2>1, ScorerUntouched
  <2> QED
    BY <2>2, <2>3 DEF RiskInv
<1> QED
  BY <1>1, <1>2, <1>3, <1>4, <1>6, <1>7, <1>8, <1>9, <1>10 DEF RiskNext, EngineNext, ScorerNext, Acknowledge

LEMMA RiskInvHolds ==
  /\ RiskSpec => []RiskInv
  /\ RiskInv => RiskSound
<1>1. RiskSpec => []RiskInv
  BY RiskStarts, RiskSteps, PTL DEF RiskSpec
<1>2. ASSUME RiskInv PROVE RiskSound
  <2>1. hour \in 0..LastScoreHour
    BY <1>2 DEF RiskInv, ClockInv
  <2>2. RiskTypeOK
    <3>1. \A e \in DOMAIN profiles : profiles[e].score \in 0..MaxScore /\ profiles[e].type \in EntityTypes
      BY <1>2 DEF RiskInv, ProfilesInv, Profile
    <3> QED
      BY <1>2, <3>1 DEF RiskInv, ClockInv, ProfilesInv, ListInv, RiskTypeOK
  <2>3. AlertsHandedOverOnce
    <3>1. ASSUME NEW e \in Entities
          PROVE  Scored(risk[e]) < 2 * TypeCap * Cardinality({x.type : x \in Range(risk[e])}) + 1
      <4> DEFINE h == risk[e]
      <4>1. h \in Seq(Event) /\ Past(h)
        BY <1>2 DEF RiskInv, EngineInv
      <4> HIDE DEF h
      <4>2. Scored(h) < 2 * TypeCap * Cardinality({x.type : x \in Range(h)}) + 1
        BY <2>1, <4>1, ScoredBounded
      <4> QED
        BY <4>2 DEF h
    <3>2. drained \o AlertIds(pending) = [n \in 1..raised |-> n]
      BY <1>2 DEF RiskInv, EngineInv
    <3> QED
      BY <3>1, <3>2 DEF AlertsHandedOverOnce
  <2>4. ScoresAreCurrent
    BY <1>2 DEF RiskInv, ProfilesInv, ListInv, ScoresAreCurrent, Score, IsAlert
  <2> QED
    BY <2>2, <2>3, <2>4 DEF RiskSound
<1> QED
  BY <1>1, <1>2

(* RiskSound: every alert is handed over once and in order, no type of     *)
(* event counts more than twice its cap, scores are current and listed     *)
(* alerts are alerts (risk_engine.py, entity_scoring.py).                  *)
THEOREM RiskIsAlwaysSound == RiskSpec => []RiskSound
BY RiskInvHolds, PTL

(* AlertsAreListed: whoever scores at the threshold is in the answer, or   *)
(* TopN others score as much (get_active_alerts).                          *)
THEOREM AlertsAreAlwaysListed == RiskSpec => AlertsAreListed
<1> DEFINE IsListed(e) ==
             Score(marks[e]) >= AlertAt =>
               \/ e \in alertList'
               \/ Cardinality({x \in DOMAIN profiles \ {e} : Score(marks[x]) >= Score(marks[e])}) >= TopN
           A == GetActiveAlerts => \A e \in DOMAIN profiles : IsListed(e)
<1>1. ASSUME RiskInv, GetActiveAlerts, NEW e \in DOMAIN profiles, Score(marks[e]) >= AlertAt,
             e \notin alertList'
      PROVE  Cardinality({x \in DOMAIN profiles \ {e} : Score(marks[x]) >= Score(marks[e])}) >= TopN
  <2> DEFINE es == DOMAIN profiles
             above == {x \in es \ {e} : Score(marks[x]) >= Score(marks[e])}
  <2>1. PICK top \in Tops(es, TopN) : alertList' = AlertsAmong(top)
    BY <1>1 DEF GetActiveAlerts
  <2>2. /\ top \subseteq es /\ Cardinality(top) = Min({TopN, Cardinality(es)})
        /\ \A a \in top, b \in es \ top : Score(marks[a]) >= Score(marks[b])
    BY TopsAreAmong
  <2>3. e \notin top
    BY <1>1, <2>1 DEF AlertsAmong
  <2>4. IsFiniteSet(es) /\ Cardinality(es) \in Nat /\ IsFiniteSet(above) /\ TopN \in Nat
        /\ Cardinality(above) \in Nat
    <3>1. IsFiniteSet(es)
      BY <1>1, FS_Subset, RiskAssumption DEF RiskInv, ProfilesInv
    <3>2. above \subseteq es
      OBVIOUS
    <3> HIDE DEF es, above
    <3> QED
      BY <3>1, <3>2, FS_Subset, FS_CardinalityType, RiskAssumption
  <2>5. top \subseteq above
    BY <2>2, <2>3
  <2>6. top # es
    BY <2>3
  <2> HIDE DEF es, above
  <2>7. Cardinality(top) \in Nat /\ Cardinality(top) <= Cardinality(above) /\ Cardinality(top) # Cardinality(es)
    BY <2>2, <2>4, <2>5, <2>6, FS_Subset, FS_CardinalityType
  <2>8. Min({TopN, Cardinality(es)}) = IF TopN <= Cardinality(es) THEN TopN ELSE Cardinality(es)
    BY <2>4 DEF Min
  <2>9. Cardinality(above) >= TopN
    BY <2>2, <2>4, <2>7, <2>8
  <2> QED
    BY <2>9 DEF es, above
<1>2. RiskInv /\ [RiskNext]_riskVars => [A]_riskVars
  BY <1>1
<1>3. RiskSpec => []RiskInv
  BY RiskInvHolds
<1>4. RiskSpec => [][A]_riskVars
  BY <1>2, <1>3, PTL DEF RiskSpec
<1> QED
  BY <1>4, PTL DEF AlertsAreListed

-----------------------------------------------------------------------------
(* XdrCorrelation.                                                         *)

(* An event of the builder, a chain, and a sequence in order of time.      *)
Sighting == [n : Nat, src : EventSources, type : DOMAIN Phase, at : Nat, when : Nat]

InTime(es) == \A i, j \in 1..Len(es) : i < j => es[i].at <= es[j].at

Older(es, fs) == \A i \in 1..Len(es), j \in 1..Len(fs) : es[i].at <= fs[j].at

LEMMA ElementsInRange ==
  ASSUME NEW S, NEW s \in Seq(S)
  PROVE  /\ Range(s) \subseteq S /\ Range(s) = ToSet(s) /\ DOMAIN s = 1..Len(s) /\ Len(s) \in Nat
         /\ \A x : x \in Range(s) <=> \E i \in 1..Len(s) : s[i] = x
BY LenProperties, ElementOfSeq DEF Range, ToSet

(* What is kept of a sequence.                                             *)
LEMMA KeptInTime ==
  ASSUME NEW S, NEW es \in Seq(S), NEW K \in SUBSET (1..Len(es)), NEW u, u = AtPositions(es, K)
  PROVE  /\ u \in Seq(S) /\ Range(u) \subseteq Range(es)
         /\ \A x : x \in Range(u) <=> \E i \in K : es[i] = x
         /\ InTime(es) => InTime(u)
<1>1. u \in Seq(S)
  BY PlacesKept
<1>2. PICK p \in [1..Len(u) -> K] :
        /\ \A n \in 1..Len(u) : u[n] = es[p[n]]
        /\ \A m, n \in 1..Len(u) : m < n => p[m] < p[n]
        /\ \A i \in K : \E n \in 1..Len(u) : p[n] = i
  BY PlacesKept
<1>3. \A x : x \in Range(u) <=> \E n \in 1..Len(u) : u[n] = x
  BY <1>1, ElementsInRange
<1>4. \A x : x \in Range(es) <=> \E n \in 1..Len(es) : es[n] = x
  BY ElementsInRange
<1>5. \A n \in 1..Len(u) : p[n] \in K /\ p[n] \in 1..Len(es)
  BY <1>2
<1>6. \A x : x \in Range(u) <=> \E i \in K : es[i] = x
  BY <1>2, <1>3, <1>5
<1>7. Range(u) \subseteq Range(es)
  BY <1>4, <1>6
<1>8. ASSUME InTime(es), NEW i \in 1..Len(u), NEW j \in 1..Len(u), i < j PROVE u[i].at <= u[j].at
  <2>1. p[i] \in 1..Len(es) /\ p[j] \in 1..Len(es) /\ p[i] < p[j]
    BY <1>2, <1>5, <1>8
  <2>2. es[p[i]].at <= es[p[j]].at
    BY <1>8, <2>1 DEF InTime
  <2> QED
    BY <1>2, <2>2
<1> QED
  BY <1>1, <1>6, <1>7, <1>8 DEF InTime

LEMMA ConcatInTime ==
  ASSUME NEW S, NEW u \in Seq(S), NEW v \in Seq(S), InTime(u), InTime(v), Older(u, v)
  PROVE  u \o v \in Seq(S) /\ InTime(u \o v) /\ Range(u \o v) = Range(u) \cup Range(v)
<1>1. /\ u \o v \in Seq(S) /\ Len(u \o v) = Len(u) + Len(v) /\ Len(u) \in Nat /\ Len(v) \in Nat
      /\ \A i \in 1..(Len(u) + Len(v)) : (u \o v)[i] = IF i <= Len(u) THEN u[i] ELSE v[i - Len(u)]
  BY ConcatProperties, LenProperties
<1> DEFINE w == u \o v
<1>2. ASSUME NEW i \in 1..Len(w), NEW j \in 1..Len(w), i < j PROVE w[i].at <= w[j].at
  <2>1. w[i] = (IF i <= Len(u) THEN u[i] ELSE v[i - Len(u)])
        /\ w[j] = (IF j <= Len(u) THEN u[j] ELSE v[j - Len(u)])
    BY <1>1
  <2> HIDE DEF w
  <2>2. CASE j <= Len(u)
    <3>1. i \in 1..Len(u) /\ j \in 1..Len(u)
      BY <1>1, <1>2, <2>2
    <3> QED
      BY <1>2, <2>1, <2>2, <3>1 DEF InTime
  <2>3. CASE i > Len(u)
    <3>1. i - Len(u) \in 1..Len(v) /\ j - Len(u) \in 1..Len(v) /\ i - Len(u) < j - Len(u)
          /\ ~ (i <= Len(u)) /\ ~ (j <= Len(u))
      BY <1>1, <1>2, <2>3 DEF w
    <3> QED
      BY <2>1, <3>1 DEF InTime
  <2>4. CASE i <= Len(u) /\ j > Len(u)
    <3>1. i \in 1..Len(u) /\ j - Len(u) \in 1..Len(v) /\ ~ (j <= Len(u))
      BY <1>1, <1>2, <2>4 DEF w
    <3> QED
      BY <2>1, <2>4, <3>1 DEF Older
  <2> QED
    BY <1>1, <2>2, <2>3, <2>4 DEF w
<1>3. Range(w) = Range(u) \cup Range(v)
  <2>1. ToSet(w) = ToSet(u) \cup ToSet(v)
    BY ElementsOfConcat
  <2>2. Range(w) = ToSet(w) /\ Range(u) = ToSet(u) /\ Range(v) = ToSet(v)
    <3>1. w \in Seq(S)
      BY <1>1
    <3> HIDE DEF w
    <3> QED
      BY <3>1, ElementsInRange
  <2> QED
    BY <2>1, <2>2
<1> QED
  BY <1>1, <1>2, <1>3 DEF InTime

LEMMA AppendInTime ==
  ASSUME NEW S, NEW u \in Seq(S), NEW e \in S, InTime(u), \A i \in 1..Len(u) : u[i].at <= e.at
  PROVE  Append(u, e) \in Seq(S) /\ InTime(Append(u, e)) /\ Range(Append(u, e)) = Range(u) \cup {e}
<1> DEFINE w == Append(u, e)
           n == Len(u)
<1>1. w \in Seq(S) /\ Len(w) = n + 1 /\ w[n + 1] = e /\ (\A i \in 1..n : w[i] = u[i]) /\ n \in Nat
  BY AppendProperties, LenProperties
<1>2. Range(w) = Range(u) \cup {e}
  <2>1. ToSet(w) = ToSet(u) \cup {e}
    BY ElementsOfAppend
  <2>2. Range(w) = ToSet(w) /\ Range(u) = ToSet(u)
    <3> HIDE DEF w
    <3> QED
      BY <1>1, ElementsInRange
  <2> QED
    BY <2>1, <2>2
<1> HIDE DEF w
<1>3. ASSUME NEW i \in 1..Len(w), NEW j \in 1..Len(w), i < j PROVE w[i].at <= w[j].at
  <2>1. i \in 1..n /\ (j \in 1..n \/ j = n + 1)
    BY <1>1, <1>3
  <2> QED
    BY <1>1, <1>3, <2>1 DEF InTime
<1>4. InTime(w)
  BY <1>3 DEF InTime
<1> QED
  BY <1>1, <1>2, <1>4 DEF w

(* list.sort: the event finds its place.                                   *)
LEMMA SortedIn ==
  ASSUME NEW es \in Seq(Sighting), NEW e \in Sighting, InTime(es)
  PROVE  /\ PutInOrder(es, e) \in Seq(Sighting) /\ InTime(PutInOrder(es, e))
         /\ Range(PutInOrder(es, e)) = Range(es) \cup {e}
<1> DEFINE K == {i \in DOMAIN es : es[i].at <= e.at}
           L == DOMAIN es \ K
           u == AtPositions(es, K)
           v == AtPositions(es, L)
           w == Append(u, e)
<1>1. DOMAIN es = 1..Len(es) /\ Len(es) \in Nat /\ \A i \in 1..Len(es) : es[i] \in Sighting /\ es[i].at \in Nat
  <2>1. \A i \in 1..Len(es) : es[i] \in Sighting
    BY ElementOfSeq
  <2> QED
    BY <2>1, LenProperties DEF Sighting
<1>2. K \in SUBSET (1..Len(es)) /\ L \in SUBSET (1..Len(es)) /\ K \cup L = 1..Len(es)
      /\ (\A i \in K : es[i].at <= e.at) /\ (\A i \in L : e.at <= es[i].at) /\ e.at \in Nat
  BY <1>1 DEF Sighting
<1>0. PutInOrder(es, e) = w \o v
  BY DEF PutInOrder
<1> HIDE DEF K, L, u, v, w
<1>3. /\ u \in Seq(Sighting) /\ InTime(u) /\ \A x : x \in Range(u) <=> \E i \in K : es[i] = x
      /\ v \in Seq(Sighting) /\ InTime(v) /\ \A x : x \in Range(v) <=> \E i \in L : es[i] = x
  BY <1>2, KeptInTime DEF u, v
<1>4. (\A i \in 1..Len(u) : u[i].at <= e.at) /\ (\A j \in 1..Len(v) : e.at <= v[j].at)
  <2>1. (\A i \in 1..Len(u) : u[i] \in Range(u)) /\ (\A j \in 1..Len(v) : v[j] \in Range(v))
    BY <1>3, ElementsInRange
  <2> QED
    BY <1>2, <1>3, <2>1
<1>5. w \in Seq(Sighting) /\ InTime(w) /\ Range(w) = Range(u) \cup {e}
  BY <1>3, <1>4, AppendInTime DEF w
<1>6. Older(w, v)
  <2>1. ASSUME NEW i \in 1..Len(w), NEW j \in 1..Len(v) PROVE w[i].at <= v[j].at
    <3>1. w[i] \in Range(w)
      BY <1>5, ElementsInRange
    <3>2. w[i].at <= e.at /\ w[i].at \in Nat
      <4>1. CASE w[i] = e
        BY <1>2, <4>1
      <4>2. CASE w[i] \in Range(u)
        BY <1>1, <1>2, <1>3, <4>2
      <4> QED
        BY <1>5, <3>1, <4>1, <4>2
    <3>3. v[j] \in Sighting /\ v[j].at \in Nat
      <4>1. v[j] \in Sighting
        BY <1>3, ElementOfSeq
      <4> QED
        BY <4>1 DEF Sighting
    <3> QED
      BY <1>2, <1>4, <3>2, <3>3
  <2> QED
    BY <2>1 DEF Older
<1>7. w \o v \in Seq(Sighting) /\ InTime(w \o v) /\ Range(w \o v) = Range(w) \cup Range(v)
  BY <1>3, <1>5, <1>6, ConcatInTime
<1>8. Range(u) \cup Range(v) = Range(es)
  <2>1. \A x : x \in Range(es) <=> \E i \in 1..Len(es) : es[i] = x
    BY ElementsInRange
  <2> QED
    BY <1>2, <1>3, <2>1
<1>9. Range(w \o v) = Range(es) \cup {e}
  BY <1>5, <1>7, <1>8
<1> QED
  BY <1>0, <1>7, <1>9

-----------------------------------------------------------------------------
(* The window.                                                             *)
LEMMA InsideKeeps ==
  ASSUME NEW S, NEW es \in Seq(S), NEW w
  PROVE  /\ Inside(es, w) \in Seq(S)
         /\ InTime(es) => InTime(Inside(es, w))
         /\ \A x : x \in Range(Inside(es, w)) <=> x \in Range(es) /\ x.at + w > minute + MaxLate
<1> DEFINE K == {i \in DOMAIN es : es[i].at + w > minute + MaxLate}
           u == Inside(es, w)
<1>1. DOMAIN es = 1..Len(es)
  BY LenProperties
<1>2. K \in SUBSET (1..Len(es)) /\ \A i \in 1..Len(es) : i \in K <=> es[i].at + w > minute + MaxLate
  BY <1>1
<1>3. u = AtPositions(es, K)
  BY DEF Inside
<1> HIDE DEF K, u
<1>4. u \in Seq(S) /\ (InTime(es) => InTime(u)) /\ \A x : x \in Range(u) <=> \E i \in K : es[i] = x
  BY <1>2, <1>3, KeptInTime
<1>5. \A x : x \in Range(es) <=> \E i \in 1..Len(es) : es[i] = x
  BY ElementsInRange
<1>6. \A x : x \in Range(u) <=> x \in Range(es) /\ x.at + w > minute + MaxLate
  BY <1>2, <1>4, <1>5
<1> QED
  BY <1>4, <1>6 DEF u

(* The inductive invariant of the builder: who is still in the window      *)
(* waits under its address.                                                *)
Chain == [id : EventSources \X Nat, events : Seq(Sighting)]

MinuteInv == minute \in 0..LastMinute

ArrivedInv == arrived \in Seq(Sighting) /\ \A j \in 1..Len(arrived) : arrived[j].n = j

WaitingInv ==
  /\ DOMAIN waiting \subseteq EventSources /\ waiting \in [DOMAIN waiting -> Seq(Sighting)]
  /\ \A k \in DOMAIN waiting : /\ InTime(waiting[k])
                               /\ \A x \in Range(waiting[k]) : x \in Range(arrived) /\ x.src = k

KeptInv ==
  \A x \in Range(arrived) :
    x.at + ChainWindow > minute + MaxLate => x.src \in DOMAIN waiting /\ x \in Range(waiting[x.src])

(* A chain in order, with the event that completed it.                     *)
InOrderOfTime(c) ==
  /\ \A i \in 1..(Len(c.events) - 1) : c.events[i].at <= c.events[i + 1].at
  /\ LET last == CHOOSE e \in Range(c.events) : \A x \in Range(c.events) : x.n <= e.n
     IN  \A e \in Range(c.events) \ {last} : e.at + ChainWindow > last.when

Linked(a, b) ==
  /\ a.src = b.src /\ a.at + ChainWindow > b.when
  /\ Phase[a.type] # Phase[b.type] /\ NoPhase \notin {Phase[a.type], Phase[b.type]}

ChainsInv ==
  /\ chains \in Seq(Chain)
  /\ \A c \in Range(chains) : InOrderOfTime(c)
  /\ \A j \in 1..Len(arrived) : \A i \in 1..(j - 1) :
       Linked(arrived[i], arrived[j]) => \E c \in Range(chains) : Holds(c.events, arrived[i], arrived[j])

BuilderInv == MinuteInv /\ ArrivedInv /\ WaitingInv /\ KeptInv /\ ChainsInv

LEMMA BuilderStarts == XdrInit => BuilderInv
<1> SUFFICES ASSUME XdrInit PROVE BuilderInv
  OBVIOUS
<1>1. Range(<<>>) = {} /\ Len(<<>>) = 0 /\ DOMAIN <<>> = {}
  BY DEF Range
<1>2. minute \in 0..LastMinute
  BY XdrAssumption DEF XdrInit
<1>3. waiting \in [DOMAIN waiting -> Seq(Sighting)]
  BY DEF XdrInit
<1> QED
  BY <1>1, <1>2, <1>3 DEF XdrInit, BuilderInv, MinuteInv, ArrivedInv, WaitingInv, KeptInv, ChainsInv

LEMMA BuilderMinute == ASSUME BuilderInv, NextMinute PROVE BuilderInv'
<1>1. MinuteInv'
  BY XdrAssumption DEF BuilderInv, MinuteInv, NextMinute
<1>2. UNCHANGED <<waiting, chains, arrived>> /\ minute' = minute + 1 /\ minute \in Nat
  BY XdrAssumption DEF BuilderInv, MinuteInv, NextMinute, builderVars
<1>3. ArrivedInv' /\ WaitingInv' /\ ChainsInv'
  BY <1>2 DEF BuilderInv, ArrivedInv, WaitingInv, ChainsInv, InOrderOfTime, Linked, Holds
<1>4. ASSUME NEW x \in Range(arrived), x.at + ChainWindow > minute' + MaxLate
      PROVE  x.at + ChainWindow > minute + MaxLate
  <2>1. x.at \in Nat
    <3>1. Range(arrived) \subseteq Sighting
      BY ElementsInRange DEF BuilderInv, ArrivedInv
    <3> QED
      BY <3>1 DEF Sighting
  <2> QED
    BY <1>2, <1>4, <2>1, XdrAssumption
<1>5. KeptInv'
  BY <1>2, <1>4 DEF BuilderInv, KeptInv
<1> QED
  BY <1>1, <1>3, <1>5 DEF BuilderInv

LEMMA BuilderClears == ASSUME BuilderInv, ClearOldPending PROVE BuilderInv'
<1> DEFINE D == {k \in DOMAIN waiting : Inside(waiting[k], ChainWindow) # <<>>}
<1>1. /\ minute' = minute /\ chains' = chains /\ arrived' = arrived
      /\ waiting' = [k \in D |-> Inside(waiting[k], ChainWindow)]
  BY DEF ClearOldPending
<1>2. MinuteInv' /\ ArrivedInv' /\ ChainsInv'
  <2>1. UNCHANGED <<minute, chains, arrived>>
    BY <1>1
  <2> HIDE DEF D
  <2>2. MinuteInv' /\ ArrivedInv'
    BY <2>1 DEF BuilderInv, MinuteInv, ArrivedInv
  <2>3. ChainsInv'
    BY <2>1 DEF BuilderInv, ChainsInv, InOrderOfTime, Linked, Holds
  <2> QED
    BY <2>2, <2>3
<1>3. ASSUME NEW k \in DOMAIN waiting
      PROVE  /\ Inside(waiting[k], ChainWindow) \in Seq(Sighting) /\ InTime(Inside(waiting[k], ChainWindow))
             /\ \A x : x \in Range(Inside(waiting[k], ChainWindow)) <=>
                         x \in Range(waiting[k]) /\ x.at + ChainWindow > minute + MaxLate
  <2> DEFINE h == waiting[k]
  <2>1. h \in Seq(Sighting) /\ InTime(h)
    BY DEF BuilderInv, WaitingInv
  <2> HIDE DEF h
  <2> QED
    BY <2>1, InsideKeeps DEF h
<1>4. DOMAIN waiting' = D /\ \A k \in D : k \in DOMAIN waiting /\ waiting'[k] = Inside(waiting[k], ChainWindow)
  BY <1>1
<1>5. WaitingInv'
  <2>1. waiting' \in [DOMAIN waiting' -> Seq(Sighting)]
    BY <1>1, <1>3
  <2>2. \A k \in D : k \in EventSources /\ InTime(waiting'[k])
                     /\ \A x \in Range(waiting'[k]) : x \in Range(arrived) /\ x.src = k
    BY <1>3, <1>4 DEF BuilderInv, WaitingInv
  <2> HIDE DEF D
  <2> QED
    BY <1>1, <1>4, <2>1, <2>2 DEF WaitingInv
<1>6. KeptInv'
  <2>1. SUFFICES ASSUME NEW x \in Range(arrived), x.at + ChainWindow > minute + MaxLate
                 PROVE  x.src \in DOMAIN waiting' /\ x \in Range(waiting'[x.src])
    BY <1>1 DEF KeptInv
  <2>2. x.src \in DOMAIN waiting /\ x \in Range(waiting[x.src])
    BY <2>1 DEF BuilderInv, KeptInv
  <2>3. x \in Range(Inside(waiting[x.src], ChainWindow))
    BY <1>3, <2>1, <2>2
  <2>4. Inside(waiting[x.src], ChainWindow) # <<>>
    BY <2>3 DEF Range
  <2> QED
    BY <1>4, <2>2, <2>3, <2>4
<1> QED
  BY <1>2, <1>5, <1>6 DEF BuilderInv

(* What a chain says of the events it was built from: they came before the *)
(* one that completed it, and were in the window then.                     *)
LEMMA ChainIsInOrder ==
  ASSUME NEW es \in Seq(Sighting), InTime(es), NEW e \in Sighting, e \in Range(es),
         \A x \in Range(es) : x = e \/ (x.n < e.n /\ x.at + ChainWindow > e.when),
         NEW c, c.events = es
  PROVE  InOrderOfTime(c)
<1>1. \A i \in 1..(Len(es) - 1) : es[i].at <= es[i + 1].at
  <2>1. Len(es) \in Nat
    BY LenProperties
  <2>2. \A i \in 1..(Len(es) - 1) : i \in 1..Len(es) /\ i + 1 \in 1..Len(es) /\ i < i + 1
    BY <2>1
  <2> QED
    BY <2>2 DEF InTime
<1> DEFINE last == CHOOSE y \in Range(es) : \A x \in Range(es) : x.n <= y.n
<1>2. Range(es) \subseteq Sighting
  BY ElementsInRange
<1>3. \A x \in Range(es) : x.n \in Nat /\ x.n <= e.n
  <2>1. \A x \in Range(es) : x.n \in Nat
    BY <1>2 DEF Sighting
  <2> QED
    BY <2>1
<1>4. last \in Range(es) /\ \A x \in Range(es) : x.n <= last.n
  BY <1>3
<1> HIDE DEF last
<1>5. last = e
  <2>1. last = e \/ last.n < e.n
    BY <1>4
  <2>2. e.n <= last.n /\ e.n \in Nat /\ last.n \in Nat
    BY <1>3, <1>4
  <2> QED
    BY <2>1, <2>2
<1>6. \A x \in Range(es) \ {last} : x.at + ChainWindow > last.when
  BY <1>5
<1> QED
  BY <1>1, <1>6 DEF InOrderOfTime, last

LEMMA TwoPhases ==
  ASSUME NEW es \in Seq(Sighting), NEW a \in Range(es), NEW b \in Range(es), a # b,
         Phase[a.type] # Phase[b.type], NoPhase \notin {Phase[a.type], Phase[b.type]}
  PROVE  Len(es) >= 2 /\ Cardinality(PhasesOf(es)) >= 2
<1>1. /\ DOMAIN es = 1..Len(es) /\ Len(es) \in Nat
      /\ \A x : x \in Range(es) <=> \E i \in 1..Len(es) : es[i] = x
  BY ElementsInRange
<1>2. PICK i \in 1..Len(es), j \in 1..Len(es) : es[i] = a /\ es[j] = b
  BY <1>1
<1>3. Len(es) >= 2
  BY <1>1, <1>2
<1> DEFINE P == PhasesOf(es)
           two == {Phase[a.type], Phase[b.type]}
           f == [k \in 1..Len(es) |-> Phase[es[k].type]]
           I == {Phase[x.type] : x \in Range(es)}
<1>4. IsFiniteSet(I)
  <2>1. f \in Surjection(1..Len(es), I)
    BY <1>1 DEF Surjection
  <2>2. IsFiniteSet(1..Len(es))
    BY <1>1, FS_Interval, 1 \in Int
  <2> HIDE DEF f, I
  <2> QED
    BY <2>1, <2>2, FS_Surjection
<1>5. P \subseteq I /\ two \subseteq P
  BY DEF PhasesOf
<1>6. Cardinality(two) = 2
  <2> DEFINE x == Phase[a.type]
             y == Phase[b.type]
  <2>1. Cardinality({x}) = 1 /\ IsFiniteSet({x})
    BY FS_Singleton
  <2>2. Cardinality({x} \cup {y}) = Cardinality({x}) + 1
    BY <2>1, FS_AddElement
  <2>3. two = {x} \cup {y}
    OBVIOUS
  <2> QED
    BY <2>1, <2>2, <2>3
<1> HIDE DEF P, two, I
<1>7. IsFiniteSet(P) /\ Cardinality(two) <= Cardinality(P) /\ Cardinality(P) \in Nat
  BY <1>4, <1>5, FS_Subset, FS_CardinalityType
<1>8. Cardinality(P) >= 2
  BY <1>6, <1>7
<1> QED
  BY <1>3, <1>8 DEF P

LEMMA BuilderIngests ==
  ASSUME BuilderInv, NEW src \in EventSources, NEW type \in DOMAIN Phase, NEW late \in 0..MaxLate,
         IngestEvent(src, type, late)
  PROVE  BuilderInv'
<1> DEFINE e == [n |-> Len(arrived) + 1, src |-> src, type |-> type,
                 at |-> minute + MaxLate - late, when |-> minute + MaxLate]
           old == ValueOf(waiting, src)
           ins == Inside(old, ChainWindow)
           es == PutInOrder(ins, e)
           chain == ChainOf(src, es)
           N == Len(arrived)
<1>0. /\ ChainWindow \in Nat /\ MaxLate \in Nat /\ LastMinute \in Nat /\ minute \in Nat
      /\ MinuteInv /\ ArrivedInv /\ WaitingInv /\ KeptInv /\ ChainsInv
  BY XdrAssumption DEF BuilderInv, MinuteInv
<1>1. /\ arrived' = Append(arrived, e) /\ waiting' = Put(waiting, src, es)
      /\ chains' = chains \o chain /\ minute' = minute
  BY DEF IngestEvent, Staying
<1>2. arrived \in Seq(Sighting) /\ N \in Nat /\ \A j \in 1..N : arrived[j].n = j
  BY <1>0, LenProperties DEF ArrivedInv
<1>3. e \in Sighting /\ e.n = N + 1 /\ e.src = src /\ e.when = minute + MaxLate /\ e.type = type
  BY <1>0, <1>2 DEF Sighting
<1> HIDE DEF e
<1>4. /\ arrived' \in Seq(Sighting) /\ Len(arrived') = N + 1 /\ arrived'[N + 1] = e
      /\ \A j \in 1..N : arrived'[j] = arrived[j]
  BY <1>1, <1>2, <1>3, AppendProperties
<1>5. Range(arrived') = Range(arrived) \cup {e}
  <2>1. ToSet(Append(arrived, e)) = ToSet(arrived) \cup {e}
    BY <1>2, <1>3, ElementsOfAppend
  <2>2. Range(arrived') = ToSet(arrived') /\ Range(arrived) = ToSet(arrived)
    BY <1>2, <1>4, ElementsInRange
  <2> QED
    BY <1>1, <2>1, <2>2
<1>6. ArrivedInv'
  <2>1. \A j \in 1..(N + 1) : j \in 1..N \/ j = N + 1
    BY <1>2
  <2> QED
    BY <1>2, <1>3, <1>4, <2>1 DEF ArrivedInv
<1>7. /\ old \in Seq(Sighting) /\ InTime(old)
      /\ \A x \in Range(old) : x \in Range(arrived) /\ x.src = src
      /\ src \in DOMAIN waiting => old = waiting[src]
  <2>1. CASE src \in DOMAIN waiting
    BY <1>0, <2>1 DEF WaitingInv, ValueOf
  <2>2. CASE src \notin DOMAIN waiting
    <3>1. old = <<>>
      BY <2>2 DEF ValueOf
    <3> QED
      BY <2>2, <3>1 DEF InTime, Range
  <2> QED
    BY <2>1, <2>2
<1> HIDE DEF old
<1>8. /\ ins \in Seq(Sighting) /\ InTime(ins)
      /\ \A x : x \in Range(ins) <=> x \in Range(old) /\ x.at + ChainWindow > minute + MaxLate
  BY <1>7, InsideKeeps
<1> HIDE DEF ins
<1>9. es \in Seq(Sighting) /\ InTime(es) /\ Range(es) = Range(ins) \cup {e}
  BY <1>3, <1>8, SortedIn
<1> HIDE DEF es
<1>10. \A x \in Range(arrived) : x.n \in 1..N /\ x \in Sighting
  BY <1>2, ElementsInRange
<1>11. \A x \in Range(es) : x = e \/ (x.n < e.n /\ x.at + ChainWindow > e.when)
  <2>1. \A x \in Range(ins) : x.n < e.n /\ x.at + ChainWindow > e.when
    BY <1>2, <1>3, <1>7, <1>8, <1>10
  <2> QED
    BY <1>9, <2>1
<1>12. \A k : k \in DOMAIN waiting' <=> k \in DOMAIN waiting \/ k = src
  BY <1>1 DEF Put
<1>13. \A k \in DOMAIN waiting' : waiting'[k] = IF k = src THEN es ELSE waiting[k]
  BY <1>1 DEF Put
<1>14. WaitingInv'
  <2>1. waiting' = [k \in DOMAIN waiting' |-> waiting'[k]]
    BY <1>1 DEF Put
  <2>2. ASSUME NEW k \in DOMAIN waiting'
        PROVE  /\ k \in EventSources /\ waiting'[k] \in Seq(Sighting) /\ InTime(waiting'[k])
               /\ \A x \in Range(waiting'[k]) : x \in Range(arrived') /\ x.src = k
    <3>1. CASE k = src
      <4>1. waiting'[k] = es
        BY <1>13, <3>1
      <4>2. \A x \in Range(es) : x \in Range(arrived') /\ x.src = src
        BY <1>3, <1>5, <1>7, <1>8, <1>9
      <4> QED
        BY <1>9, <3>1, <4>1, <4>2
    <3>2. CASE k # src
      <4>1. k \in DOMAIN waiting /\ waiting'[k] = waiting[k]
        BY <1>12, <1>13, <3>2
      <4> QED
        BY <1>0, <1>5, <4>1 DEF WaitingInv
    <3> QED
      BY <3>1, <3>2
  <2>3. waiting' \in [DOMAIN waiting' -> Seq(Sighting)]
    BY <2>1, <2>2
  <2> QED
    BY <2>2, <2>3 DEF WaitingInv
<1>15. KeptInv'
  <2>1. SUFFICES ASSUME NEW x \in Range(arrived'), x.at + ChainWindow > minute + MaxLate
                 PROVE  x.src \in DOMAIN waiting' /\ x \in Range(waiting'[x.src])
    BY <1>1 DEF KeptInv
  <2>2. CASE x = e
    BY <1>3, <1>9, <1>12, <1>13, <2>2
  <2>3. CASE x \in Range(arrived)
    <3>1. x.src \in DOMAIN waiting /\ x \in Range(waiting[x.src])
      BY <1>0, <2>1, <2>3 DEF KeptInv
    <3>2. CASE x.src = src
      <4>1. x \in Range(ins)
        BY <1>7, <1>8, <2>1, <3>1, <3>2
      <4> QED
        BY <1>9, <1>12, <1>13, <3>2, <4>1
    <3>3. CASE x.src # src
      BY <1>12, <1>13, <3>1, <3>3
    <3> QED
      BY <3>2, <3>3
  <2> QED
    BY <1>5, <2>2, <2>3
<1>16. chain \in Seq(Chain) /\ \A c \in Range(chain) : InOrderOfTime(c)
  <2> DEFINE c == [id |-> <<src, es[1].at>>, events |-> es]
  <2>1. CASE chain = <<>>
    BY <2>1 DEF Range
  <2>2. CASE chain # <<>>
    <3>1. chain = <<c>> /\ Len(es) >= 2
      BY <2>2 DEF ChainOf
    <3>2. es[1].at \in Nat
      <4>1. es[1] \in Sighting
        BY <1>9, <3>1, ElementOfSeq, LenProperties
      <4> QED
        BY <4>1 DEF Sighting
    <3>3. c \in Chain
      BY <1>9, <3>2 DEF Chain
    <3>4. InOrderOfTime(c)
      <4>1. c.events = es /\ e \in Range(es)
        BY <1>9
      <4> HIDE DEF c
      <4> QED
        BY <1>3, <1>9, <1>11, <4>1, ChainIsInOrder
    <3> HIDE DEF c, chain
    <3>5. Range(<<c>>) = {c}
      BY DEF Range
    <3> QED
      BY <3>1, <3>3, <3>4, <3>5
  <2> QED
    BY <2>1, <2>2
<1>17. chains' \in Seq(Chain) /\ Range(chains') = Range(chains) \cup Range(chain)
  <2> HIDE DEF chain
  <2>1. chains \in Seq(Chain)
    BY <1>0 DEF ChainsInv
  <2>2. chains \o chain \in Seq(Chain) /\ ToSet(chains \o chain) = ToSet(chains) \cup ToSet(chain)
    BY <1>16, <2>1, ElementsOfConcat, ConcatProperties
  <2>3. Range(chains) = ToSet(chains) /\ Range(chain) = ToSet(chain) /\ Range(chains') = ToSet(chains')
    BY <1>1, <1>16, <2>1, <2>2, ElementsInRange
  <2> QED
    BY <1>1, <2>2, <2>3
<1>18. ASSUME NEW j \in 1..(N + 1), NEW i \in 1..(j - 1), Linked(arrived'[i], arrived'[j])
       PROVE  \E c \in Range(chains') : Holds(c.events, arrived'[i], arrived'[j])
  <2>0. i \in 1..N /\ arrived'[i] = arrived[i]
    BY <1>2, <1>4
  <2>1. CASE j \in 1..N
    <3>1. arrived'[j] = arrived[j]
      BY <1>4, <2>1
    <3>2. \E c \in Range(chains) : Holds(c.events, arrived[i], arrived[j])
      BY <1>0, <1>18, <2>0, <2>1, <3>1 DEF ChainsInv
    <3> QED
      BY <1>17, <2>0, <3>1, <3>2
  <2>2. CASE j = N + 1
    <3> DEFINE a == arrived[i]
    <3>1. arrived'[j] = e /\ arrived'[i] = a
      BY <1>4, <2>0, <2>2
    <3>2. a \in Range(arrived) /\ a # e
      <4>1. a \in Range(arrived)
        BY <1>2, <2>0, ElementsInRange
      <4> QED
        BY <1>2, <1>3, <1>10, <4>1
    <3> HIDE DEF a
    <3>3. /\ a.src = src /\ a.at + ChainWindow > minute + MaxLate
          /\ Phase[a.type] # Phase[e.type] /\ NoPhase \notin {Phase[a.type], Phase[e.type]}
      BY <1>3, <1>18, <3>1 DEF Linked
    <3>4. a \in Range(ins)
      <4>1. src \in DOMAIN waiting /\ a \in Range(waiting[src])
        BY <1>0, <3>2, <3>3 DEF KeptInv
      <4> QED
        BY <1>7, <1>8, <3>3, <4>1
    <3>5. a \in Range(es) /\ e \in Range(es)
      BY <1>9, <3>4
    <3>6. Len(es) >= 2 /\ Cardinality(PhasesOf(es)) >= 2
      BY <1>9, <3>2, <3>3, <3>5, TwoPhases
    <3> DEFINE c == [id |-> <<src, es[1].at>>, events |-> es]
    <3>7. chain = <<c>>
      BY <3>6 DEF ChainOf
    <3>8. c \in Range(chain) /\ c.events = es
      BY <3>7 DEF Range
    <3> HIDE DEF c, chain
    <3>9. c \in Range(chains') /\ Holds(c.events, a, e)
      BY <1>17, <3>5, <3>8 DEF Holds
    <3> QED
      BY <3>1, <3>9
  <2> QED
    BY <1>2, <2>1, <2>2
<1>19. ChainsInv'
  <2>1. \A c \in Range(chains') : InOrderOfTime(c)
    BY <1>0, <1>16, <1>17 DEF ChainsInv
  <2>2. \A c : InOrderOfTime(c)' <=> InOrderOfTime(c)
    BY DEF InOrderOfTime
  <2> HIDE DEF chain
  <2> QED
    BY <1>4, <1>17, <1>18, <2>1, <2>2 DEF ChainsInv, Linked, Holds
<1>20. MinuteInv'
  BY <1>0, <1>1 DEF MinuteInv
<1> QED
  BY <1>6, <1>14, <1>15, <1>19, <1>20 DEF BuilderInv

LEMMA BuilderRests == ASSUME BuilderInv, UNCHANGED <<minute, waiting, chains, arrived>> PROVE BuilderInv'
<1>1. MinuteInv' /\ ArrivedInv' /\ WaitingInv'
  BY DEF BuilderInv, MinuteInv, ArrivedInv, WaitingInv
<1>2. KeptInv' /\ ChainsInv'
  BY DEF BuilderInv, KeptInv, ChainsInv, InOrderOfTime, Linked, Holds
<1> QED
  BY <1>1, <1>2 DEF BuilderInv

-----------------------------------------------------------------------------
(* The stitcher: who is still in the window of a key is in its bucket.     *)
IdKeys == UNION {Range(keys) : keys \in RawEvents}

RawItem == [n : Nat, keys : RawEvents, at : Nat, when : Nat]

Incident == [key : IdKeys, events : Seq(RawItem)]

Tally == [buckets : UNION {[D -> Seq(RawItem)] : D \in SUBSET IdKeys}, incidents : Seq(Incident)]

Open(x, k) == x.at + Windows[k[1]] > minute + MaxLate

Filed(buckets, items) ==
  \A k \in DOMAIN buckets : \A x \in Range(buckets[k]) : x \in items /\ k \in Range(x.keys)

StillIn(buckets, x, k) == Open(x, k) => k \in DOMAIN buckets /\ x \in Range(buckets[k])

Kept(buckets, items) == \A x \in items : \A k \in Range(x.keys) : StillIn(buckets, x, k)

Together(found, k, a, b) == \E c \in Range(found) : c.key = k /\ Holds(c.events, a, b)

(* One key of an event.                                                    *)
LEMMA StitchedOnce ==
  ASSUME NEW acc \in Tally, NEW k \in IdKeys, NEW e \in RawItem, NEW items, Filed(acc.buckets, items),
         e \in items, k \in Range(e.keys), NEW new, new = Stitched(acc, k, e)
  PROVE  /\ new \in Tally /\ Filed(new.buckets, items)
         /\ \A x, j : StillIn(acc.buckets, x, j) => StillIn(new.buckets, x, j)
         /\ StillIn(new.buckets, e, k)
         /\ Range(acc.incidents) \subseteq Range(new.incidents)
         /\ \A a : Open(a, k) /\ StillIn(acc.buckets, a, k) => Together(new.incidents, k, a, e)
<1> DEFINE old == ValueOf(acc.buckets, k)
           ins == Inside(old, Windows[k[1]])
           es == Append(ins, e)
           c == [key |-> k, events |-> es]
<1>1. /\ new.buckets = Put(acc.buckets, k, es)
      /\ new.incidents = IF Len(es) >= 2 THEN Append(acc.incidents, c) ELSE acc.incidents
      /\ new = [buckets |-> new.buckets, incidents |-> new.incidents]
  BY DEF Stitched
<1>2. PICK D \in SUBSET IdKeys : acc.buckets \in [D -> Seq(RawItem)]
  BY DEF Tally
<1>3. acc.incidents \in Seq(Incident)
  BY DEF Tally
<1>4. /\ old \in Seq(RawItem) /\ \A x \in Range(old) : x \in items /\ k \in Range(x.keys)
      /\ k \in DOMAIN acc.buckets => old = acc.buckets[k]
  <2>1. CASE k \in DOMAIN acc.buckets
    BY <1>2, <2>1 DEF ValueOf, Filed
  <2>2. CASE k \notin DOMAIN acc.buckets
    <3>1. old = <<>>
      BY <2>2 DEF ValueOf
    <3> QED
      BY <2>2, <3>1 DEF Range
  <2> QED
    BY <2>1, <2>2
<1> HIDE DEF old
<1>5. ins \in Seq(RawItem) /\ \A x : x \in Range(ins) <=> x \in Range(old) /\ Open(x, k)
  BY <1>4, InsideKeeps DEF Open
<1> HIDE DEF ins
<1>6. es \in Seq(RawItem) /\ Range(es) = Range(ins) \cup {e} /\ Len(es) = Len(ins) + 1 /\ Len(ins) \in Nat
  <2>1. es \in Seq(RawItem) /\ Len(es) = Len(ins) + 1 /\ Len(ins) \in Nat
    BY <1>5, AppendProperties, LenProperties
  <2>2. ToSet(es) = ToSet(ins) \cup {e}
    BY <1>5, ElementsOfAppend
  <2>3. Range(ins) = ToSet(ins)
    BY <1>5, ElementsInRange
  <2> HIDE DEF es
  <2>4. Range(es) = ToSet(es)
    BY <2>1, ElementsInRange
  <2> QED
    BY <2>1, <2>2, <2>3, <2>4
<1> HIDE DEF es
<1>7. c \in Incident
  BY <1>6 DEF Incident
<1>8. /\ DOMAIN new.buckets = D \cup {k} /\ D = DOMAIN acc.buckets
      /\ \A j \in D \cup {k} : new.buckets[j] = IF j = k THEN es ELSE acc.buckets[j]
      /\ new.buckets = [j \in D \cup {k} |-> IF j = k THEN es ELSE acc.buckets[j]]
  BY <1>1, <1>2 DEF Put
<1> HIDE DEF c
<1>9. /\ new.incidents \in Seq(Incident) /\ Range(acc.incidents) \subseteq Range(new.incidents)
      /\ Len(es) >= 2 => c \in Range(new.incidents)
  <2>1. CASE Len(es) >= 2
    <3> DEFINE fs == Append(acc.incidents, c)
    <3>1. fs \in Seq(Incident) /\ new.incidents = fs
      BY <1>1, <1>3, <1>7, <2>1, AppendProperties
    <3>2. ToSet(fs) = ToSet(acc.incidents) \cup {c}
      BY <1>3, <1>7, ElementsOfAppend
    <3>3. Range(acc.incidents) = ToSet(acc.incidents)
      BY <1>3, ElementsInRange
    <3> HIDE DEF fs
    <3>4. Range(fs) = ToSet(fs)
      BY <3>1, ElementsInRange
    <3> QED
      BY <3>1, <3>2, <3>3, <3>4
  <2>2. CASE ~ (Len(es) >= 2)
    BY <1>1, <1>3, <2>2
  <2> QED
    BY <2>1, <2>2
<1>10. new \in Tally
  <2>1. new.buckets \in [D \cup {k} -> Seq(RawItem)]
    BY <1>2, <1>6, <1>8
  <2>2. D \cup {k} \in SUBSET IdKeys
    OBVIOUS
  <2>3. new.buckets \in UNION {[A -> Seq(RawItem)] : A \in SUBSET IdKeys}
    BY <2>1, <2>2
  <2> DEFINE b == new.buckets
             i == new.incidents
  <2>4. b \in UNION {[A -> Seq(RawItem)] : A \in SUBSET IdKeys} /\ i \in Seq(Incident)
    BY <1>9, <2>3
  <2>5. new = [buckets |-> b, incidents |-> i]
    BY <1>1
  <2> HIDE DEF b, i
  <2> QED
    BY <2>4, <2>5 DEF Tally
<1>11. Filed(new.buckets, items)
  <2>1. ASSUME NEW j \in D \cup {k}, NEW x \in Range(new.buckets[j]) PROVE x \in items /\ j \in Range(x.keys)
    <3>1. CASE j = k
      BY <1>4, <1>5, <1>6, <1>8, <2>1, <3>1
    <3>2. CASE j # k
      BY <1>8, <2>1, <3>2 DEF Filed
    <3> QED
      BY <3>1, <3>2
  <2> QED
    BY <1>8, <2>1 DEF Filed
<1>12. ASSUME NEW x, NEW j, StillIn(acc.buckets, x, j), Open(x, j)
       PROVE  j \in DOMAIN new.buckets /\ x \in Range(new.buckets[j])
  <2>1. j \in D /\ x \in Range(acc.buckets[j])
    BY <1>8, <1>12 DEF StillIn
  <2>2. CASE j = k
    BY <1>4, <1>5, <1>6, <1>8, <1>12, <2>1, <2>2
  <2>3. CASE j # k
    BY <1>8, <2>1, <2>3
  <2> QED
    BY <2>2, <2>3
<1>13. \A x, j : StillIn(acc.buckets, x, j) => StillIn(new.buckets, x, j)
  BY <1>12 DEF StillIn
<1>14. StillIn(new.buckets, e, k)
  BY <1>6, <1>8 DEF StillIn
<1>15. ASSUME NEW a, Open(a, k), StillIn(acc.buckets, a, k) PROVE Together(new.incidents, k, a, e)
  <2>1. a \in Range(ins)
    BY <1>4, <1>5, <1>15 DEF StillIn
  <2>2. Len(ins) # 0
    <3>1. \E i \in 1..Len(ins) : ins[i] = a
      BY <1>5, <2>1, ElementsInRange
    <3> QED
      BY <1>6, <3>1
  <2>3. c \in Range(new.incidents)
    BY <1>6, <1>9, <2>2
  <2>4. c.key = k /\ c.events = es
    BY DEF c
  <2> QED
    BY <1>6, <2>1, <2>3, <2>4 DEF Together, Holds
<1> QED
  BY <1>9, <1>10, <1>11, <1>13, <1>14, <1>15

(* All keys of an event, one after the other.                              *)
Stage(acc, m, start, keys, e, items) ==
  /\ acc \in Tally /\ Filed(acc.buckets, items \cup {e})
  /\ Kept(acc.buckets, items)
  /\ Range(start.incidents) \subseteq Range(acc.incidents)
  /\ \A p \in 1..m :
       /\ StillIn(acc.buckets, e, keys[p])
       /\ \A a \in items : keys[p] \in Range(a.keys) /\ Open(a, keys[p])
                             => Together(acc.incidents, keys[p], a, e)

LEMMA StageGrows ==
  ASSUME NEW keys \in RawEvents, NEW e \in RawItem, e.keys = keys, NEW items, NEW start,
         NEW m \in Nat, m + 1 \in 1..Len(keys), NEW acc, Stage(acc, m, start, keys, e, items),
         NEW new, new = Stitched(acc, keys[m + 1], e)
  PROVE  Stage(new, m + 1, start, keys, e, items)
<1> DEFINE k == keys[m + 1]
<1>1. keys \in Seq(Range(keys)) /\ DOMAIN keys = 1..Len(keys)
  BY XdrAssumption, LenProperties
<1>2. k \in Range(keys) /\ k \in IdKeys
  BY <1>1 DEF Range, IdKeys
<1> HIDE DEF k
<1>3. /\ new \in Tally /\ Filed(new.buckets, items \cup {e})
      /\ \A x, j : StillIn(acc.buckets, x, j) => StillIn(new.buckets, x, j)
      /\ StillIn(new.buckets, e, k)
      /\ Range(acc.incidents) \subseteq Range(new.incidents)
      /\ \A a : Open(a, k) /\ StillIn(acc.buckets, a, k) => Together(new.incidents, k, a, e)
  <2> DEFINE all == items \cup {e}
  <2>1. e \in all /\ acc \in Tally /\ Filed(acc.buckets, all) /\ new = Stitched(acc, k, e)
        /\ k \in Range(e.keys)
    BY <1>2 DEF Stage, k
  <2> HIDE DEF all
  <2> QED
    BY <1>2, <2>1, StitchedOnce DEF all
<1>4. \A j, a : Together(acc.incidents, j, a, e) => Together(new.incidents, j, a, e)
  BY <1>3 DEF Together
<1>5. Kept(new.buckets, items)
  BY <1>3 DEF Stage, Kept
<1>6. ASSUME NEW p \in 1..(m + 1)
      PROVE  /\ StillIn(new.buckets, e, keys[p])
             /\ \A a \in items : keys[p] \in Range(a.keys) /\ Open(a, keys[p])
                                   => Together(new.incidents, keys[p], a, e)
  <2>1. CASE p \in 1..m
    BY <1>3, <1>4, <2>1 DEF Stage
  <2>2. CASE p = m + 1
    <3>1. keys[p] = k
      BY <2>2 DEF k
    <3>2. \A a \in items : k \in Range(a.keys) => StillIn(acc.buckets, a, k)
      BY DEF Stage, Kept
    <3> QED
      BY <1>3, <3>1, <3>2
  <2> QED
    BY <2>1, <2>2
<1>7. Range(start.incidents) \subseteq Range(new.incidents)
  BY <1>3 DEF Stage
<1> QED
  BY <1>3, <1>5, <1>6, <1>7 DEF Stage

(* A fold over the keys goes through the stages.                           *)
Stitches(fold, A, F, start, keys, e) ==
  /\ FoldsBy(fold, SUBSET (1..Len(keys)), A, start, HighestOf(Len(keys)), F)
  /\ \A i \in 1..Len(keys), acc \in A : F[<<i, acc>>] = Stitched(acc, keys[i], e)

LEMMA StitchedStages ==
  ASSUME NEW keys \in RawEvents, NEW e \in RawItem, e.keys = keys, NEW items, NEW start \in Tally,
         Filed(start.buckets, items), Kept(start.buckets, items),
         NEW fold, NEW A, NEW F, Stitches(fold, A, F, start, keys, e)
  PROVE  Stage(fold[1..Len(keys)], Len(keys), start, keys, e, items)
<1> DEFINE n == Len(keys)
<1>a. n \in Nat
  BY LenProperties, XdrAssumption
<1>1. /\ FoldsBy(fold, SUBSET (1..n), A, start, HighestOf(n), F)
      /\ \A i \in 1..n, acc \in A : F[<<i, acc>>] = Stitched(acc, keys[i], e)
  BY DEF Stitches
<1> HIDE DEF n
<1>12. /\ \A i \in 0..n : fold[1..i] \in A
       /\ fold[1..0] = start
       /\ \A i \in 1..n : fold[1..i] = F[<<i, fold[1..(i - 1)]>>]
  <2>1. FoldsLeft(fold, n, A, start, F)
    BY <1>1 DEF FoldsLeft
  <2>2. Climbs(fold, n, A, start, F)
    BY <1>a, <2>1, LeftFold
  <2> QED
    BY <2>2 DEF Climbs
<1>13. \A i \in 1..n : fold[1..i] = Stitched(fold[1..(i - 1)], keys[i], e)
  <2>1. \A i \in 1..n : i - 1 \in 0..n
    BY <1>a
  <2> QED
    BY <1>1, <1>12, <2>1
<1> DEFINE G == {i \in Nat : i \in 0..n => Stage(fold[1..i], i, start, keys, e, items)}
<1>14. 0 \in G
  <2>1. Filed(start.buckets, items \cup {e})
    BY DEF Filed
  <2> QED
    BY <1>12, <1>a, <2>1 DEF Stage
<1>15. ASSUME NEW i \in Nat, i \in G PROVE i + 1 \in G
  <2>1. ASSUME i + 1 \in 0..n PROVE Stage(fold[1..(i + 1)], i + 1, start, keys, e, items)
    <3>1. i \in 0..n /\ i + 1 \in 1..n /\ (i + 1) - 1 = i
      BY <1>a, <2>1
    <3> DEFINE acc == fold[1..i]
               new == fold[1..(i + 1)]
    <3>2. Stage(acc, i, start, keys, e, items)
      BY <1>15, <3>1
    <3>3. new = Stitched(acc, keys[i + 1], e)
      BY <1>13, <3>1
    <3>4. i + 1 \in 1..Len(keys)
      BY <3>1 DEF n
    <3> HIDE DEF acc, new, G
    <3>5. Stage(new, i + 1, start, keys, e, items)
      BY <3>2, <3>3, <3>4, StageGrows
    <3> QED
      BY <3>5 DEF new
  <2>2. i + 1 \in Nat
    OBVIOUS
  <2> QED
    BY <2>1, <2>2
<1>16. \A i \in Nat : i \in G
  <2> HIDE DEF G
  <2> QED
    BY <1>14, <1>15, SetOfNaturals
<1>17. Stage(fold[1..n], n, start, keys, e, items)
  BY <1>a, <1>16
<1> QED
  BY <1>17 DEF n

LEMMA StitchedAll ==
  ASSUME NEW keys \in RawEvents, NEW e \in RawItem, e.keys = keys, NEW items, NEW start \in Tally,
         Filed(start.buckets, items), Kept(start.buckets, items),
         NEW all, all = FoldLeft(LAMBDA acc, k : Stitched(acc, k, e), start, keys)
  PROVE  Stage(all, Len(keys), start, keys, e, items)
<1> DEFINE n == Len(keys)
           File(acc) == Filed(acc.buckets, items \cup {e})
           A == {acc \in Tally : File(acc)}
           F == [w \in (1..n) \X A |-> Stitched(w[2], keys[w[1]], e)]
           step(k) == [s \in SUBSET (1..n) |->
                         IF s = {} THEN start ELSE Stitched(k[s \ {Max(s)}], keys[Max(s)], e)]
           k == CHOOSE x : x = step(x)
<1>0. /\ keys \in Seq(Range(keys)) /\ DOMAIN keys = 1..n /\ n \in Nat
      /\ \A i \in 1..n : keys[i] \in Range(keys) /\ keys[i] \in IdKeys
  <2>1. keys \in Seq(Range(keys)) /\ DOMAIN keys = 1..n /\ n \in Nat
    BY XdrAssumption, LenProperties
  <2>2. \A i \in 1..n : keys[i] \in Range(keys)
    BY <2>1 DEF Range
  <2>3. \A x \in Range(keys) : x \in IdKeys
    BY DEF IdKeys
  <2> HIDE DEF n
  <2> QED
    BY <2>1, <2>2, <2>3
<1>a. n \in Nat
  BY LenProperties, XdrAssumption
<1>1. all = k[1..n]
  BY <1>0 DEF FoldLeft, MapThenFoldSet
<1>2. start \in A
  BY DEF Filed
<1>3. F \in [(1..n) \X A -> A] /\ \A i \in 1..n, acc \in A : F[<<i, acc>>] = Stitched(acc, keys[i], e)
  <2>1. ASSUME NEW i \in 1..n, NEW acc \in A PROVE Stitched(acc, keys[i], e) \in A
    <3> DEFINE new == Stitched(acc, keys[i], e)
               its == items \cup {e}
    <3>1. keys[i] \in IdKeys /\ keys[i] \in Range(e.keys) /\ e \in its /\ acc \in Tally /\ Filed(acc.buckets, its)
      BY <1>0
    <3> HIDE DEF its
    <3>2. Stitched(acc, keys[i], e) \in Tally /\ Filed(Stitched(acc, keys[i], e).buckets, its)
      BY <3>1, StitchedOnce
    <3> QED
      BY <3>2 DEF its
  <2> HIDE DEF A
  <2> QED
    BY <2>1
<1> HIDE DEF A, F, n
<1>5. FoldRule(1..n, A, start, HighestOf(n), F)
  BY <1>0, <1>2, <1>3, PositionRules
<1>6. PICK g : FoldsBy(g, SUBSET (1..n), A, start, HighestOf(n), F)
  BY <1>5, FoldExists
<1>7. \A s \in SUBSET (1..n) : HighestOf(n)[s] = Max(s)
  BY DEF HighestOf
<1>8. g = step(g)
  <2>1. g = [s \in SUBSET (1..n) |-> g[s]]
    BY <1>6 DEF FoldsBy
  <2>2. ASSUME NEW s \in SUBSET (1..n), s # {}
        PROVE  g[s] = Stitched(g[s \ {Max(s)}], keys[Max(s)], e)
    <3>1. Max(s) \in 1..n /\ g[s \ {Max(s)}] \in A
      BY <1>5, <1>6, <1>7, <2>2 DEF FoldsBy, FoldRule
    <3>2. g[s] = F[<<Max(s), g[s \ {Max(s)}]>>]
      BY <1>6, <1>7, <2>2 DEF FoldsBy
    <3> QED
      BY <1>3, <3>1, <3>2
  <2>3. g[{}] = start
    BY <1>6 DEF FoldsBy
  <2> QED
    BY <2>1, <2>2, <2>3
<1> HIDE DEF step
<1>9. k = step(k)
  BY <1>8
<1> HIDE DEF k
<1>10. SolvesToo(k, 1..n, A, start, HighestOf(n), F)
  <2>1. k[{}] = start
    BY <1>9 DEF step
  <2>2. ASSUME NEW s \in SUBSET (1..n), s # {}, k[s \ {Max(s)}] \in A
        PROVE  k[s] = F[<<Max(s), k[s \ {Max(s)}]>>]
    <3>1. Max(s) \in 1..n
      BY <1>5, <1>7, <2>2 DEF FoldRule
    <3>2. k[s] = Stitched(k[s \ {Max(s)}], keys[Max(s)], e)
      BY <1>9, <2>2 DEF step
    <3> QED
      BY <1>3, <2>2, <3>1, <3>2
  <2> QED
    BY <1>7, <2>1, <2>2 DEF SolvesToo
<1>11. PICK fold : FoldsBy(fold, SUBSET (1..n), A, start, HighestOf(n), F)
                  /\ \A s \in SUBSET (1..n) : k[s] = fold[s] /\ k[s] \in A
  <2> DEFINE S == 1..n
             C == HighestOf(n)
  <2>1. Folds(k, S, A, start, C, F)
    BY <1>5, <1>10 DEF Folds
  <2> HIDE DEF S, C
  <2>2. \E x : FoldsBy(x, SUBSET S, A, start, C, F) /\ \A s \in SUBSET S : k[s] = x[s] /\ k[s] \in A
    BY <2>1, FoldEnds
  <2> QED
    BY <2>2 DEF S, C
<1>12. Stage(fold[1..n], n, start, keys, e, items)
  <2>1. Stitches(fold, A, F, start, keys, e)
    BY <1>3, <1>11 DEF Stitches, n
  <2> QED
    BY <2>1, StitchedStages DEF n
<1>18. all = fold[1..n]
  BY <1>1, <1>11
<1> QED
  BY <1>12, <1>18 DEF n

StitcherInv ==
  /\ raw \in Seq(RawItem)
  /\ [buckets |-> identityBuckets, incidents |-> incidents] \in Tally
  /\ Filed(identityBuckets, Range(raw))
  /\ Kept(identityBuckets, Range(raw))
  /\ IncidentsAreWhole

LEMMA StitcherStarts == XdrInit => StitcherInv
<1> SUFFICES ASSUME XdrInit PROVE StitcherInv
  OBVIOUS
<1>1. Range(<<>>) = {} /\ DOMAIN <<>> = {}
  BY DEF Range
<1>2. identityBuckets = <<>> /\ incidents = <<>> /\ raw = <<>>
  BY DEF XdrInit
<1>3. [buckets |-> identityBuckets, incidents |-> incidents] \in Tally
  <2>1. identityBuckets \in [{} -> Seq(RawItem)]
    BY <1>2
  <2>2. identityBuckets \in UNION {[D -> Seq(RawItem)] : D \in SUBSET IdKeys}
    BY <2>1
  <2> QED
    BY <1>2, <2>2 DEF Tally
<1> QED
  BY <1>1, <1>2, <1>3 DEF StitcherInv, Filed, Kept, IncidentsAreWhole

(* What the stitcher knows is of the past: a later moment closes windows.  *)
LEMMA StitcherWaits ==
  ASSUME StitcherInv, MinuteInv, UNCHANGED <<identityBuckets, incidents, raw>>,
         minute' = minute \/ minute' = minute + 1
  PROVE  StitcherInv'
<1>1. raw' = raw /\ identityBuckets' = identityBuckets /\ incidents' = incidents
  OBVIOUS
<1>2. ASSUME NEW x \in Range(raw), NEW k \in Range(x.keys), Open(x, k)' PROVE Open(x, k)
  <2>1. x \in RawItem
    BY ElementsInRange DEF StitcherInv
  <2>2. x.at \in Nat /\ Windows[k[1]] \in Nat /\ minute \in Nat /\ MaxLate \in Nat
    BY <2>1, XdrAssumption DEF RawItem, MinuteInv
  <2>3. x.at + Windows[k[1]] > minute' + MaxLate
    BY <1>2 DEF Open
  <2> QED
    BY <2>2, <2>3 DEF Open
<1>3. Kept(identityBuckets, Range(raw))'
  BY <1>1, <1>2 DEF Kept, StillIn, StitcherInv
<1>4. Filed(identityBuckets, Range(raw))'
  BY <1>1 DEF Filed, StitcherInv
<1>5. IncidentsAreWhole'
  BY <1>1 DEF IncidentsAreWhole, Holds, StitcherInv
<1>6. raw' \in Seq(RawItem) /\ [buckets |-> identityBuckets', incidents |-> incidents'] \in Tally
  BY <1>1 DEF StitcherInv
<1> QED
  BY <1>3, <1>4, <1>5, <1>6 DEF StitcherInv

LEMMA StitcherIngests ==
  ASSUME StitcherInv, MinuteInv, NEW keys \in RawEvents, NEW late \in 0..MaxLate, Ingest(keys, late)
  PROVE  StitcherInv'
<1> DEFINE e == [n |-> Len(raw) + 1, keys |-> keys, at |-> minute + MaxLate - late, when |-> minute + MaxLate]
           start == [buckets |-> identityBuckets, incidents |-> incidents]
           all == FoldLeft(LAMBDA acc, k : Stitched(acc, k, e), start, keys)
           items == Range(raw)
           n == Len(raw)
<1>1. raw' = Append(raw, e) /\ identityBuckets' = all.buckets /\ incidents' = all.incidents /\ minute' = minute
  BY DEF Ingest
<1>2. raw \in Seq(RawItem) /\ n \in Nat /\ DOMAIN raw = 1..n
  BY LenProperties DEF StitcherInv
<1>3. e \in RawItem
  BY <1>2, XdrAssumption DEF RawItem, MinuteInv
<1>4. e.keys = keys /\ e.when = minute + MaxLate
  OBVIOUS
<1>5. start \in Tally /\ Filed(start.buckets, items) /\ Kept(start.buckets, items) /\ start.incidents = incidents
  BY DEF StitcherInv
<1> HIDE DEF e, start, items
<1>6. Stage(all, Len(keys), start, keys, e, items)
  BY <1>3, <1>4, <1>5, StitchedAll
<1> HIDE DEF all
<1>7. /\ all \in Tally /\ Filed(all.buckets, items \cup {e}) /\ Kept(all.buckets, items)
      /\ Range(incidents) \subseteq Range(all.incidents)
  BY <1>5, <1>6 DEF Stage
<1>8. ASSUME NEW k \in Range(keys)
      PROVE  /\ StillIn(all.buckets, e, k)
             /\ \A a \in items : k \in Range(a.keys) /\ Open(a, k) => Together(all.incidents, k, a, e)
  <2>1. PICK p \in 1..Len(keys) : keys[p] = k
    <3>1. keys \in Seq(Range(keys))
      BY XdrAssumption
    <3> QED
      BY <3>1, ElementsInRange
  <2> QED
    BY <1>6, <2>1 DEF Stage
<1>9. /\ raw' \in Seq(RawItem) /\ Range(raw') = items \cup {e} /\ DOMAIN raw' = 1..(n + 1)
      /\ raw'[n + 1] = e /\ \A i \in 1..n : raw'[i] = raw[i]
  <2>1. raw' \in Seq(RawItem) /\ Len(raw') = n + 1 /\ raw'[n + 1] = e /\ \A i \in 1..n : raw'[i] = raw[i]
    BY <1>1, <1>2, <1>3, AppendProperties
  <2>2. ToSet(raw') = ToSet(raw) \cup {e}
    BY <1>1, <1>2, <1>3, ElementsOfAppend
  <2>3. Range(raw) = ToSet(raw)
    BY <1>2, ElementsInRange
  <2>4. Range(raw') = ToSet(raw') /\ DOMAIN raw' = 1..(n + 1)
    <3> DEFINE r == raw'
    <3>1. r \in Seq(RawItem) /\ Len(r) = n + 1
      BY <2>1
    <3> HIDE DEF r
    <3>2. Range(r) = ToSet(r) /\ DOMAIN r = 1..Len(r)
      BY <3>1, ElementsInRange
    <3> QED
      BY <3>1, <3>2 DEF r
  <2> QED
    BY <2>1, <2>2, <2>3, <2>4 DEF items
<1>10. Kept(identityBuckets, Range(raw))'
  <2>1. Kept(all.buckets, items \cup {e})
    BY <1>4, <1>7, <1>8 DEF Kept
  <2> QED
    BY <1>1, <1>9, <2>1 DEF Kept, StillIn, Open
<1>11. Filed(identityBuckets, Range(raw))'
  BY <1>1, <1>7, <1>9 DEF Filed
<1>12. [buckets |-> identityBuckets', incidents |-> incidents'] \in Tally
  <2>1. all = [buckets |-> all.buckets, incidents |-> all.incidents]
    BY <1>7 DEF Tally
  <2> QED
    BY <1>1, <1>7, <2>1
<1>13. ASSUME NEW j \in 1..(n + 1), NEW i \in 1..(j - 1),
              NEW k \in Range(raw'[i].keys) \cap Range(raw'[j].keys),
              raw'[i].at + Windows[k[1]] > raw'[j].when
       PROVE  \E c \in Range(incidents') : c.key = k /\ Holds(c.events, raw'[i], raw'[j])
  <2>1. i \in 1..n /\ raw'[i] = raw[i] /\ raw[i] \in items
    <3>1. i \in 1..n
      BY <1>2, <1>13
    <3> QED
      BY <1>2, <1>9, <3>1 DEF items, Range
  <2>2. CASE j \in 1..n
    <3>1. raw'[j] = raw[j]
      BY <1>9, <2>2
    <3>2. \E c \in Range(incidents) : c.key = k /\ Holds(c.events, raw[i], raw[j])
      BY <1>2, <1>13, <2>1, <2>2, <3>1 DEF StitcherInv, IncidentsAreWhole
    <3> QED
      BY <1>1, <1>7, <2>1, <3>1, <3>2
  <2>3. CASE j = n + 1
    <3>1. raw'[j] = e
      BY <1>9, <2>3
    <3>2. Open(raw[i], k) /\ k \in Range(keys) /\ k \in Range(raw[i].keys)
      BY <1>4, <1>13, <2>1, <3>1 DEF Open
    <3> QED
      BY <1>1, <1>8, <2>1, <3>1, <3>2 DEF Together
  <2> QED
    BY <1>2, <2>2, <2>3
<1>14. IncidentsAreWhole'
  BY <1>9, <1>13 DEF IncidentsAreWhole
<1> QED
  BY <1>9, <1>10, <1>11, <1>12, <1>14 DEF StitcherInv

(* What the invariants say is what is checked.                             *)
LEMMA BuilderIsSound == BuilderInv /\ StitcherInv => XdrSound
<1> SUFFICES ASSUME BuilderInv, StitcherInv PROVE XdrSound
  OBVIOUS
<1>1. XdrTypeOK
  BY DEF XdrTypeOK, BuilderInv, MinuteInv, WaitingInv, StitcherInv, Filed
<1>2. ChainsAreWhole
  <2>1. DOMAIN arrived = 1..Len(arrived) /\ Len(arrived) \in Nat
    BY LenProperties DEF BuilderInv, ArrivedInv
  <2> QED
    BY <2>1 DEF BuilderInv, ChainsInv, ChainsAreWhole, Linked, InOrderOfTime
<1> QED
  BY <1>1, <1>2 DEF XdrSound, StitcherInv

(* No attack in two phases is missed by the builder of chains, no two      *)
(* events of one identity by the stitcher, whenever they arrive            *)
(* (causality_builder.py add_event, event_stitcher.py ingest).             *)
THEOREM XdrIsAlwaysSound == XdrSpec => []XdrSound
<1> DEFINE Inv == BuilderInv /\ StitcherInv
<1>1. XdrInit => Inv
  BY BuilderStarts, StitcherStarts
<1>2. Inv /\ [XdrNext]_xdrAllVars => Inv'
  <2> SUFFICES ASSUME BuilderInv, StitcherInv, [XdrNext]_xdrAllVars PROVE Inv'
    OBVIOUS
  <2>0. MinuteInv
    BY DEF BuilderInv
  <2>1. CASE NextMinute
    <3>1. UNCHANGED <<identityBuckets, incidents, raw>> /\ minute' = minute + 1
      BY <2>1 DEF NextMinute, stitcherVars
    <3> QED
      BY <2>0, <2>1, <3>1, BuilderMinute, StitcherWaits
  <2>2. ASSUME NEW src \in EventSources, NEW type \in DOMAIN Phase, NEW late \in 0..MaxLate,
               IngestEvent(src, type, late)
        PROVE  Inv'
    <3>1. UNCHANGED <<identityBuckets, incidents, raw>> /\ minute' = minute
      BY <2>2 DEF IngestEvent, stitcherVars
    <3> QED
      BY <2>0, <2>2, <3>1, BuilderIngests, StitcherWaits
  <2>3. CASE ClearOldPending
    <3>1. UNCHANGED <<identityBuckets, incidents, raw>> /\ minute' = minute
      BY <2>3 DEF ClearOldPending, stitcherVars
    <3> QED
      BY <2>0, <2>3, <3>1, BuilderClears, StitcherWaits
  <2>4. ASSUME NEW keys \in RawEvents, NEW late \in 0..MaxLate, Ingest(keys, late)
        PROVE  Inv'
    <3>1. UNCHANGED <<minute, waiting, chains, arrived>>
      BY <2>4 DEF Ingest, builderVars
    <3> QED
      BY <2>0, <2>4, <3>1, BuilderRests, StitcherIngests
  <2>5. CASE UNCHANGED xdrAllVars
    <3>1. UNCHANGED <<minute, waiting, chains, arrived>> /\ UNCHANGED <<identityBuckets, incidents, raw>>
      BY <2>5 DEF xdrAllVars
    <3> QED
      BY <2>0, <3>1, BuilderRests, StitcherWaits
  <2> QED
    BY <2>1, <2>2, <2>3, <2>4, <2>5 DEF XdrNext, BuilderNext, StitcherNext
<1>3. Inv => XdrSound
  BY BuilderIsSound
<1> QED
  BY <1>1, <1>2, <1>3, PTL DEF XdrSpec
=============================================================================
