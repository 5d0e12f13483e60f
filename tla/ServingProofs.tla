---------------------------- MODULE ServingProofs ----------------------------
(***************************************************************************)
(* Proofs about what serves models (ml/serving, ml/inference_server.py),   *)
(* for any requests, loops, threads, models, devices and vectors: the      *)
(* batcher implements RequestReply and loses no wakeup, the cached models  *)
(* fit their devices, and the inference servers block only threats; and    *)
(* about what serves requests of the API, for any clients, limits, rows    *)
(* and queries: limits hold, hunts and answers miss nothing.               *)
(***************************************************************************)
EXTENDS DynamicBatcher, InferenceServers, RateLimiter, SequenceLemmas

-----------------------------------------------------------------------------
(* DynamicBatcher.                                                         *)

(* The requests drained from the front of a queue and the rest of it.      *)
LEMMA DrainTypes ==
  ASSUME queue \in Seq(Requests)
  PROVE  /\ Taken \in 0..Len(queue)
         /\ SubSeq(queue, 1, Taken) \in Seq(Requests)
         /\ LeftInQueue \in Seq(Requests)
<1>1. Len(queue) \in Nat
  BY LenProperties
<1>2. Taken \in 0..Len(queue)
  BY <1>1, BatcherAssumption DEF Taken
<1>3. \A i \in 1..Len(queue) : queue[i] \in Requests
  BY ElementOfSeq
<1>4. SubSeq(queue, 1, Taken) \in Seq(Requests)
  BY <1>1, <1>2, <1>3, SubSeqProperties
<1>5. LeftInQueue \in Seq(Requests)
  BY <1>1, <1>2, <1>3, SubSeqProperties DEF LeftInQueue
<1> QED
  BY <1>2, <1>4, <1>5

(* What CHOOSE finds: a place of r in b, which holds r.                    *)
LEMMA OwnRow ==
  ASSUME NEW b \in Seq(Requests), NEW r \in ToSet(b)
  PROVE  /\ r \in Requests
         /\ OutputRow(b, PositionOf(r, b)) = r
<1>1. DOMAIN b = 1..Len(b)
  BY LenProperties
<1>2. PICK i \in 1..Len(b) : b[i] = r
  BY <1>1 DEF ToSet
<1>3. b[PositionOf(r, b)] = r
  BY <1>2 DEF PositionOf
<1> QED
  BY <1>2, <1>3, ElementOfSeq DEF OutputRow

LEMMA TurnTypes ==
  ASSUME TypeOK, NEW l \in Loops, NextTurn(l)
  PROVE  /\ event' \in BOOLEAN
         /\ pc' \in [Loops -> {"waiting", "woken", "gathering", "inferring"}]
  BY DEF TypeOK, NextTurn, Woken

LEMMA TypeInductive == TypeOK /\ [Next]_vars => TypeOK'
<1> SUFFICES ASSUME TypeOK, [Next]_vars PROVE TypeOK'
  OBVIOUS
<1>1. ASSUME NEW r \in Requests, Infer(r) PROVE TypeOK'
  <2>1. queue' \in Seq(Requests)
    BY <1>1, AppendProperties DEF TypeOK, Infer
  <2> QED
    BY <1>1, <2>1 DEF TypeOK, Infer, Woken
<1>2. ASSUME NEW r \in Requests, CancelCall(r) PROVE TypeOK'
  BY <1>2 DEF TypeOK, CancelCall
<1>3. ASSUME NEW r \in Requests, ReturnCall(r) PROVE TypeOK'
  BY <1>3 DEF TypeOK, ReturnCall
<1>4. ASSUME NEW l \in Loops, Resume(l) PROVE TypeOK'
  BY <1>4 DEF TypeOK, Resume
<1>5. ASSUME NEW l \in Loops, Drain(l) PROVE TypeOK'
  BY <1>5, DrainTypes DEF TypeOK, Drain
<1>6. ASSUME NEW l \in Loops, DrainNothing(l) PROVE TypeOK'
  BY <1>6, TurnTypes DEF TypeOK, DrainNothing
<1>7. ASSUME NEW l \in Loops, NEW n \in 0..Len(batch[l]), Distribute(l, n) PROVE TypeOK'
  <2>1. batch[l] \in Seq(Requests)
    BY DEF TypeOK
  <2>2. answer' \in [Requests -> Requests \cup {None}]
    BY <1>7, <2>1, OwnRow DEF TypeOK, Distribute
  <2>3. outcome' \in [Requests -> {"idle", "pending", "answered", "failed", "cancelled"}]
    BY <1>7 DEF TypeOK, Distribute
  <2>4. batch' \in [Loops -> Seq(Requests)]
    <3>1. <<>> \in Seq(Requests)
      BY EmptySeq
    <3> QED
      BY <1>7, <3>1 DEF TypeOK, Distribute
  <2> QED
    BY <1>7, <2>2, <2>3, <2>4, TurnTypes DEF TypeOK, Distribute
<1>8. CASE UNCHANGED vars
  BY <1>8 DEF TypeOK, vars
<1>9. ASSUME NEW l \in Loops, Turn(l) PROVE TypeOK'
  BY <1>4, <1>5, <1>6, <1>7, <1>9 DEF Turn
<1> QED
  BY <1>1, <1>2, <1>3, <1>8, <1>9 DEF Next

LEMMA TypeInitially == Init => TypeOK
  BY EmptySeq DEF Init, TypeOK

(* The variables keep their types: nothing but requests is ever queued,    *)
(* drained or given as an answer by batching.py.                           *)
THEOREM TypeCorrect == Spec => []TypeOK
  BY TypeInitially, TypeInductive, PTL DEF Spec

-----------------------------------------------------------------------------
LEMMA WakeupInductive == TypeOK /\ NoLostWakeup /\ [Next]_vars => NoLostWakeup'
<1> SUFFICES ASSUME TypeOK, NoLostWakeup, [Next]_vars PROVE NoLostWakeup'
  OBVIOUS
<1>1. ASSUME NEW r \in Requests, Infer(r) PROVE NoLostWakeup'
  BY <1>1, BatcherAssumption DEF TypeOK, Infer, Woken, NoLostWakeup
<1>2. ASSUME NEW r \in Requests, CancelCall(r) PROVE NoLostWakeup'
  BY <1>2 DEF CancelCall, NoLostWakeup
<1>3. ASSUME NEW r \in Requests, ReturnCall(r) PROVE NoLostWakeup'
  BY <1>3 DEF ReturnCall, NoLostWakeup
<1>4. ASSUME NEW l \in Loops, Resume(l) PROVE NoLostWakeup'
  BY <1>4 DEF TypeOK, Resume, NoLostWakeup
<1>5. ASSUME NEW l \in Loops, Drain(l) PROVE NoLostWakeup'
  BY <1>5 DEF TypeOK, Drain, NoLostWakeup
<1>6. ASSUME NEW l \in Loops, DrainNothing(l) PROVE NoLostWakeup'
  BY <1>6 DEF DrainNothing, NoLostWakeup
<1>7. ASSUME NEW l \in Loops, NEW n \in 0..Len(batch[l]), Distribute(l, n)
      PROVE  NoLostWakeup'
  <2>1. CASE event \/ queue # <<>>
    BY <1>7, <2>1 DEF TypeOK, Distribute, NextTurn, Woken, NoLostWakeup
  <2>2. CASE ~(event \/ queue # <<>>)
    BY <1>7, <2>2 DEF Distribute, NoLostWakeup
  <2> QED
    BY <2>1, <2>2
<1>8. CASE UNCHANGED vars
  BY <1>8 DEF NoLostWakeup, vars
<1> QED
  BY <1>1, <1>2, <1>3, <1>4, <1>5, <1>6, <1>7, <1>8 DEF Next, Turn

(* However many loops clear the event, however callers arrive between the  *)
(* drain of a batch and its end: no request sleeps in the queue while      *)
(* every loop sleeps on the event.                                         *)
THEOREM NoWakeupIsLost == Spec => []QueueSound
<1>1. Init => NoLostWakeup
  BY DEF Init, NoLostWakeup
<1>2. TypeOK /\ NoLostWakeup => QueueSound
  BY DEF QueueSound
<1> QED
  BY <1>1, <1>2, TypeCorrect, WakeupInductive, PTL DEF Spec

-----------------------------------------------------------------------------
LEMMA InitIsCallsInit == Init => Calls!CallsInit
  BY DEF Init, Calls!CallsInit

(* The end of a batch is one Reply: the requests that were still open and  *)
(* have a row are answered with it, the open ones without a row fail.      *)
LEMMA DistributeIsReply ==
  ASSUME TypeOK, NEW l \in Loops, NEW n \in 0..Len(batch[l]), Distribute(l, n)
  PROVE  Calls!CallsNext
<1> DEFINE open == {r \in ToSet(batch[l]) : outcome[r] = "pending"}
           answered == {r \in open : PositionOf(r, batch[l]) <= n}
           failed == open \ answered
<1>1. batch[l] \in Seq(Requests)
  BY DEF TypeOK
<1>2. \A r \in ToSet(batch[l]) :
         r \in Requests /\ OutputRow(batch[l], PositionOf(r, batch[l])) = r
  BY <1>1, OwnRow
<1>3. answered \in SUBSET Calls!Pending /\ failed \in SUBSET Calls!Pending
  BY <1>2 DEF Calls!Pending
<1>4. answer' = [r \in Requests |-> IF r \in answered THEN r ELSE answer[r]]
  BY <1>2 DEF Distribute
<1>5. outcome' = [r \in Requests |-> CASE r \in answered -> "answered"
                                       [] r \in failed -> "failed"
                                       [] OTHER -> outcome[r]]
  BY DEF Distribute
<1>6. Calls!Reply(answered, failed)
  BY <1>4, <1>5 DEF Calls!Reply
<1> QED
  BY <1>3, <1>6 DEF Calls!CallsNext

LEMMA StepIsCallsStep == TypeOK /\ [Next]_vars => [Calls!CallsNext]_(Calls!calls)
<1> SUFFICES ASSUME TypeOK, [Next]_vars
             PROVE  Calls!CallsNext \/ UNCHANGED Calls!calls
  OBVIOUS
<1>1. ASSUME NEW r \in Requests, Infer(r) PROVE Calls!CallsNext
  BY <1>1 DEF Infer, Calls!CallsNext, Calls!Submit
<1>2. ASSUME NEW r \in Requests, CancelCall(r) PROVE Calls!CallsNext
  BY <1>2 DEF CancelCall, Calls!CallsNext, Calls!Cancel
<1>3. ASSUME NEW r \in Requests, ReturnCall(r) PROVE Calls!CallsNext
  BY <1>3 DEF ReturnCall, Calls!CallsNext, Calls!Return
<1>4. ASSUME NEW l \in Loops, Resume(l) \/ Drain(l) \/ DrainNothing(l)
      PROVE  UNCHANGED Calls!calls
  BY <1>4 DEF Resume, Drain, DrainNothing, Calls!calls
<1>5. ASSUME NEW l \in Loops, NEW n \in 0..Len(batch[l]), Distribute(l, n)
      PROVE  Calls!CallsNext
  BY <1>5, DistributeIsReply
<1>6. CASE UNCHANGED vars
  BY <1>6 DEF vars, Calls!calls
<1> QED
  BY <1>1, <1>2, <1>3, <1>4, <1>5, <1>6 DEF Next, Turn

(* The batcher implements RequestReply: with any number of loops and any   *)
(* cancellations, short outputs and failures, a call ends once, and an     *)
(* answered call has the output of its own input.                          *)
THEOREM AnswersAreOwn == Spec => AnswersOwnCall
  BY InitIsCallsInit, StepIsCallsStep, TypeCorrect, PTL
  DEF Spec, AnswersOwnCall, Calls!CallsSpec

-----------------------------------------------------------------------------
(* ModelCache.  An entry is called after its path, whatever its device and *)
(* its size.                                                               *)
CachedEntries ==
  [id : UNION {{<<p>>} \cup {<<p, n>> : n \in Nat} : p \in Paths}, device : Devices,
   size : Nat, serial : Nat, weighed : BOOLEAN]

LEMMA EntryTypes ==
  ASSUME NEW e \in CachedEntries
  PROVE  e.size \in Nat /\ e.serial \in Nat /\ e.device \in Devices
BY DEF CachedEntries

(* u has entries of s, each once, at the positions p.                      *)
Rearranged(u, s, p) ==
  /\ u \in Seq(CachedEntries) /\ s \in Seq(CachedEntries)
  /\ p \in [1..Len(u) -> 1..Len(s)]
  /\ \A j, k \in 1..Len(u) : p[j] = p[k] => j = k
  /\ \A k \in 1..Len(u) : u[k] = s[p[k]]

(* The bytes of a weighed entry are within those of the one it stands for. *)
Covered(e, o) == e.weighed => o.weighed /\ e.device = o.device /\ e.size <= o.size

(* The same of the names of entries only, and of the bytes of the weighed. *)
Renewed(u, s, p) ==
  /\ u \in Seq(CachedEntries) /\ s \in Seq(CachedEntries)
  /\ p \in [1..Len(u) -> 1..Len(s)]
  /\ \A j, k \in 1..Len(u) : p[j] = p[k] => j = k
  /\ \A k \in 1..Len(u) : u[k].id = s[p[k]].id /\ Covered(u[k], s[p[k]])

(* Entries counted, and their bytes.                                       *)
LEMMA BytesAreFinite ==
  ASSUME NEW s \in Seq(CachedEntries), NEW K \in SUBSET (1..Len(s))
  PROVE  /\ IsFiniteSet(K) /\ Cardinality(K) \in Nat
         /\ IsFiniteSet(BytesOf(s, K)) /\ Cardinality(BytesOf(s, K)) \in Nat
<1> DEFINE F == {{k} \X (1..s[k].size) : k \in K}
           f == [k \in K |-> {k} \X (1..s[k].size)]
<1>1. PICK l \in Nat : Len(s) = l /\ DOMAIN s = 1..l
  BY LenProperties
<1>2. IsFiniteSet(K)
  <2>1. 1 \in Int /\ l \in Int
    OBVIOUS
  <2>2. IsFiniteSet(1..l)
    BY <2>1, FS_Interval
  <2> QED
    BY <1>1, <2>2, FS_Subset
<1>3. \A k \in K : s[k].size \in Nat
  BY <1>1, ElementOfSeq, EntryTypes
<1>4. \A T \in F : IsFiniteSet(T)
  <2>1. ASSUME NEW k \in K PROVE IsFiniteSet({k} \X (1..s[k].size))
    <3>1. PICK n \in Nat : n = s[k].size
      BY <1>3
    <3>2. 1 \in Int /\ n \in Int
      OBVIOUS
    <3>3. IsFiniteSet(1..n) /\ IsFiniteSet({k})
      BY <3>2, FS_Interval, FS_Singleton
    <3>4. IsFiniteSet({k} \X (1..n))
      BY <3>3, FS_Product
    <3> QED
      BY <3>1, <3>4
  <2> QED
    BY <2>1
<1>5. IsFiniteSet(F)
  <2>1. f \in Surjection(K, F)
    BY DEF Surjection
  <2> HIDE DEF f, F
  <2> QED
    BY <1>2, <2>1, FS_Surjection
<1>6. IsFiniteSet(UNION F)
  <2> HIDE DEF F
  <2> QED
    BY <1>4, <1>5, FS_UNION
<1>7. BytesOf(s, K) = UNION F
  BY DEF BytesOf
<1> HIDE DEF F
<1>8. IsFiniteSet(BytesOf(s, K))
  BY <1>6, <1>7
<1> QED
  BY <1>2, <1>8, FS_CardinalityType

(* The bytes of a device that count, and all of them.                      *)
WeighedBytes(s, d) == Cardinality(BytesOf(s, Weighed(s, d)))

LEMMA WeighedAreSome ==
  ASSUME NEW s \in Seq(CachedEntries), NEW d
  PROVE  /\ IsFiniteSet(Weighed(s, d)) /\ Cardinality(Weighed(s, d)) \in Nat
         /\ IsFiniteSet(BytesOf(s, Weighed(s, d))) /\ WeighedBytes(s, d) \in Nat
         /\ DeviceBytes(s, d) \in Nat /\ WeighedBytes(s, d) <= DeviceBytes(s, d)
<1> DEFINE K == Weighed(s, d)
           L == OnDevice(s, d)
<1>1. K \in SUBSET (1..Len(s)) /\ L \in SUBSET (1..Len(s)) /\ K \subseteq L
  BY LenProperties DEF Weighed, OnDevice
<1> HIDE DEF K, L
<1>2. /\ IsFiniteSet(K) /\ Cardinality(K) \in Nat /\ IsFiniteSet(BytesOf(s, K))
      /\ Cardinality(BytesOf(s, K)) \in Nat
      /\ IsFiniteSet(BytesOf(s, L)) /\ Cardinality(BytesOf(s, L)) \in Nat
  BY <1>1, BytesAreFinite
<1>3. BytesOf(s, K) \subseteq BytesOf(s, L)
  BY <1>1 DEF BytesOf
<1>4. Cardinality(BytesOf(s, K)) <= Cardinality(BytesOf(s, L))
  BY <1>2, <1>3, FS_Subset
<1> QED
  BY <1>2, <1>4 DEF WeighedBytes, DeviceBytes, K, L

LEMMA RenewedIsNotMore ==
  ASSUME NEW u, NEW s, NEW p, Renewed(u, s, p), NEW d
  PROVE  /\ WeighedBytes(u, d) <= WeighedBytes(s, d)
         /\ Cardinality(Weighed(u, d)) <= Cardinality(Weighed(s, d))
         /\ Len(u) <= Len(s)
<1>1. /\ u \in Seq(CachedEntries) /\ s \in Seq(CachedEntries)
      /\ p \in [1..Len(u) -> 1..Len(s)]
      /\ \A j, k \in 1..Len(u) : p[j] = p[k] => j = k
      /\ \A k \in 1..Len(u) : Covered(u[k], s[p[k]])
  BY DEF Renewed
<1>2. PICK l \in Nat, m \in Nat : /\ Len(u) = l /\ DOMAIN u = 1..l
                                  /\ Len(s) = m /\ DOMAIN s = 1..m
  BY <1>1, LenProperties
<1>3. \A k \in 1..l : /\ p[k] \in 1..m /\ u[k].size \in Nat /\ s[p[k]].size \in Nat
                      /\ u[k].weighed => /\ s[p[k]].weighed /\ u[k].device = s[p[k]].device
                                         /\ u[k].size <= s[p[k]].size
  <2>1. \A k \in 1..l : p[k] \in 1..m /\ u[k] \in CachedEntries /\ s[p[k]] \in CachedEntries
    BY <1>1, <1>2, ElementOfSeq
  <2> QED
    BY <1>1, <1>2, <2>1, EntryTypes DEF Covered
<1>4. Len(u) <= Len(s)
  <2>1. 1 \in Int /\ l \in Int /\ m \in Int
    OBVIOUS
  <2>2. IsFiniteSet(1..m) /\ Cardinality(1..m) = m /\ Cardinality(1..l) = l
    BY <2>1, FS_Interval
  <2>3. p \in Injection(1..l, 1..m)
    BY <1>1, <1>2 DEF Injection, IsInjective
  <2>4. Cardinality(1..l) <= Cardinality(1..m)
    BY <2>2, <2>3, FS_Injection
  <2> QED
    BY <1>2, <2>2, <2>4
<1>5. Cardinality(Weighed(u, d)) <= Cardinality(Weighed(s, d))
  <2> DEFINE f == [k \in Weighed(u, d) |-> p[k]]
  <2>1. f \in Injection(Weighed(u, d), Weighed(s, d))
    BY <1>1, <1>2, <1>3 DEF Weighed, OnDevice, Injection, IsInjective
  <2>2. IsFiniteSet(Weighed(s, d))
    BY <1>1, WeighedAreSome
  <2> HIDE DEF f
  <2> QED
    BY <2>1, <2>2, FS_Injection
<1>6. WeighedBytes(u, d) <= WeighedBytes(s, d)
  <2> DEFINE f == [x \in BytesOf(u, Weighed(u, d)) |-> <<p[x[1]], x[2]>>]
  <2>1. \A x \in BytesOf(u, Weighed(u, d)) : \E k \in 1..l : \E b \in 1..u[k].size :
          x = <<k, b>> /\ u[k].device = d /\ u[k].weighed
    BY <1>2 DEF BytesOf, Weighed, OnDevice
  <2>2. ASSUME NEW x \in BytesOf(u, Weighed(u, d)) PROVE f[x] \in BytesOf(s, Weighed(s, d))
    <3>1. PICK k \in 1..l : \E b \in 1..u[k].size : x = <<k, b>> /\ u[k].device = d /\ u[k].weighed
      BY <2>1
    <3>2. PICK b \in 1..u[k].size : x = <<k, b>> /\ u[k].device = d /\ u[k].weighed
      BY <3>1
    <3>3. p[k] \in Weighed(s, d) /\ b \in 1..s[p[k]].size
      <4>1. p[k] \in Weighed(s, d)
        BY <1>2, <1>3, <3>2 DEF Weighed, OnDevice
      <4>2. u[k].size \in Nat /\ s[p[k]].size \in Nat /\ u[k].size <= s[p[k]].size
        BY <1>3, <3>2
      <4> QED
        BY <4>1, <4>2
    <3>4. f[x] = <<p[k], b>>
      BY <3>2
    <3> QED
      BY <3>3, <3>4 DEF BytesOf
  <2>3. ASSUME NEW x \in BytesOf(u, Weighed(u, d)), NEW y \in BytesOf(u, Weighed(u, d)), f[x] = f[y]
        PROVE  x = y
    <3>1. PICK k \in 1..l, b \in Nat : x = <<k, b>>
      BY <2>1
    <3>2. PICK j \in 1..l, c \in Nat : y = <<j, c>>
      BY <2>1
    <3>3. p[k] = p[j] /\ b = c
      BY <2>3, <3>1, <3>2
    <3> QED
      BY <1>1, <1>2, <3>1, <3>2, <3>3
  <2>4. f \in Injection(BytesOf(u, Weighed(u, d)), BytesOf(s, Weighed(s, d)))
    <3>1. f \in [BytesOf(u, Weighed(u, d)) -> BytesOf(s, Weighed(s, d))]
      BY <2>2
    <3> HIDE DEF f
    <3> QED
      BY <2>3, <3>1 DEF Injection, IsInjective
  <2>5. IsFiniteSet(BytesOf(s, Weighed(s, d)))
    BY <1>1, WeighedAreSome
  <2> HIDE DEF f
  <2> QED
    BY <2>4, <2>5, FS_Injection DEF WeighedBytes
<1> QED
  BY <1>4, <1>5, <1>6

(* u is s with an entry more.                                              *)
Grown(u, s, e) ==
  /\ u \in Seq(CachedEntries) /\ s \in Seq(CachedEntries) /\ e \in CachedEntries
  /\ Len(u) = Len(s) + 1
  /\ \A k \in 1..Len(s) : u[k] = s[k]
  /\ u[Len(s) + 1] = e

LEMMA AppendGrows ==
  ASSUME NEW s \in Seq(CachedEntries), NEW e \in CachedEntries, NEW u, u = Append(s, e)
  PROVE  Grown(u, s, e)
BY AppendProperties DEF Grown

LEMMA GrownOn ==
  ASSUME NEW s, NEW e, NEW u, Grown(u, s, e), NEW d
  PROVE  /\ \A k \in Weighed(s, d) : u[k] = s[k]
         /\ ~(e.weighed /\ e.device = d) => Weighed(u, d) = Weighed(s, d)
         /\ e.weighed /\ e.device = d => Weighed(u, d) = Weighed(s, d) \cup {Len(s) + 1}
<1>1. PICK l \in Nat : Len(s) = l /\ DOMAIN s = 1..l
  BY LenProperties DEF Grown
<1>2. /\ DOMAIN u = 1..(l + 1)
      /\ \A k \in 1..l : u[k] = s[k]
      /\ u[l + 1] = e
  BY <1>1, LenProperties DEF Grown
<1>3. \A k : k \in 1..(l + 1) <=> k \in 1..l \/ k = l + 1
  OBVIOUS
<1>4. l + 1 \notin 1..l
  OBVIOUS
<1>5. ASSUME ~(e.weighed /\ e.device = d) PROVE Weighed(u, d) = Weighed(s, d)
  BY <1>1, <1>2, <1>3, <1>4, <1>5 DEF Weighed, OnDevice
<1>6. ASSUME e.weighed, e.device = d PROVE Weighed(u, d) = Weighed(s, d) \cup {l + 1}
  BY <1>1, <1>2, <1>3, <1>4, <1>6 DEF Weighed, OnDevice
<1> QED
  BY <1>1, <1>2, <1>5, <1>6 DEF Weighed, OnDevice

LEMMA GrownElsewhere ==
  ASSUME NEW s, NEW e, NEW u, Grown(u, s, e), NEW d, ~(e.weighed /\ e.device = d)
  PROVE  /\ WeighedBytes(u, d) = WeighedBytes(s, d)
         /\ Cardinality(Weighed(u, d)) = Cardinality(Weighed(s, d))
<1>1. Weighed(u, d) = Weighed(s, d)
  BY GrownOn
<1>2. \A k \in Weighed(s, d) : u[k] = s[k]
  BY GrownOn
<1>3. BytesOf(u, Weighed(u, d)) = BytesOf(s, Weighed(s, d))
  BY <1>1, <1>2 DEF BytesOf
<1> QED
  BY <1>1, <1>3 DEF WeighedBytes

LEMMA GrownBytes ==
  ASSUME NEW s, NEW e, NEW u, Grown(u, s, e), NEW d, e.weighed, e.device = d
  PROVE  /\ WeighedBytes(u, d) <= WeighedBytes(s, d) + e.size
         /\ Cardinality(Weighed(u, d)) <= Cardinality(Weighed(s, d)) + 1
<1>1. PICK l \in Nat : l = Len(s)
  BY LenProperties DEF Grown
<1>2. /\ u \in Seq(CachedEntries) /\ s \in Seq(CachedEntries) /\ e \in CachedEntries
      /\ u[l + 1] = e
  BY <1>1 DEF Grown
<1>3. Weighed(u, d) = Weighed(s, d) \cup {l + 1}
  BY <1>1, GrownOn
<1>4. \A k \in Weighed(s, d) : u[k] = s[k]
  BY GrownOn
<1>5. PICK n \in Nat : n = e.size
  BY <1>2, EntryTypes
<1>6. PICK T : T = {l + 1} \X (1..n)
  OBVIOUS
<1>7. BytesOf(u, Weighed(u, d)) = BytesOf(s, Weighed(s, d)) \cup T
  <2>1. PICK A : A = {{k} \X (1..u[k].size) : k \in Weighed(s, d)}
    OBVIOUS
  <2>2. T = {l + 1} \X (1..u[l + 1].size)
    BY <1>2, <1>5, <1>6
  <2>3. {{k} \X (1..u[k].size) : k \in Weighed(u, d)} = A \cup {T}
    <3>1. PICK K, Z : K = Weighed(s, d) /\ Z = Weighed(u, d)
      OBVIOUS
    <3>2. Z = K \cup {l + 1}
      BY <1>3, <3>1
    <3>3. {{k} \X (1..u[k].size) : k \in Z}
            = {{k} \X (1..u[k].size) : k \in K} \cup {{l + 1} \X (1..u[l + 1].size)}
      BY <3>2
    <3> QED
      BY <2>1, <2>2, <3>1, <3>3
  <2>4. BytesOf(u, Weighed(u, d)) = UNION (A \cup {T})
    BY <2>3 DEF BytesOf
  <2>5. A = {{k} \X (1..s[k].size) : k \in Weighed(s, d)}
    BY <1>4, <2>1
  <2>6. BytesOf(s, Weighed(s, d)) = UNION A
    BY <2>5 DEF BytesOf
  <2>7. UNION (A \cup {T}) = (UNION A) \cup T
    OBVIOUS
  <2> QED
    BY <2>4, <2>6, <2>7
<1>8. IsFiniteSet(T) /\ Cardinality(T) <= n /\ Cardinality(T) \in Nat
  <2> DEFINE f == [i \in 1..n |-> <<l + 1, i>>]
  <2>1. 1 \in Int /\ n \in Int
    OBVIOUS
  <2>2. IsFiniteSet(1..n) /\ Cardinality(1..n) = n
    BY <2>1, FS_Interval
  <2>3. f \in Surjection(1..n, T)
    <3>1. f \in [1..n -> T]
      BY <1>6
    <3>2. \A x \in T : \E i \in 1..n : f[i] = x
      BY <1>6
    <3> HIDE DEF f
    <3> QED
      BY <3>1, <3>2 DEF Surjection
  <2> HIDE DEF f
  <2> QED
    BY <2>2, <2>3, FS_Surjection, FS_CardinalityType
<1>9. WeighedBytes(u, d) <= WeighedBytes(s, d) + n
  <2>1. /\ IsFiniteSet(BytesOf(s, Weighed(s, d))) /\ WeighedBytes(s, d) \in Nat /\ WeighedBytes(u, d) \in Nat
    BY <1>2, WeighedAreSome
  <2>2. /\ IsFiniteSet(BytesOf(s, Weighed(s, d)) \cap T)
        /\ Cardinality(BytesOf(s, Weighed(s, d)) \cap T) \in Nat
    BY <1>8, FS_Intersection, FS_CardinalityType
  <2>3. Cardinality(BytesOf(s, Weighed(s, d)) \cup T)
          = Cardinality(BytesOf(s, Weighed(s, d))) + Cardinality(T) - Cardinality(BytesOf(s, Weighed(s, d)) \cap T)
    BY <1>8, <2>1, FS_Union
  <2> QED
    BY <1>7, <1>8, <2>1, <2>2, <2>3 DEF WeighedBytes
<1>10. Cardinality(Weighed(u, d)) <= Cardinality(Weighed(s, d)) + 1
  <2>1. IsFiniteSet(Weighed(s, d)) /\ Cardinality(Weighed(s, d)) \in Nat
    BY <1>2, WeighedAreSome
  <2>2. PICK K, z : K = Weighed(s, d) /\ z = l + 1
    OBVIOUS
  <2>3. IsFiniteSet(K) /\ Cardinality(K) \in Nat /\ Weighed(u, d) = K \cup {z}
    BY <1>3, <2>1, <2>2
  <2>4. Cardinality(K \cup {z}) = IF z \in K THEN Cardinality(K) ELSE Cardinality(K) + 1
    BY <2>3, FS_AddElement
  <2> QED
    BY <2>2, <2>3, <2>4
<1> QED
  BY <1>5, <1>9, <1>10

-----------------------------------------------------------------------------
(* The cache fits its bounds.                                              *)
DeviceFits(s, d) == WeighedBytes(s, d) <= Budget(d) \/ Cardinality(Weighed(s, d)) <= 1

CacheFits(s) ==
  /\ s \in Seq(CachedEntries)
  /\ Len(s) <= MaxModels
  /\ \A j, k \in 1..Len(s) : s[j].id = s[k].id => j = k
  /\ \A d \in Devices : DeviceFits(s, d)

(* Its entries were loaded, each once, and not deleted.                    *)
Loaded(s, deleted, n) ==
  /\ deleted \subseteq 1..n
  /\ \A k \in 1..Len(s) : s[k].serial \in 1..n /\ s[k].serial \notin deleted
  /\ \A j, k \in 1..Len(s) : s[j].serial = s[k].serial => j = k

LEMMA RenewedFits ==
  ASSUME NEW s, NEW u, NEW p, CacheFits(s), Renewed(u, s, p)
  PROVE  CacheFits(u)
<1>1. s \in Seq(CachedEntries) /\ u \in Seq(CachedEntries)
  BY DEF Renewed
<1>2. PICK l \in Nat, m \in Nat : Len(s) = l /\ Len(u) = m
  BY <1>1, LenProperties
<1>3. Len(u) <= MaxModels
  <2>1. Len(s) <= MaxModels
    BY DEF CacheFits
  <2>2. ASSUME NEW d PROVE Len(u) <= Len(s)
    BY RenewedIsNotMore
  <2>3. m <= l
    BY <1>2, <2>2
  <2>4. MaxModels \in Nat
    BY CacheAssumption
  <2> QED
    BY <1>2, <2>1, <2>3, <2>4
<1>4. ASSUME NEW j \in 1..Len(u), NEW k \in 1..Len(u), u[j].id = u[k].id PROVE j = k
  <2>1. p[j] \in 1..Len(s) /\ p[k] \in 1..Len(s) /\ s[p[j]].id = s[p[k]].id
    BY <1>4 DEF Renewed
  <2>2. p[j] = p[k]
    BY <2>1 DEF CacheFits
  <2> QED
    BY <2>2 DEF Renewed
<1>5. ASSUME NEW d \in Devices PROVE DeviceFits(u, d)
  <2>2. /\ WeighedBytes(u, d) \in Nat /\ WeighedBytes(s, d) \in Nat
        /\ Cardinality(Weighed(u, d)) \in Nat /\ Cardinality(Weighed(s, d)) \in Nat
    BY <1>1, WeighedAreSome
  <2>3. /\ WeighedBytes(u, d) <= WeighedBytes(s, d)
        /\ Cardinality(Weighed(u, d)) <= Cardinality(Weighed(s, d))
    BY RenewedIsNotMore
  <2>4. Budget(d) \in Nat
    BY CacheAssumption
  <2>5. DeviceFits(s, d)
    BY DEF CacheFits
  <2> QED
    BY <2>2, <2>3, <2>4, <2>5 DEF DeviceFits
<1> QED
  BY <1>1, <1>3, <1>4, <1>5 DEF CacheFits

LEMMA RearrangedIsRenewed ==
  ASSUME NEW u, NEW s, NEW p, Rearranged(u, s, p)
  PROVE  Renewed(u, s, p)
<1>1. \A k \in 1..Len(u) : Covered(u[k], s[p[k]])
  <2>1. ASSUME NEW k \in 1..Len(u) PROVE Covered(u[k], s[p[k]])
    <3>1. u[k] \in CachedEntries /\ u[k] = s[p[k]]
      BY ElementOfSeq DEF Rearranged
    <3>2. u[k].size \in Nat
      BY <3>1, EntryTypes
    <3> QED
      BY <3>1, <3>2 DEF Covered
  <2> QED
    BY <2>1
<1> QED
  BY <1>1 DEF Rearranged, Renewed

LEMMA RearrangedLoaded ==
  ASSUME NEW u, NEW s, NEW p, Rearranged(u, s, p), NEW n \in Nat, NEW old, Loaded(s, old, n),
         NEW new \in SUBSET (1..n), \A k \in 1..Len(u) : u[k].serial \notin new
  PROVE  Loaded(u, new, n)
<1>1. \A k \in 1..Len(u) : p[k] \in 1..Len(s) /\ u[k] = s[p[k]]
  BY DEF Rearranged
<1>2. ASSUME NEW k \in 1..Len(u) PROVE u[k].serial \in 1..n /\ u[k].serial \notin new
  <2>1. u[k].serial = s[p[k]].serial
    BY <1>1
  <2>2. s[p[k]].serial \in 1..n
    BY <1>1 DEF Loaded
  <2> QED
    BY <2>1, <2>2
<1>3. ASSUME NEW j \in 1..Len(u), NEW k \in 1..Len(u), u[j].serial = u[k].serial PROVE j = k
  <2>1. s[p[j]].serial = s[p[k]].serial
    BY <1>1, <1>3
  <2>2. p[j] = p[k]
    BY <1>1, <2>1 DEF Loaded
  <2> QED
    BY <2>2 DEF Rearranged
<1> QED
  BY <1>2, <1>3 DEF Loaded

LEMMA WithoutRearranges ==
  ASSUME NEW s \in Seq(CachedEntries), NEW id, NEW w, w = Without(s, id)
  PROVE  \E p : /\ Rearranged(w, s, p)
                /\ \A k \in 1..Len(w) : s[p[k]].id # id
<1>1. PICK K : K = {k \in DOMAIN s : s[k].id # id}
  OBVIOUS
<1>2. PICK l \in Nat : Len(s) = l /\ DOMAIN s = 1..l
  BY LenProperties
<1>3. K \in SUBSET (1..Len(s)) /\ w = AtPositions(s, K)
  BY <1>1, <1>2 DEF Without
<1>4. /\ w \in Seq(CachedEntries)
      /\ \E p \in [1..Len(w) -> K] :
           /\ \A n \in 1..Len(w) : w[n] = s[p[n]]
           /\ \A m, n \in 1..Len(w) : m < n => p[m] < p[n]
           /\ \A i \in K : \E n \in 1..Len(w) : p[n] = i
  BY <1>3, PlacesKept
<1>5. PICK m \in Nat : Len(w) = m
  BY <1>4, LenProperties
<1>6. PICK p \in [1..m -> K] :
           /\ \A n \in 1..m : w[n] = s[p[n]]
           /\ \A i, n \in 1..m : i < n => p[i] < p[n]
  BY <1>4, <1>5
<1>7. \A k \in 1..m : p[k] \in 1..l /\ s[p[k]].id # id
  BY <1>1, <1>2, <1>6
<1>8. \A j, k \in 1..m : p[j] = p[k] => j = k
  <2>1. ASSUME NEW j \in 1..m, NEW k \in 1..m, p[j] = p[k] PROVE j = k
    <3>1. ~(j < k) /\ ~(k < j)
      BY <1>6, <1>7, <2>1
    <3> QED
      BY <3>1
  <2> QED
    BY <2>1
<1>9. p \in [1..m -> 1..l]
  BY <1>6, <1>7
<1>10. Rearranged(w, s, p)
  BY <1>2, <1>4, <1>5, <1>6, <1>8, <1>9 DEF Rearranged
<1> QED
  BY <1>5, <1>7, <1>10

(* An entry of a name that is there goes to the end.                       *)
LEMMA MovedRenews ==
  ASSUME NEW s \in Seq(CachedEntries), NEW i \in 1..Len(s), NEW e \in CachedEntries,
         e.id = s[i].id, Covered(e, s[i]), NEW w, w = Without(s, e.id), NEW u, u = Append(w, e)
  PROVE  /\ \E p : Renewed(u, s, p)
         /\ e = s[i] => \E p : Rearranged(u, s, p)
<1>1. PICK p : Rearranged(w, s, p) /\ \A k \in 1..Len(w) : s[p[k]].id # e.id
  BY WithoutRearranges
<1>2. w \in Seq(CachedEntries)
  BY <1>1 DEF Rearranged
<1>3. PICK m \in Nat, l \in Nat : Len(w) = m /\ Len(s) = l
  BY <1>2, LenProperties
<1>4. /\ u \in Seq(CachedEntries) /\ Len(u) = m + 1
      /\ \A k \in 1..m : u[k] = w[k]
      /\ u[m + 1] = e
  BY <1>2, <1>3, AppendProperties
<1>5. PICK q : q = [k \in 1..(m + 1) |-> IF k \in 1..m THEN p[k] ELSE i]
  OBVIOUS
<1>6. \A k \in 1..(m + 1) : k \in 1..m \/ k = m + 1
  OBVIOUS
<1>7. m + 1 \notin 1..m /\ m + 1 \in 1..(m + 1) /\ \A k \in 1..m : k \in 1..(m + 1)
  OBVIOUS
<1>8. /\ \A k \in 1..m : /\ q[k] = p[k] /\ p[k] \in 1..l /\ p[k] # i
                         /\ u[k] = s[p[k]]
      /\ q[m + 1] = i /\ i \in 1..l
  BY <1>1, <1>3, <1>4, <1>5, <1>7 DEF Rearranged
<1>9. q \in [1..(m + 1) -> 1..l]
  BY <1>5, <1>6, <1>8
<1>10. \A j, k \in 1..(m + 1) : q[j] = q[k] => j = k
  <2>1. \A j, k \in 1..m : p[j] = p[k] => j = k
    BY <1>1, <1>3 DEF Rearranged
  <2>2. ASSUME NEW j \in 1..(m + 1), NEW k \in 1..(m + 1), q[j] = q[k] PROVE j = k
    <3>1. CASE j \in 1..m /\ k \in 1..m
      BY <1>8, <2>1, <2>2, <3>1
    <3>2. CASE j = m + 1 /\ k \in 1..m
      BY <1>8, <2>2, <3>2
    <3>3. CASE j \in 1..m /\ k = m + 1
      BY <1>8, <2>2, <3>3
    <3> QED
      BY <1>6, <3>1, <3>2, <3>3
  <2> QED
    BY <2>2
<1>11. /\ q \in [1..Len(u) -> 1..Len(s)]
       /\ \A j, k \in 1..Len(u) : q[j] = q[k] => j = k
  BY <1>3, <1>4, <1>9, <1>10
<1>12. Renewed(u, s, q)
  <2>1. ASSUME NEW k \in 1..Len(u) PROVE u[k].id = s[q[k]].id /\ Covered(u[k], s[q[k]])
    <3>1. CASE k \in 1..m
      <4>1. u[k] = s[q[k]]
        BY <1>8, <3>1
      <4>2. u[k].size \in Nat
        BY <1>4, ElementOfSeq, EntryTypes
      <4> QED
        BY <4>1, <4>2 DEF Covered
    <3>2. CASE k = m + 1
      <4>1. u[k] = e /\ q[k] = i
        BY <1>4, <1>8, <3>2
      <4> QED
        BY <4>1
    <3> QED
      BY <1>4, <1>6, <3>1, <3>2
  <2> QED
    BY <1>4, <1>11, <2>1 DEF Renewed
<1>13. ASSUME e = s[i] PROVE Rearranged(u, s, q)
  <2>1. \A k \in 1..Len(u) : u[k] = s[q[k]]
    BY <1>4, <1>6, <1>8, <1>13
  <2> QED
    BY <1>4, <1>11, <2>1 DEF Rearranged
<1> QED
  BY <1>12, <1>13

LEMMA LoadedNew ==
  ASSUME NEW s \in Seq(CachedEntries), NEW deleted, NEW n \in Nat, Loaded(s, deleted, n),
         NEW e \in CachedEntries, e.serial = n + 1
  PROVE  Loaded(Append(s, e), deleted, n + 1)
<1>1. PICK l \in Nat : Len(s) = l
  BY LenProperties
<1>2. PICK u : u = Append(s, e)
  OBVIOUS
<1>3. Len(u) = l + 1 /\ (\A k \in 1..l : u[k] = s[k]) /\ u[l + 1] = e
  BY <1>1, <1>2, AppendProperties
<1>4. \A k \in 1..(l + 1) : k \in 1..l \/ k = l + 1
  OBVIOUS
<1>5. \A x \in 1..n : x \in 1..(n + 1) /\ x # n + 1
  OBVIOUS
<1>6. n + 1 \in 1..(n + 1)
  OBVIOUS
<1>7. Loaded(u, deleted, n + 1)
  BY <1>1, <1>3, <1>4, <1>5, <1>6 DEF Loaded
<1> QED
  BY <1>2, <1>7

(* What is left of the cache after n evictions.                            *)
Shifted(t, s, p, n) == Rearranged(t, s, p) /\ \A k \in 1..Len(t) : p[k] = k + n

LEMMA RestRearranges ==
  ASSUME NEW s \in Seq(CachedEntries), NEW n \in Nat, n <= Len(s), NEW t,
         t = SubSeq(s, n + 1, Len(s))
  PROVE  /\ Len(t) = Len(s) - n
         /\ \E p : Shifted(t, s, p, n)
<1>1. PICK l \in Nat : Len(s) = l
  BY LenProperties
<1>2. n <= l /\ n \in 0..l
  BY <1>1
<1>3. PICK m \in Nat : m = l - n /\ (l + 1) - (n + 1) = m
  BY <1>2
<1>4. /\ t \in Seq(CachedEntries) /\ Len(t) = m
      /\ \A k \in 1..m : t[k] = s[k + n]
  <2>1. n + 1 \in Int /\ l \in Int
    OBVIOUS
  <2>2. \A i \in (n + 1)..l : s[i] \in CachedEntries
    BY <1>1, ElementOfSeq
  <2>3. /\ t \in Seq(CachedEntries) /\ Len(t) = IF n + 1 <= l THEN l - (n + 1) + 1 ELSE 0
        /\ \A k \in 1..(l - (n + 1) + 1) : t[k] = s[(n + 1) + k - 1]
    BY <1>1, <2>1, <2>2, SubSeqProperties
  <2>4. l - (n + 1) + 1 = m /\ (\A k \in 1..m : (n + 1) + k - 1 = k + n) /\ (n + 1 > l => m = 0)
    BY <1>2, <1>3
  <2> QED
    BY <2>3, <2>4
<1>5. PICK p : p = [k \in 1..m |-> k + n]
  OBVIOUS
<1>6. \A k \in 1..m : k + n \in 1..l
  BY <1>3
<1>7. /\ p \in [1..m -> 1..l]
      /\ \A k \in 1..m : p[k] = k + n /\ t[k] = s[p[k]]
  BY <1>4, <1>5, <1>6
<1>8. \A j, k \in 1..m : p[j] = p[k] => j = k
  BY <1>7
<1>9. Rearranged(t, s, p)
  BY <1>1, <1>4, <1>7, <1>8 DEF Rearranged
<1> QED
  BY <1>1, <1>3, <1>4, <1>7, <1>9 DEF Shifted

(* There is always a number of evictions that makes room.                  *)
LEMMA EvictionsMakeRoom ==
  ASSUME NEW e, NEW s \in Seq(CachedEntries), s = cachedModels, NEW n, n = EvictedCount(e)
  PROVE  n \in Nat /\ n <= Len(s) /\ Room(SubSeq(s, n + 1, Len(s)), e)
<1>1. PICK l \in Nat : Len(s) = l
  BY LenProperties
<1> DEFINE N == {i \in 0..l : Room(SubSeq(s, i + 1, l), e)}
<1>2. n = Min(N)
  BY <1>1 DEF EvictedCount
<1>3. N \subseteq Nat
  OBVIOUS
<1>4. l \in N
  <2>1. SubSeq(s, l + 1, l) = << >>
    BY <1>1
  <2>2. Len(<< >>) = 0 /\ 0 < MaxModels
    BY CacheAssumption
  <2> QED
    BY <2>1, <2>2 DEF Room
<1>5. PICK i \in N : \A j \in N : i <= j
  <2> HIDE DEF N
  <2> QED
    BY <1>3, <1>4, LeastNatural
<1>6. n \in N
  BY <1>2, <1>5 DEF Min
<1> QED
  BY <1>1, <1>6

(* A new entry, after the evictions that make room for it.                 *)
LEMMA AppendedFits ==
  ASSUME NEW t, CacheFits(t), NEW e \in CachedEntries, Room(t, e),
         \A k \in 1..Len(t) : t[k].id # e.id, NEW u, u = Append(t, e)
  PROVE  CacheFits(u)
<1>1. t \in Seq(CachedEntries)
  BY DEF CacheFits
<1>2. PICK l \in Nat : Len(t) = l
  BY <1>1, LenProperties
<1>3. /\ u \in Seq(CachedEntries) /\ Len(u) = l + 1
      /\ \A k \in 1..l : u[k] = t[k]
      /\ u[l + 1] = e
  BY <1>1, <1>2, AppendProperties
<1>4. \A k \in 1..(l + 1) : k \in 1..l \/ k = l + 1
  OBVIOUS
<1>5. Len(u) <= MaxModels
  BY <1>2, <1>3, CacheAssumption DEF Room
<1>6. ASSUME NEW j \in 1..(l + 1), NEW k \in 1..(l + 1), u[j].id = u[k].id PROVE j = k
  <2>1. CASE j \in 1..l /\ k \in 1..l
    BY <1>2, <1>3, <1>6, <2>1 DEF CacheFits
  <2>2. CASE j = l + 1 /\ k \in 1..l
    BY <1>2, <1>3, <1>6, <2>2
  <2>3. CASE j \in 1..l /\ k = l + 1
    BY <1>2, <1>3, <1>6, <2>3
  <2> QED
    BY <1>4, <2>1, <2>2, <2>3
<1>7. Grown(u, t, e)
  BY <1>1, AppendGrows
<1>8. ASSUME NEW d \in Devices PROVE DeviceFits(u, d)
  <2>1. PICK b : b = Budget(d)
    OBVIOUS
  <2>2. /\ WeighedBytes(u, d) \in Nat /\ WeighedBytes(t, d) \in Nat /\ DeviceBytes(t, d) \in Nat
        /\ WeighedBytes(t, d) <= DeviceBytes(t, d)
        /\ Cardinality(Weighed(u, d)) \in Nat /\ Cardinality(Weighed(t, d)) \in Nat
    BY <1>1, <1>3, WeighedAreSome
  <2>3. b \in Nat /\ e.size \in Nat
    BY <2>1, CacheAssumption, EntryTypes
  <2>4. CASE ~(e.weighed /\ e.device = d)
    <3>1. /\ WeighedBytes(u, d) = WeighedBytes(t, d)
          /\ Cardinality(Weighed(u, d)) = Cardinality(Weighed(t, d))
      BY <1>7, <2>4, GrownElsewhere
    <3>2. DeviceFits(t, d)
      BY DEF CacheFits
    <3> QED
      BY <3>1, <3>2 DEF DeviceFits
  <2>5. CASE e.weighed /\ e.device = d
    <3>1. /\ WeighedBytes(u, d) <= WeighedBytes(t, d) + e.size
          /\ Cardinality(Weighed(u, d)) <= Cardinality(Weighed(t, d)) + 1
      BY <1>7, <2>5, GrownBytes
    <3>2. CASE Fits(t, e)
      <4>1. DeviceBytes(t, d) + e.size <= b
        BY <2>1, <2>5, <3>2 DEF Fits
      <4>2. WeighedBytes(u, d) <= b
        BY <2>2, <2>3, <3>1, <4>1
      <4> QED
        BY <2>1, <4>2 DEF DeviceFits
    <3>3. CASE t = <<>>
      <4>1. Weighed(t, d) = {}
        BY <3>3 DEF Weighed, OnDevice
      <4>2. Cardinality(Weighed(t, d)) = 0
        BY <4>1, FS_EmptySet
      <4>3. Cardinality(Weighed(u, d)) <= 1
        BY <2>2, <3>1, <4>2
      <4> QED
        BY <4>3 DEF DeviceFits
    <3> QED
      BY <3>2, <3>3 DEF Room
  <2> QED
    BY <2>4, <2>5
<1> QED
  BY <1>3, <1>5, <1>6, <1>8 DEF CacheFits

-----------------------------------------------------------------------------
(* Threads hold entries that were loaded, or wait for a model.             *)
ThreadStates ==
  [phase : {"idle", "loading", "using"}, path : Paths \cup {""}, device : Devices \cup {""},
   entry : CachedEntries \cup {NoEntry}]

CacheInv ==
  /\ loadCount \in 0..MaxModelLoads
  /\ file \in [Paths -> Nat]
  /\ thread \in [Threads -> ThreadStates]
  /\ \A t \in Threads : thread[t].phase = "loading" =>
                        thread[t].path \in Paths /\ thread[t].device \in Devices
  /\ CacheFits(cachedModels)
  /\ Loaded(cachedModels, unloaded, loadCount)

LEMMA RestIsTyped == AtRest \in ThreadStates
BY DEF AtRest, ThreadStates, NoEntry

LEMMA CacheStarts == CacheInit => CacheInv
<1> SUFFICES ASSUME CacheInit PROVE CacheInv
  OBVIOUS
<1>1. 0 \in 0..MaxModelLoads
  BY CacheAssumption
<1>2. AtRest.phase # "loading"
  BY DEF AtRest
<1>3. PICK s : s = << >>
  OBVIOUS
<1>4. s \in Seq(CachedEntries) /\ Len(s) = 0 /\ 0 <= MaxModels /\ 1..0 = {} /\ DOMAIN s = {}
  BY <1>3, CacheAssumption
<1>5. ASSUME NEW d \in Devices PROVE DeviceFits(s, d)
  <2>1. Weighed(s, d) = {}
    BY <1>4 DEF Weighed, OnDevice
  <2>2. Cardinality(Weighed(s, d)) = 0
    BY <2>1, FS_EmptySet
  <2> QED
    BY <2>2 DEF DeviceFits
<1>6. CacheFits(s)
  BY <1>4, <1>5 DEF CacheFits
<1>7. Loaded(s, {}, 0)
  BY <1>4 DEF Loaded
<1> QED
  BY <1>1, <1>2, <1>3, <1>6, <1>7, RestIsTyped DEF CacheInit, CacheInv

LEMMA LookUpKeeps ==
  ASSUME CacheInv, NEW t \in Threads, NEW p \in Paths, NEW d \in Devices, LookUp(t, p, d)
  PROVE  CacheInv'
<1>1. UNCHANGED <<file, loadCount, unloaded>>
  BY DEF LookUp
<1>2. PICK s : s = cachedModels
  OBVIOUS
<1>3. s \in Seq(CachedEntries) /\ CacheFits(s) /\ Loaded(s, unloaded, loadCount)
  BY <1>2 DEF CacheInv, CacheFits
<1>4. CASE Positions(s, <<p>>) = {}
  <2>1. /\ thread' = [thread EXCEPT ![t] = [AtRest EXCEPT !.phase = "loading", !.path = p,
                                                         !.device = d]]
        /\ cachedModels' = cachedModels
    BY <1>2, <1>4 DEF LookUp
  <2>2. PICK r : r = [AtRest EXCEPT !.phase = "loading", !.path = p, !.device = d]
    OBVIOUS
  <2>3. r \in ThreadStates /\ r.path = p /\ r.device = d
    BY <2>2 DEF AtRest, ThreadStates, NoEntry
  <2> QED
    BY <1>1, <2>1, <2>2, <2>3 DEF CacheInv
<1>5. CASE Positions(s, <<p>>) # {}
  <2>1. PICK i : i = CHOOSE k \in Positions(s, <<p>>) : TRUE
    OBVIOUS
  <2>2. i \in Positions(s, <<p>>)
    BY <1>5, <2>1
  <2>3. PICK e : e = s[i]
    OBVIOUS
  <2>4. i \in 1..Len(s) /\ e \in CachedEntries
    BY <1>3, <2>2, <2>3, ElementOfSeq, LenProperties DEF Positions
  <2>5. /\ thread' = [thread EXCEPT ![t] = [phase |-> "using", path |-> p, device |-> d,
                                           entry |-> e]]
        /\ cachedModels' = Append(Without(s, e.id), e)
    BY <1>2, <1>5, <2>1, <2>3 DEF LookUp
  <2>6. PICK u : u = Append(Without(s, e.id), e)
    OBVIOUS
  <2>61. Covered(e, s[i])
    BY <2>3, <2>4, EntryTypes DEF Covered
  <2>7. PICK q : Rearranged(u, s, q)
    BY <1>3, <2>3, <2>4, <2>6, <2>61, MovedRenews
  <2>8. CacheFits(u)
    BY <1>3, <2>7, RearrangedIsRenewed, RenewedFits
  <2>9. Loaded(u, unloaded, loadCount)
    <3>1. PICK old, n : old = unloaded /\ n = loadCount
      OBVIOUS
    <3>2. n \in Nat /\ Loaded(s, old, n)
      BY <1>3, <3>1 DEF CacheInv
    <3>3. old \in SUBSET (1..n) /\ \A k \in 1..Len(s) : s[k].serial \notin old
      BY <3>2 DEF Loaded
    <3>4. \A k \in 1..Len(u) : u[k].serial \notin old
      BY <2>7, <3>3 DEF Rearranged
    <3> QED
      BY <2>7, <3>1, <3>2, <3>3, <3>4, RearrangedLoaded
  <2>10. [phase |-> "using", path |-> p, device |-> d, entry |-> e] \in ThreadStates
    BY <2>4 DEF ThreadStates
  <2> QED
    BY <1>1, <2>5, <2>6, <2>8, <2>9, <2>10 DEF CacheInv
<1> QED
  BY <1>4, <1>5

(* What is gone after n evictions was loaded, and nothing of it is left.   *)
LEMMA EvictedAreGone ==
  ASSUME NEW s \in Seq(CachedEntries), NEW n, n \in Nat, n <= Len(s), NEW old, NEW c \in Nat,
         Loaded(s, old, c), NEW t, t = SubSeq(s, n + 1, Len(s)), NEW new,
         new = old \cup Deleted(ToSet(SubSeq(s, 1, n)))
  PROVE  Loaded(t, new, c)
<1>1. PICK l \in Nat : Len(s) = l
  BY LenProperties
<1>2. PICK p : Shifted(t, s, p, n)
  BY RestRearranges
<1>3. PICK h : h = SubSeq(s, 1, n)
  OBVIOUS
<1>4. \A x \in Deleted(ToSet(h)) : \E i \in 1..n : i \in 1..l /\ x = s[i].serial
  <2>1. 1 \in Int /\ n \in Int
    OBVIOUS
  <2>2. \A i \in 1..n : s[i] \in CachedEntries
    BY <1>1, ElementOfSeq
  <2>3. /\ h \in Seq(CachedEntries) /\ Len(h) = IF 1 <= n THEN n - 1 + 1 ELSE 0
        /\ \A i \in 1..(n - 1 + 1) : h[i] = s[1 + i - 1]
    BY <1>3, <2>1, <2>2, SubSeqProperties
  <2>4. Len(h) = n /\ \A i \in 1..n : h[i] = s[i] /\ i \in 1..l
    BY <1>1, <2>3
  <2>5. ToSet(h) = {h[i] : i \in 1..Len(h)}
    BY <2>3, ElementsOf
  <2>6. \A x \in Deleted(ToSet(h)) : \E y \in ToSet(h) : x = y.serial
    BY DEF Deleted
  <2>7. \A y \in ToSet(h) : \E i \in 1..n : y = s[i]
    BY <2>4, <2>5
  <2>8. ASSUME NEW x \in Deleted(ToSet(h)) PROVE \E i \in 1..n : i \in 1..l /\ x = s[i].serial
    <3>1. PICK y \in ToSet(h) : x = y.serial
      BY <2>6
    <3>2. PICK i \in 1..n : y = s[i]
      BY <2>7
    <3>3. i \in 1..l
      BY <2>4
    <3> QED
      BY <3>1, <3>2, <3>3
  <2> QED
    BY <2>8
<1>5. \A i, j \in 1..l : s[i].serial = s[j].serial => i = j
  BY <1>1 DEF Loaded
<1>6. \A i \in 1..l : s[i].serial \in 1..c /\ s[i].serial \notin old
  BY <1>1 DEF Loaded
<1>7. new \in SUBSET (1..c)
  <2>1. old \subseteq 1..c
    BY DEF Loaded
  <2>2. ASSUME NEW x \in Deleted(ToSet(h)) PROVE x \in 1..c
    BY <1>4, <1>6
  <2>3. Deleted(ToSet(h)) \subseteq 1..c
    BY <2>2
  <2> QED
    BY <1>3, <2>1, <2>3
<1>8. ASSUME NEW k \in 1..Len(t) PROVE t[k].serial \notin new
  <2>1. PICK m \in Nat : Len(t) = m
    BY <1>2, LenProperties DEF Rearranged, Shifted
  <2>2. k + n \in 1..l /\ t[k] = s[k + n] /\ k \in 1..m
    BY <1>1, <1>2, <2>1 DEF Rearranged
  <2>3. k + n \notin 1..n
    BY <2>2
  <2>4. ASSUME t[k].serial \in Deleted(ToSet(h)) PROVE FALSE
    <3>1. PICK i \in 1..n : i \in 1..l /\ t[k].serial = s[i].serial
      BY <1>4, <2>4
    <3>2. i = k + n
      BY <1>5, <2>2, <3>1
    <3> QED
      BY <2>3, <3>2
  <2> QED
    BY <1>3, <1>6, <2>2, <2>4
<1> QED
  BY <1>2, <1>7, <1>8, RearrangedLoaded DEF Shifted

(* The entry that a load makes.                                            *)
LEMMA NewEntries ==
  ASSUME NEW p \in Paths, file \in [Paths -> Nat], NEW n \in Nat, NEW d \in Devices,
         NEW size \in Nat, NEW w \in BOOLEAN, NEW e,
         e = [id |-> ModelId(p), device |-> d, size |-> size, serial |-> n, weighed |-> w]
  PROVE  e \in CachedEntries
<1>1. PICK i : i = ModelId(p)
  OBVIOUS
<1>2. i \in {<<p>>} \cup {<<p, k>> : k \in Nat}
  <2>1. PICK k \in Nat : k = file[p]
    OBVIOUS
  <2>2. i = <<p>> \/ i = <<p, k>>
    BY <1>1, <2>1 DEF ModelId
  <2> QED
    BY <2>2
<1>3. e = [id |-> i, device |-> d, size |-> size, serial |-> n, weighed |-> w]
  BY <1>1
<1> DEFINE I == UNION {{<<q>>} \cup {<<q, k>> : k \in Nat} : q \in Paths}
<1>4. i \in I
  BY <1>2
<1> HIDE DEF I
<1>5. e \in [id : I, device : Devices, size : Nat, serial : Nat, weighed : BOOLEAN]
  BY <1>3, <1>4
<1> QED
  BY <1>5 DEF CachedEntries, I

LEMMA LoadAndPutKeeps ==
  ASSUME CacheInv, NEW t \in Threads, LoadAndPut(t)
  PROVE  CacheInv'
<1>0. PICK size \in Sizes(thread[t].path) : Put(t, size)
  BY DEF LoadAndPut
<1>1. PICK p, d, c, e, s, n, old, v :
        /\ p = thread[t].path /\ d = thread[t].device /\ c = loadCount /\ s = cachedModels
        /\ n = EvictedCount(e) /\ v = Weighs(s, ModelId(p), d, size)
        /\ e = [id |-> ModelId(p), device |-> d, size |-> size, serial |-> c + 1, weighed |-> v]
        /\ old = unloaded
  OBVIOUS
<1>2. /\ p \in Paths /\ d \in Devices /\ c \in Nat /\ CacheFits(s) /\ Loaded(s, old, c)
      /\ s \in Seq(CachedEntries) /\ c < MaxModelLoads
  BY <1>1 DEF LoadAndPut, CacheInv, CacheFits
<1>3. /\ loadCount' = c + 1 /\ file' = file
      /\ thread' = [thread EXCEPT ![t].phase = "using", ![t].entry = e]
      /\ IF Positions(s, e.id) # {}
         THEN cachedModels' = Append(Without(s, e.id), e) /\ unloaded' = old
         ELSE /\ cachedModels' = Append(SubSeq(s, n + 1, Len(s)), e)
              /\ unloaded' = old \cup Deleted(ToSet(SubSeq(s, 1, n)))
  BY <1>0, <1>1 DEF Put
<1>4. e \in CachedEntries /\ e.serial = c + 1 /\ c + 1 \in Nat
  <2>1. c + 1 \in Nat
    BY <1>2
  <2>2. file \in [Paths -> Nat]
    BY DEF CacheInv
  <2>3. size \in Nat /\ v \in BOOLEAN
    BY <1>0, <1>1, <1>2, CacheAssumption DEF Weighs
  <2>4. e \in CachedEntries
    BY <1>1, <1>2, <2>1, <2>2, <2>3, NewEntries
  <2> QED
    BY <1>1, <2>1, <2>4
<1>5. c + 1 \in 0..MaxModelLoads
  BY <1>2, <1>3, CacheAssumption
<1>6. /\ thread' \in [Threads -> ThreadStates]
      /\ \A r \in Threads : thread'[r].phase = "loading" =>
                                thread'[r].path \in Paths /\ thread'[r].device \in Devices
  <2>1. thread \in [Threads -> ThreadStates]
    BY DEF CacheInv
  <2>2. PICK r : r = [thread[t] EXCEPT !.phase = "using", !.entry = e]
    OBVIOUS
  <2>3. r \in ThreadStates /\ r.phase = "using"
    BY <1>4, <2>1, <2>2 DEF ThreadStates
  <2>4. thread' = [thread EXCEPT ![t] = r]
    BY <1>3, <2>2
  <2> QED
    BY <2>1, <2>3, <2>4 DEF CacheInv
<1>7. PICK u : u = cachedModels'
  OBVIOUS
<1>8. CASE Positions(s, e.id) # {}
  <2>1. cachedModels' = Append(Without(s, e.id), e) /\ unloaded' = old
    BY <1>3, <1>8
  <2>2. PICK i \in 1..Len(s) : e.id = s[i].id
    BY <1>2, <1>8, LenProperties DEF Positions
  <2>3. PICK w : w = Without(s, e.id)
    OBVIOUS
  <2>4. u = Append(w, e)
    BY <1>7, <2>1, <2>3
  <2>41. Covered(e, s[i])
    <3>1. i \in Positions(s, e.id)
      BY <1>2, <2>2, LenProperties DEF Positions
    <3>2. e.id = ModelId(p) /\ e.weighed = v /\ e.device = d /\ e.size = size
      BY <1>1
    <3>3. v => s[i].weighed /\ s[i].device = d /\ size <= s[i].size
      BY <1>1, <3>1, <3>2 DEF Weighs
    <3> QED
      BY <3>2, <3>3 DEF Covered
  <2>5. PICK q : Renewed(u, s, q)
    BY <1>2, <1>4, <2>2, <2>3, <2>4, <2>41, MovedRenews
  <2>6. CacheFits(u)
    BY <1>2, <2>5, RenewedFits
  <2>7. PICK x : Rearranged(w, s, x)
    BY <1>2, <2>3, WithoutRearranges
  <2>8. old \in SUBSET (1..c) /\ (\A k \in 1..Len(s) : s[k].serial \notin old)
    BY <1>2 DEF Loaded
  <2>9. \A k \in 1..Len(w) : w[k].serial \notin old
    BY <2>7, <2>8 DEF Rearranged
  <2>10. Loaded(w, old, c) /\ w \in Seq(CachedEntries)
    BY <1>2, <2>7, <2>8, <2>9, RearrangedLoaded DEF Rearranged
  <2>11. Loaded(u, old, c + 1)
    BY <1>2, <1>4, <2>4, <2>10, LoadedNew
  <2> QED
    BY <1>3, <1>5, <1>6, <1>7, <2>1, <2>6, <2>11 DEF CacheInv
<1>9. CASE Positions(s, e.id) = {}
  <2>1. PICK r, new : /\ r = SubSeq(s, n + 1, Len(s))
                      /\ new = old \cup Deleted(ToSet(SubSeq(s, 1, n)))
    OBVIOUS
  <2>2. cachedModels' = Append(r, e) /\ unloaded' = new
    BY <1>3, <1>9, <2>1
  <2>3. n \in Nat /\ n <= Len(s) /\ Room(r, e)
    BY <1>1, <1>2, <2>1, EvictionsMakeRoom
  <2>4. PICK q : Rearranged(r, s, q)
    BY <1>2, <2>1, <2>3, RestRearranges DEF Shifted
  <2>5. CacheFits(r) /\ r \in Seq(CachedEntries)
    BY <1>2, <2>4, RearrangedIsRenewed, RenewedFits DEF Rearranged
  <2>6. \A k \in 1..Len(r) : r[k].id # e.id
    <3>1. \A k \in 1..Len(s) : s[k].id # e.id
      BY <1>2, <1>9, LenProperties DEF Positions
    <3> QED
      BY <2>4, <3>1 DEF Rearranged
  <2>7. CacheFits(u)
    BY <1>4, <1>7, <2>2, <2>3, <2>5, <2>6, AppendedFits
  <2>8. Loaded(r, new, c)
    BY <1>2, <2>1, <2>3, EvictedAreGone
  <2>9. Loaded(Append(r, e), new, c + 1)
    BY <1>2, <1>4, <2>5, <2>8, LoadedNew
  <2> QED
    BY <1>3, <1>5, <1>6, <1>7, <2>2, <2>7, <2>9 DEF CacheInv
<1> QED
  BY <1>8, <1>9

LEMMA EvictModelKeeps ==
  ASSUME CacheInv, NEW p \in Paths, EvictModel(p)
  PROVE  CacheInv'
<1>1. PICK c, s, old, id, w, new :
        /\ c = loadCount /\ s = cachedModels /\ old = unloaded /\ id = ModelId(p)
        /\ w = cachedModels' /\ new = unloaded'
  OBVIOUS
<1>2. /\ c \in Nat /\ CacheFits(s) /\ Loaded(s, old, c) /\ s \in Seq(CachedEntries)
  BY <1>1 DEF CacheInv, CacheFits
<1>3. /\ w = Without(s, id) /\ new = old \cup Deleted({s[k] : k \in Positions(s, id)})
      /\ UNCHANGED <<file, thread, loadCount>>
  BY <1>1 DEF EvictModel
<1>4. PICK q : Rearranged(w, s, q) /\ \A k \in 1..Len(w) : s[q[k]].id # id
  BY <1>2, <1>3, WithoutRearranges
<1>5. CacheFits(w)
  BY <1>2, <1>4, RearrangedIsRenewed, RenewedFits
<1>6. \A x \in new \ old : \E i \in 1..Len(s) : s[i].id = id /\ x = s[i].serial
  <2>1. \A i \in Positions(s, id) : i \in 1..Len(s) /\ s[i].id = id
    BY <1>2, LenProperties DEF Positions
  <2> QED
    BY <1>3, <2>1 DEF Deleted
<1>7. \A i \in 1..Len(s) : s[i].serial \in 1..c /\ s[i].serial \notin old
  BY <1>2 DEF Loaded
<1>8. new \in SUBSET (1..c)
  <2>1. old \subseteq 1..c
    BY <1>2 DEF Loaded
  <2>2. ASSUME NEW x \in new PROVE x \in 1..c
    <3>1. CASE x \in old
      BY <2>1, <3>1
    <3>2. CASE x \notin old
      BY <1>6, <1>7, <3>2
    <3> QED
      BY <3>1, <3>2
  <2> QED
    BY <2>2
<1>9. ASSUME NEW k \in 1..Len(w), w[k].serial \in new PROVE FALSE
  <2>1. q[k] \in 1..Len(s) /\ w[k] = s[q[k]] /\ s[q[k]].id # id
    BY <1>4 DEF Rearranged
  <2>2. PICK i \in 1..Len(s) : s[i].id = id /\ w[k].serial = s[i].serial
    BY <1>6, <1>7, <1>9, <2>1
  <2>3. i = q[k]
    BY <1>2, <2>1, <2>2 DEF Loaded
  <2> QED
    BY <2>1, <2>2, <2>3
<1>10. Loaded(w, new, c)
  BY <1>2, <1>4, <1>8, <1>9, RearrangedLoaded
<1> QED
  BY <1>1, <1>3, <1>5, <1>10 DEF CacheInv

LEMMA CacheSteps == CacheInv /\ [CacheNext]_cacheVars => CacheInv'
<1> SUFFICES ASSUME CacheInv, [CacheNext]_cacheVars PROVE CacheInv'
  OBVIOUS
<1>1. ASSUME NEW p \in Paths, FileChanges(p) PROVE CacheInv'
  BY <1>1 DEF FileChanges, CacheInv
<1>2. ASSUME NEW p \in Paths, EvictModel(p) PROVE CacheInv'
  BY <1>2, EvictModelKeeps
<1>3. ASSUME NEW t \in Threads, LoadFails(t) \/ Release(t) PROVE CacheInv'
  <2>1. /\ thread' = [thread EXCEPT ![t] = AtRest]
        /\ UNCHANGED <<cachedModels, file, loadCount, unloaded>>
    BY <1>3 DEF LoadFails, Release
  <2>2. AtRest \in ThreadStates /\ AtRest.phase = "idle"
    BY RestIsTyped DEF AtRest
  <2> QED
    BY <2>1, <2>2 DEF CacheInv
<1>4. ASSUME NEW t \in Threads, LoadAndPut(t) PROVE CacheInv'
  BY <1>4, LoadAndPutKeeps
<1>5. ASSUME NEW t \in Threads, NEW p \in Paths, NEW d \in Devices, LookUp(t, p, d)
      PROVE  CacheInv'
  BY <1>5, LookUpKeeps
<1>6. CASE UNCHANGED cacheVars
  BY <1>6 DEF cacheVars, CacheInv
<1> QED
  BY <1>1, <1>2, <1>3, <1>4, <1>5, <1>6 DEF CacheNext

LEMMA CacheInvIsSound == CacheInv => CacheTypeOK /\ CacheWithinBounds
<1> SUFFICES ASSUME CacheInv PROVE CacheTypeOK /\ CacheWithinBounds
  OBVIOUS
<1>1. PICK s, c, old : s = cachedModels /\ c = loadCount /\ old = unloaded
  OBVIOUS
<1>2. /\ CacheFits(s) /\ Loaded(s, old, c) /\ s \in Seq(CachedEntries)
      /\ c \in 0..MaxModelLoads
  BY <1>1 DEF CacheInv, CacheFits
<1>3. DOMAIN s = 1..Len(s)
  BY <1>2, LenProperties
<1>4. CacheTypeOK
  <2>1. old \subseteq 1..c
    BY <1>2 DEF Loaded
  <2>2. 1..c \subseteq 1..MaxModelLoads
    BY <1>2, CacheAssumption
  <2> QED
    BY <1>1, <1>2, <2>1, <2>2 DEF CacheTypeOK, CacheInv, ThreadStates
<1>5. ASSUME NEW d \in Devices
      PROVE  WeighedBytes(s, d) <= Budget(d) \/ Cardinality(Weighed(s, d)) = 1
  <2>2. DeviceFits(s, d) /\ Budget(d) \in Nat
    BY <1>2, CacheAssumption DEF CacheFits
  <2>3. IsFiniteSet(Weighed(s, d)) /\ Cardinality(Weighed(s, d)) \in Nat
    BY <1>2, WeighedAreSome
  <2>4. CASE Cardinality(Weighed(s, d)) = 0
    <3>1. Weighed(s, d) = {}
      BY <2>3, <2>4, FS_EmptySet
    <3>2. BytesOf(s, Weighed(s, d)) = {}
      BY <3>1 DEF BytesOf
    <3>3. WeighedBytes(s, d) = 0
      BY <3>2, FS_EmptySet DEF WeighedBytes
    <3> QED
      BY <2>2, <3>3
  <2> QED
    BY <2>2, <2>3, <2>4 DEF DeviceFits
<1>6. /\ Len(s) <= MaxModels
      /\ \A j, k \in DOMAIN s : s[j].id = s[k].id => j = k
      /\ \A k \in DOMAIN s : s[k].serial \notin old
  BY <1>2, <1>3 DEF CacheFits, Loaded
<1> QED
  BY <1>1, <1>4, <1>5, <1>6 DEF CacheWithinBounds, WeighedBytes

LEMMA LeastOfTwo ==
  ASSUME NEW a \in Int, NEW b \in Int
  PROVE  Min({a, b}) = (IF a <= b THEN a ELSE b)
BY DEF Min

-----------------------------------------------------------------------------
(* InferenceServers.  A vector of the agent's has no rates: the heuristics *)
(* find nothing to block in it.                                            *)
Answers == [class : 0..7, risk : 0..100]

LEMMA HeuristicAnswers ==
  ASSUME NEW v \in Vectors
  PROVE  /\ Heuristic(v) \in Answers
         /\ v.len <= AgentLen => Heuristic(v).class = 0 \/ Heuristic(v).risk < BlockAt
<1>1. PICK f : f = Padded(v)
  OBVIOUS
<1>2. CASE f[49] > 5 /\ f[52] < 1 /\ f[57] > 60
  <2>1. Heuristic(v) = [class |-> 2, risk |-> 88]
    BY <1>1, <1>2 DEF Heuristic
  <2>2. ASSUME v.len <= AgentLen PROVE FALSE
    <3>1. v \in [len : Nat, at : [{4, 5, 6, 49, 52, 56, 57} -> Int]] /\ AgentLen \in 0..56
      BY ServeAssumption
    <3>2. DOMAIN v.at = {4, 5, 6, 49, 52, 56, 57} /\ v.len \in Nat
      BY <3>1
    <3>3. ~(57 < v.len)
      BY <2>2, <3>1, <3>2
    <3>4. f[57] = 0
      BY <1>1, <3>2, <3>3 DEF Padded
    <3> QED
      BY <1>2, <3>4
  <2> QED
    BY <2>1, <2>2 DEF Answers
<1>3. CASE /\ ~(f[49] > 5 /\ f[52] < 1 /\ f[57] > 60)
           /\ f[4] < 15 /\ f[5] < 20 /\ f[6] < 5
  <2>1. Heuristic(v) = [class |-> 3, risk |-> 65]
    BY <1>1, <1>3 DEF Heuristic
  <2> QED
    BY <2>1 DEF Answers, BlockAt
<1>4. CASE /\ ~(f[49] > 5 /\ f[52] < 1 /\ f[57] > 60)
           /\ ~(f[4] < 15 /\ f[5] < 20 /\ f[6] < 5)
  <2>1. Heuristic(v) = IF f[57] > 70 /\ f[4] < 20 THEN [class |-> 4, risk |-> 72]
                       ELSE IF f[56] > 100 THEN [class |-> 1, risk |-> 80]
                       ELSE [class |-> 0, risk |-> 3]
    BY <1>1, <1>4 DEF Heuristic
  <2>2. ASSUME v.len <= AgentLen PROVE Heuristic(v) = [class |-> 0, risk |-> 3]
    <3>1. v \in [len : Nat, at : [{4, 5, 6, 49, 52, 56, 57} -> Int]] /\ AgentLen \in 0..56
      BY ServeAssumption
    <3>2. DOMAIN v.at = {4, 5, 6, 49, 52, 56, 57} /\ v.len \in Nat
      BY <3>1
    <3>3. ~(57 < v.len) /\ ~(56 < v.len)
      BY <2>2, <3>1, <3>2
    <3>4. f[57] = 0 /\ f[56] = 0
      BY <1>1, <3>2, <3>3 DEF Padded
    <3> QED
      BY <2>1, <3>4
  <2> QED
    BY <2>1, <2>2 DEF Answers
<1> QED
  BY <1>2, <1>3, <1>4

LEMMA NetAnswersTyped == NetAnswers \subseteq Answers
<1>1. ASSUME NEW a \in 0..7, NEW p \in Probs
      PROVE  [class |-> a, risk |-> (RiskScores[a + 1] * p) \div 100] \in Answers
  <2>1. p \in 0..100
    BY ServeAssumption
  <2>2. PICK r \in 0..100 : r = RiskScores[a + 1]
    <3>1. a \in {0, 1, 2, 3, 4, 5, 6, 7}
      OBVIOUS
    <3>2. RiskScores[a + 1] \in 0..100
      BY <3>1 DEF RiskScores
    <3> QED
      BY <3>2
  <2>3. r * p \in Nat /\ r * p <= 100 * 100
    BY <2>1
  <2>4. (r * p) \div 100 \in 0..100
    BY <2>3
  <2> QED
    BY <2>2, <2>4 DEF Answers
<1> QED
  BY <1>1 DEF NetAnswers

LEMMA AnswersTyped ==
  ASSUME NEW v \in Vectors, NEW a \in AnswersFor(v)
  PROVE  /\ a \in Answers
         /\ mode \notin {"pytorch", "onnx"} /\ v.len <= AgentLen =>
              a.class = 0 \/ a.risk < BlockAt
<1>1. CASE mode \in {"pytorch", "onnx"}
  BY <1>1, NetAnswersTyped DEF AnswersFor
<1>2. CASE mode \notin {"pytorch", "onnx"}
  BY <1>2, HeuristicAnswers DEF AnswersFor
<1> QED
  BY <1>1, <1>2

-----------------------------------------------------------------------------
(* The second server's answers.                                            *)
Tells(score, class) == score \in 0..1000 /\ (class = "benign" <=> score < 300)

SoundScore(a, torch) ==
  /\ Tells(a.score, a.class)
  /\ a.action = "BLOCK" /\ ~torch => a.class = "syn_flood" /\ a.score >= 700

LEMMA GreatestOfThree ==
  ASSUME NEW a \in Int, NEW b \in Int, NEW c \in Int
  PROVE  Max({a, b, c}) \in {a, b, c}
<1>1. \E x \in {a, b, c} : \A y \in {a, b, c} : x >= y
  <2>1. CASE a >= b /\ a >= c
    BY <2>1
  <2>2. CASE b >= a /\ b >= c
    BY <2>2
  <2>3. CASE c >= a /\ c >= b
    BY <2>3
  <2> QED
    BY <2>1, <2>2, <2>3
<1> QED
  BY <1>1 DEF Max

LEMMA ThreatScores ==
  ASSUME NEW class, NEW raw \in 0..100, NEW score, score = ThreatScore(class, raw)
  PROVE  Tells(score, class)
<1>1. CASE class = "benign"
  <2>1. score = (raw * 5) \div 2
    BY <1>1 DEF ThreatScore
  <2> QED
    BY <1>1, <2>1 DEF Tells
<1>2. CASE class = "syn_flood"
  <2>1. score = Min({1000, 300 + raw * 7})
    BY <1>2 DEF ThreatScore
  <2>2. 300 + raw * 7 \in Int /\ 1000 \in Int /\ 300 + raw * 7 >= 300
    OBVIOUS
  <2>3. Min({1000, 300 + raw * 7}) = IF 1000 <= 300 + raw * 7 THEN 1000 ELSE 300 + raw * 7
    BY <2>2, LeastOfTwo
  <2> QED
    BY <1>2, <2>1, <2>2, <2>3 DEF Tells
<1>3. CASE class \notin {"benign", "syn_flood"}
  <2>1. score = Min({1000, 300 + raw * 6})
    BY <1>3 DEF ThreatScore
  <2>2. 300 + raw * 6 \in Int /\ 1000 \in Int /\ 300 + raw * 6 >= 300
    OBVIOUS
  <2>3. Min({1000, 300 + raw * 6}) = IF 1000 <= 300 + raw * 6 THEN 1000 ELSE 300 + raw * 6
    BY <2>2, LeastOfTwo
  <2> QED
    BY <1>3, <2>1, <2>2, <2>3 DEF Tells
<1> QED
  BY <1>1, <1>2, <1>3

LEMMA ScoresInRange ==
  ASSUME NEW s \in Signals
  PROVE  SignalScores(s) \in [syn : 0..100, scan : 0..100, normal : 0..100]
<1>1. PICK pps \in 0..100, bwd \in Nat, iat \in 0..100, entropy \in 0..100, win \in 0..100 :
        s = [pps |-> pps, bwd |-> bwd, iat |-> iat, entropy |-> entropy, win |-> win]
  BY ServeAssumption
<1>2. PICK b \in 0..100 : b = Min({bwd, 100})
  <2>1. bwd \in Int /\ 100 \in Int
    OBVIOUS
  <2>2. Min({bwd, 100}) = IF bwd <= 100 THEN bwd ELSE 100
    BY <2>1, LeastOfTwo
  <2> QED
    BY <2>2
<1>3. SignalScores(s) = [syn |-> (pps * 5 + (100 - b) * 3 + (100 - iat) * 2) \div 10,
                         scan |-> (entropy * 7 + (100 - win) * 3) \div 10,
                         normal |-> ((100 - pps) * 4 + iat * 3 + win * 3) \div 10]
  BY <1>1, <1>2 DEF SignalScores
<1>4. (pps * 5 + (100 - b) * 3 + (100 - iat) * 2) \div 10 \in 0..100
  OBVIOUS
<1>5. (entropy * 7 + (100 - win) * 3) \div 10 \in 0..100
  OBVIOUS
<1>6. ((100 - pps) * 4 + iat * 3 + win * 3) \div 10 \in 0..100
  OBVIOUS
<1> QED
  BY <1>3, <1>4, <1>5, <1>6

LEMMA RuleBasedSound ==
  ASSUME NEW s \in Signals
  PROVE  SoundScore(RuleBased(s), FALSE)
<1>1. PICK r : r = SignalScores(s)
  OBVIOUS
<1>2. r.syn \in 0..100 /\ r.scan \in 0..100 /\ r.normal \in 0..100
  BY <1>1, ScoresInRange
<1>3. PICK class : class = IF r.syn >= r.scan /\ r.syn >= r.normal THEN "syn_flood"
                           ELSE IF r.scan >= r.normal THEN "port_scan" ELSE "benign"
  OBVIOUS
<1>4. PICK raw \in 0..100 : raw = Max({r.syn, r.scan, r.normal})
  <2>1. r.syn \in Int /\ r.scan \in Int /\ r.normal \in Int
    BY <1>2
  <2>2. Max({r.syn, r.scan, r.normal}) \in {r.syn, r.scan, r.normal}
    BY <2>1, GreatestOfThree
  <2>3. Max({r.syn, r.scan, r.normal}) \in 0..100
    BY <1>2, <2>2
  <2> QED
    BY <2>3
<1>5. PICK score : score = ThreatScore(class, raw)
  OBVIOUS
<1>6. RuleBased(s) = Rated(class, score)
  BY <1>1, <1>3, <1>4, <1>5 DEF RuleBased
<1>7. Tells(score, class)
  BY <1>5, ThreatScores
<1>8. PICK a : a = RuleBased(s)
  OBVIOUS
<1>9. /\ a.class = class /\ a.score = score
      /\ class = "benign" => a.action = "ALLOW"
      /\ class = "syn_flood" => a.action = IF score >= 700 THEN "BLOCK" ELSE "THROTTLE"
      /\ class = "port_scan" => a.action = "INSPECT"
  BY <1>6, <1>8 DEF Rated
<1>10. class \in {"benign", "syn_flood", "port_scan"}
  BY <1>3
<1> QED
  BY <1>7, <1>8, <1>9, <1>10 DEF SoundScore, Tells

LEMMA NeuralSound ==
  ASSUME NEW a \in NeuralAnswers
  PROVE  SoundScore(a, TRUE)
<1>1. PICK c \in {"benign", "syn_flood"}, x \in {"ALLOW", "BLOCK"}, p \in Probs :
        a = [class |-> c, action |-> x, score |-> IF c = "benign" THEN p * 2 ELSE 300 + p * 7]
  BY DEF NeuralAnswers
<1>2. p \in 0..100
  BY ServeAssumption
<1> QED
  BY <1>1, <1>2 DEF SoundScore, Tells

-----------------------------------------------------------------------------
(* There are answers only of servers that started.                         *)
SoundReply(d) ==
  /\ d.class \in 0..7 /\ d.risk \in 0..100
  /\ d.blocked => /\ d.class # 0 /\ d.risk >= BlockAt
                  /\ ~(mode = "heuristic" /\ d.len <= AgentLen)

ServeInv ==
  /\ mode \in {"none", "pytorch", "onnx", "heuristic"}
  /\ mode = "none" => reply = <<>>
  /\ dqn.version = "none" => dqnReply = <<>>
  /\ \A i \in DOMAIN reply : SoundReply(reply[i])
  /\ \A i \in DOMAIN dqnReply : SoundScore(dqnReply[i], dqn.torch)

LEMMA ServeStarts == ServeInit => ServeInv
<1>1. DOMAIN << >> = {}
  OBVIOUS
<1> QED
  BY <1>1 DEF ServeInit, ServeInv

LEMMA RepliesAreSound ==
  ASSUME NEW n \in Nat, NEW vs \in [1..n -> Vectors], NEW as, NEW ids,
         \A i \in 1..n : as[i] \in AnswersFor(vs[i]), NEW i \in 1..n
  PROVE  /\ SoundReply(V1Decision(i, vs[i], ids, as[i]))
         /\ SoundReply([id |-> <<"id", i>>, len |-> vs[i].len, class |-> as[i].class,
              risk |-> as[i].risk, blocked |-> FALSE, confidence |-> 100 - as[i].risk])
<1>1. PICK v, a : v \in Vectors /\ v = vs[i] /\ a = as[i] /\ a \in AnswersFor(v)
  OBVIOUS
<1>2. a.class \in 0..7 /\ a.risk \in 0..100
  BY <1>1, AnswersTyped DEF Answers
<1>3. mode = "heuristic" /\ v.len <= AgentLen => a.class = 0 \/ a.risk < BlockAt
  BY <1>1, AnswersTyped
<1>4. PICK d : d = V1Decision(i, v, ids, a)
  OBVIOUS
<1>5. d.class = a.class /\ d.risk = a.risk /\ d.len = v.len
  BY <1>4 DEF V1Decision
<1>6. ASSUME ~(a.class # 0 /\ a.risk >= BlockAt) PROVE d.blocked = FALSE
  BY <1>4, <1>6 DEF V1Decision
<1>7. SoundReply(d)
  <2>1. CASE a.class # 0 /\ a.risk >= BlockAt
    <3>1. ~(mode = "heuristic" /\ v.len <= AgentLen)
      <4>1. PICK r \in 0..100 : r = a.risk
        BY <1>2
      <4>2. r >= BlockAt
        BY <2>1, <4>1
      <4>3. ~(r < BlockAt)
        BY <4>2 DEF BlockAt
      <4>4. ~(a.class = 0 \/ a.risk < BlockAt)
        BY <2>1, <4>1, <4>3
      <4> QED
        BY <1>3, <4>4, Zenon
    <3>2. d.class # 0 /\ d.risk >= BlockAt
      BY <1>5, <2>1, Zenon
    <3>3. ~(mode = "heuristic" /\ d.len <= AgentLen)
      <4>1. d.len <= AgentLen => v.len <= AgentLen
        BY <1>5, Zenon
      <4> QED
        BY <3>1, <4>1
    <3>4. d.class \in 0..7 /\ d.risk \in 0..100
      BY <1>2, <1>5
    <3> QED
      BY <3>2, <3>4, <3>3, Zenon DEF SoundReply
  <2>2. CASE ~(a.class # 0 /\ a.risk >= BlockAt)
    BY <1>2, <1>5, <1>6, <2>2 DEF SoundReply
  <2> QED
    BY <2>1, <2>2
<1> QED
  BY <1>1, <1>2, <1>4, <1>7 DEF SoundReply

LEMMA ServeSteps == ServeInv /\ [ServeNext]_serveVars => ServeInv'
<1> SUFFICES ASSUME ServeInv, [ServeNext]_serveVars PROVE ServeInv'
  OBVIOUS
<1>1. DOMAIN << >> = {}
  OBVIOUS
<1>2. CASE LoadServed
  <2>1. reply = << >> /\ reply' = reply /\ UNCHANGED <<dqn, dqnReply>>
    BY <1>2 DEF LoadServed, ServeInv
  <2>2. mode' \in {"pytorch", "onnx", "heuristic"}
    BY <1>2 DEF LoadServed
  <2> QED
    BY <1>1, <2>1, <2>2 DEF ServeInv
<1>3. CASE ReplySent
  BY <1>1, <1>3 DEF ReplySent, ServeInv
<1>4. ASSUME NEW n \in BatchSizes, NEW vs \in [1..n -> Vectors], PredictBatch(vs)
      PROVE  ServeInv'
  <2>1. PICK as : /\ \A i \in DOMAIN vs : as[i] \in AnswersFor(vs[i])
                  /\ reply' = [i \in DOMAIN vs |->
                       [id |-> <<"id", i>>, len |-> vs[i].len, class |-> as[i].class,
                        risk |-> as[i].risk, blocked |-> FALSE, confidence |-> 100 - as[i].risk]]
    BY <1>4 DEF PredictBatch
  <2>2. DOMAIN vs = 1..n /\ n \in Nat
    BY ServeAssumption
  <2>3. DOMAIN reply' = 1..n
    BY <2>1, <2>2
  <2>4. UNCHANGED <<mode, dqn, dqnReply>> /\ mode # "none"
    BY <1>4 DEF PredictBatch
  <2>5. ASSUME NEW i \in 1..n PROVE SoundReply(reply'[i])
    BY <2>1, <2>2, RepliesAreSound
  <2>6. \A i \in DOMAIN reply' : SoundReply(reply[i])'
    BY <2>3, <2>4, <2>5 DEF SoundReply
  <2> QED
    BY <2>4, <2>6 DEF ServeInv
<1>5. ASSUME NEW n \in BatchSizes, NEW vs \in [1..n -> Vectors], NEW ids \in 0..n,
             AnalyzeBatch(vs, ids)
      PROVE  ServeInv'
  <2>1. PICK as : /\ \A i \in DOMAIN vs : as[i] \in AnswersFor(vs[i])
                  /\ reply' = [i \in DOMAIN vs |-> V1Decision(i, vs[i], ids, as[i])]
    BY <1>5 DEF AnalyzeBatch
  <2>2. DOMAIN vs = 1..n /\ n \in Nat
    BY ServeAssumption
  <2>3. DOMAIN reply' = 1..n
    BY <2>1, <2>2
  <2>4. UNCHANGED <<mode, dqn, dqnReply>> /\ mode # "none"
    BY <1>5 DEF AnalyzeBatch
  <2>5. ASSUME NEW i \in 1..n PROVE SoundReply(reply'[i])
    BY <2>1, <2>2, RepliesAreSound
  <2>6. \A i \in DOMAIN reply' : SoundReply(reply[i])'
    BY <2>3, <2>4, <2>5 DEF SoundReply
  <2> QED
    BY <2>4, <2>6 DEF ServeInv
<1>6. ASSUME NEW torch \in BOOLEAN, NEW trained \in BOOLEAN, StartDqn(torch, trained)
      PROVE  ServeInv'
  <2>1. dqnReply = << >> /\ UNCHANGED <<mode, reply, dqnReply>>
    BY <1>6 DEF StartDqn, ServeInv
  <2> QED
    BY <1>1, <2>1 DEF ServeInv, SoundReply
<1>7. ASSUME NEW s \in Signals, DqnPredict(s) PROVE ServeInv'
  <2>1. PICK a \in (IF dqn.torch THEN NeuralAnswers ELSE {RuleBased(s)}) : dqnReply' = <<a>>
    BY <1>7 DEF DqnPredict
  <2>2. SoundScore(a, dqn.torch)
    BY <2>1, NeuralSound, RuleBasedSound DEF SoundScore
  <2>3. UNCHANGED <<mode, reply, dqn>> /\ dqn.version # "none"
    BY <1>7 DEF DqnPredict
  <2>4. DOMAIN dqnReply' = {1} /\ dqnReply'[1] = a
    BY <2>1
  <2> QED
    BY <2>2, <2>3, <2>4 DEF ServeInv, SoundReply, SoundScore
<1>8. CASE UNCHANGED serveVars
  BY <1>8 DEF serveVars, ServeInv, SoundReply
<1> QED
  BY <1>2, <1>3, <1>4, <1>5, <1>6, <1>7, <1>8 DEF ServeNext

LEMMA ServeInvIsSound == ServeInv => ServeTypeOK /\ BlockedForAReason
BY DEF ServeInv, ServeTypeOK, BlockedForAReason, SoundReply, SoundScore, Tells

-----------------------------------------------------------------------------
(* The cached models fit their devices and no deleted one is handed out,   *)
(* and only threats are blocked, for a reason that the vector shows:       *)
(* put() and evict() of model_cache.py, analyze_batch() and predict() of   *)
(* the inference servers, which may act at once.                           *)
THEOREM ServingIsAlwaysSound == ServingSpec => []ServingSound
<1>1. CacheInit => CacheInv
  BY CacheStarts
<1>2. CacheInv /\ [CacheNext]_cacheVars => CacheInv'
  BY CacheSteps
<1>3. CacheInv => CacheTypeOK /\ CacheWithinBounds
  BY CacheInvIsSound
<1>4. ServeInit => ServeInv
  BY ServeStarts
<1>5. ServeInv /\ [ServeNext]_serveVars => ServeInv'
  BY ServeSteps
<1>6. ServeInv => ServeTypeOK /\ BlockedForAReason
  BY ServeInvIsSound
<1>7. CacheSpec => [](CacheTypeOK /\ CacheWithinBounds)
  BY <1>1, <1>2, <1>3, PTL DEF CacheSpec
<1>8. ServeSpec => [](ServeTypeOK /\ BlockedForAReason)
  BY <1>4, <1>5, <1>6, PTL DEF ServeSpec
<1> QED
  BY <1>7, <1>8, PTL DEF ServingSpec, ServingSound
-----------------------------------------------------------------------------
(* RateLimiter: the account the limiters keep of a client.                 *)

(* Times(ts, now): ts holds times up to now, none later than the next.     *)
Rising(ts) == \A i, j \in 1..Len(ts) : i <= j => ts[i] <= ts[j]
Times(ts, now) == ts \in Seq(Nat) /\ Rising(ts) /\ \A i \in 1..Len(ts) : ts[i] <= now

LEMMA LimiterNumbers ==
  /\ Secs(Window) \in Nat /\ TicksPerSecond \in Nat \ {0} /\ Window \in Nat \ {0}
  /\ MaxCount \in Nat \ {0} /\ Secs(Stale) \in Nat /\ Secs(Stale) >= Secs(Window)
  /\ Capacity \in Nat \ {0} /\ Rate \in Nat \ {0}
<1>1. ASSUME NEW a \in Nat, NEW b \in Nat, NEW u \in Nat, b >= a PROVE a * u \in Nat /\ b * u >= a * u
  BY <1>1
<1> QED
  BY <1>1, LimiterAssumption DEF LimiterAssumption, Secs

LEMMA FirstNaturals ==
  ASSUME NEW n \in Nat
  PROVE  IsFiniteSet(1..n) /\ Cardinality(1..n) = n
<1>1. Cardinality(1..n) = IF 1 > n THEN 0 ELSE n - 1 + 1
  BY FS_Interval, 1 \in Int, n \in Int
<1>2. IsFiniteSet(1..n)
  BY FS_Interval, 1 \in Int, n \in Int
<1> QED
  BY <1>1, <1>2

LEMMA EvictedIs ==
  ASSUME NEW ts \in Seq(Nat), tick \in Nat
  PROVE  /\ Evicted(ts) \in 0..Len(ts)
         /\ \A i \in 1..Evicted(ts) : Outdated(ts[i])
         /\ Evicted(ts) < Len(ts) => ~Outdated(ts[Evicted(ts) + 1])
<1> DEFINE l == Len(ts)
           S == {n \in 0..l : n < l => ~Outdated(ts[n + 1])}
<1>1. l \in Nat
  BY LenProperties
<1>2. S \in SUBSET Nat /\ S # {}
  <2>1. l \in S
    BY <1>1
  <2> QED
    BY <1>1, <2>1
<1>3. PICK n \in S : \A m \in S : n <= m
  BY <1>2, LeastNatural
<1>4. \A i \in 1..n : Outdated(ts[i])
  <2>1. SUFFICES ASSUME NEW i \in 1..n PROVE Outdated(ts[i])
    OBVIOUS
  <2>2. n \in 0..l /\ i - 1 \in 0..l /\ i - 1 < l /\ (i - 1) + 1 = i /\ ~(n <= i - 1)
    BY <1>1
  <2>3. i - 1 \notin S
    BY <1>3, <2>2
  <2> HIDE DEF l
  <2> QED
    BY <2>2, <2>3
<1>5. (n \in 0..l) /\ (\A i \in 1..n : Outdated(ts[i])) /\ (n < l => ~Outdated(ts[n + 1]))
  BY <1>4
<1> HIDE DEF S
<1> QED
  BY <1>5 DEF Evicted

(* What InsideWindow keeps: a suffix, and all that is not outdated.        *)
LEMMA InsideIs ==
  ASSUME NEW ts, Times(ts, tick), tick \in Nat
  PROVE  \E e \in Nat, l \in Nat :
           /\ Len(ts) = l + e /\ InsideWindow(ts) \in Seq(Nat) /\ Len(InsideWindow(ts)) = l
           /\ \A i \in 1..l : InsideWindow(ts)[i] = ts[i + e]
           /\ \A i \in 1..e : ts[i] + Secs(Window) < tick
           /\ \A i \in 1..l : InsideWindow(ts)[i] + Secs(Window) >= tick
<1> DEFINE e == Evicted(ts)
           W == Secs(Window)
           u == InsideWindow(ts)
<1>1. ts \in Seq(Nat) /\ Len(ts) \in Nat
  BY LenProperties DEF Times
<1>2. /\ e \in 0..Len(ts) /\ \A i \in 1..e : Outdated(ts[i])
      /\ e < Len(ts) => ~Outdated(ts[e + 1])
  BY <1>1, EvictedIs
<1>3. u = SubSeq(ts, e + 1, Len(ts))
  BY DEF InsideWindow
<1> DEFINE n == Len(ts)
           l == n - e
<1> HIDE DEF e
<1>4. e \in Nat /\ l \in Nat /\ n = l + e /\ e + 1 \in Int /\ n \in Nat
  BY <1>1, <1>2
<1>5. u \in Seq(Nat) /\ Len(u) = l /\ \A i \in 1..l : u[i] = ts[i + e]
  <2>1. e + 1 \in 1..(n + 1) /\ n \in (e + 1 - 1)..n
    BY <1>1, <1>2
  <2>2. u \in Seq(Nat) /\ Len(u) = n - (e + 1) + 1 /\ \A i \in 1..(n - (e + 1) + 1) : u[i] = ts[e + 1 + i - 1]
    <3>1. \A i \in (e + 1)..n : ts[i] \in Nat
      BY <1>1, <1>4
    <3>2. e \in Nat /\ n \in Nat /\ e <= n /\ e + 1 \in Int /\ n \in Int
      BY <1>1, <1>2
    <3> HIDE DEF u, l, n
    <3>3. u = SubSeq(ts, e + 1, n)
      BY <1>3 DEF n
    <3>4. /\ SubSeq(ts, e + 1, n) \in Seq(Nat)
          /\ Len(SubSeq(ts, e + 1, n)) = IF e + 1 <= n THEN n - (e + 1) + 1 ELSE 0
          /\ \A i \in 1..(n - (e + 1) + 1) : SubSeq(ts, e + 1, n)[i] = ts[e + 1 + i - 1]
      BY <3>1, <3>2, SubSeqProperties
    <3>5. Len(u) = n - (e + 1) + 1
      BY <3>2, <3>3, <3>4
    <3> QED
      BY <3>3, <3>4, <3>5
  <2>3. n - (e + 1) + 1 = l /\ \A i \in 1..l : e + 1 + i - 1 = i + e
    BY <1>4
  <2> HIDE DEF l, u
  <2> QED
    BY <2>2, <2>3
<1>6. \A i \in 1..e : ts[i] + W < tick
  BY <1>2 DEF Outdated
<1>7. ASSUME NEW i \in 1..l PROVE u[i] + W >= tick
  <2>1. e + 1 \in 1..n /\ i + e \in 1..n /\ e + 1 <= i + e /\ e < n
    BY <1>4
  <2>2. ts[e + 1] <= ts[i + e] /\ ts[e + 1] \in Nat /\ ts[i + e] \in Nat
    BY <1>1, <2>1 DEF Times, Rising
  <2>3. ts[e + 1] + W >= tick
    <3>1. ~(ts[e + 1] + W < tick)
      BY <1>2, <2>1 DEF Outdated
    <3> HIDE DEF W
    <3>2. W \in Nat
      BY LimiterNumbers DEF W
    <3> QED
      BY <2>2, <3>1, <3>2
  <2>4. W \in Nat
    BY LimiterNumbers
  <2> HIDE DEF W, l, u
  <2>5. u[i] = ts[i + e]
    BY <1>5
  <2> QED
    BY <2>2, <2>3, <2>4, <2>5
<1> HIDE DEF l, u
<1>8. l \in Nat /\ e \in Nat /\ n = l + e
  BY <1>4
<1> QED
  BY <1>5, <1>6, <1>7, <1>8 DEF u

LEMMA InsideTimes ==
  ASSUME NEW ts, Times(ts, tick), tick \in Nat
  PROVE  Times(InsideWindow(ts), tick)
<1> DEFINE u == InsideWindow(ts)
<1>1. PICK e \in Nat, l \in Nat :
           /\ Len(ts) = l + e /\ u \in Seq(Nat) /\ Len(u) = l
           /\ \A i \in 1..l : u[i] = ts[i + e]
  BY InsideIs
<1>2. \A i \in 1..l : i + e \in 1..Len(ts)
  BY <1>1
<1>3. \A i, j \in 1..l : i <= j => i + e <= j + e
  BY <1>1
<1> HIDE DEF u
<1>4. \A i, j \in 1..l : i <= j => u[i] <= u[j]
  BY <1>1, <1>2, <1>3 DEF Times, Rising
<1>5. \A i \in 1..l : u[i] <= tick
  BY <1>1, <1>2 DEF Times
<1>6. Times(u, tick)
  BY <1>1, <1>4, <1>5 DEF Times, Rising
<1> QED
  BY <1>6 DEF u

LEMMA AppendTimes ==
  ASSUME NEW ts, NEW now \in Nat, Times(ts, now)
  PROVE  Times(Append(ts, now), now)
<1> DEFINE u == Append(ts, now)
<1>1. ts \in Seq(Nat) /\ Len(ts) \in Nat
  BY LenProperties DEF Times
<1> DEFINE l == Len(ts)
<1>2. u \in Seq(Nat) /\ Len(u) = l + 1 /\ u[l + 1] = now /\ \A i \in 1..l : u[i] = ts[i]
  BY <1>1, AppendProperties
<1>3. \A i \in 1..(l + 1) : i \in 1..l \/ i = l + 1
  BY <1>1
<1>4. \A i, j \in 1..(l + 1) : i <= j => (j = l + 1) \/ (i \in 1..l /\ j \in 1..l)
  BY <1>1
<1>5. \A i \in 1..l : ts[i] <= now
  BY DEF Times
<1> HIDE DEF u, l
<1>6. \A i \in 1..(l + 1) : u[i] <= now
  BY <1>2, <1>3, <1>5
<1>7. \A i, j \in 1..(l + 1) : i <= j => u[i] <= u[j]
  <2>1. \A i, j \in 1..l : i <= j => ts[i] <= ts[j]
    BY DEF Times, Rising, l
  <2> QED
    BY <1>2, <1>4, <1>6, <2>1
<1>8. Times(u, now)
  BY <1>2, <1>6, <1>7 DEF Times, Rising
<1> QED
  BY <1>8 DEF u

-----------------------------------------------------------------------------
(* Counting the times from t on.                                           *)
LEMMA CountType ==
  ASSUME NEW ts \in Seq(Nat), NEW t \in Int
  PROVE  CountSince(ts, t) \in Nat /\ CountSince(ts, t) <= Len(ts) /\ Len(ts) \in Nat
<1> DEFINE P == {n \in 1..Len(ts) : ts[n] >= t}
<1>1. Len(ts) \in Nat
  BY LenProperties
<1>2. IsFiniteSet(1..Len(ts)) /\ Cardinality(1..Len(ts)) = Len(ts)
  BY <1>1, FirstNaturals
<1>3. IsFiniteSet(P) /\ Cardinality(P) <= Len(ts) /\ Cardinality(P) \in Nat
  <2>1. P \in SUBSET (1..Len(ts))
    OBVIOUS
  <2> HIDE DEF P
  <2> QED
    BY <1>2, <2>1, FS_Subset, FS_CardinalityType
<1>4. DOMAIN ts = 1..Len(ts)
  OBVIOUS
<1> QED
  BY <1>1, <1>3, <1>4 DEF CountSince

LEMMA CountInside ==
  ASSUME NEW ts, Times(ts, tick), tick \in Nat, NEW t \in Int, t + Secs(Window) >= tick
  PROVE  CountSince(InsideWindow(ts), t) = CountSince(ts, t)
<1> DEFINE u == InsideWindow(ts)
           W == Secs(Window)
<1>1. PICK e \in Nat, l \in Nat :
           /\ Len(ts) = l + e /\ u \in Seq(Nat) /\ Len(u) = l
           /\ \A i \in 1..l : u[i] = ts[i + e]
           /\ \A i \in 1..e : ts[i] + W < tick
  BY InsideIs
<1>2. ts \in Seq(Nat) /\ W \in Nat
  BY LimiterNumbers DEF Times
<1>3. DOMAIN ts = 1..(l + e) /\ DOMAIN u = 1..l
  BY <1>1, <1>2
<1> HIDE DEF u, W
<1> DEFINE P == {n \in 1..l : u[n] >= t}
           Q == {n \in 1..(l + e) : ts[n] >= t}
           f == [n \in P |-> n + e]
<1>4. \A n \in 1..e : ~(ts[n] >= t)
  <2>1. \A n \in 1..e : ts[n] \in Nat
    BY <1>2, <1>3
  <2>2. t + W >= tick
    BY DEF W
  <2> QED
    BY <1>1, <1>2, <2>1, <2>2
<1>5. f \in [P -> Q] /\ (\A n \in P : f[n] = n + e)
  <2>1. \A n \in P : n + e \in Q
    BY <1>1
  <2> QED
    BY <2>1
<1>6. \A m, n \in P : f[m] = f[n] => m = n
  BY <1>5
<1>7. \A q \in Q : \E n \in P : f[n] = q
  <2>1. SUFFICES ASSUME NEW q \in Q PROVE \E n \in P : f[n] = q
    OBVIOUS
  <2>2. q \notin 1..e
    BY <1>4
  <2>3. q - e \in 1..l /\ (q - e) + e = q
    BY <2>2
  <2>4. q - e \in P
    BY <1>1, <2>3
  <2> QED
    BY <1>5, <2>3, <2>4
<1> HIDE DEF f
<1>8. IsFiniteSet(P)
  <2>1. IsFiniteSet(1..l) /\ P \in SUBSET (1..l)
    BY FS_Interval
  <2> HIDE DEF P
  <2> QED
    BY <2>1, FS_Subset
<1> HIDE DEF P, Q
<1>9. f \in Bijection(P, Q)
  BY <1>5, <1>6, <1>7, Fun_IsBij
<1>10. Cardinality(P) = Cardinality(Q)
  BY <1>8, <1>9, FS_Bijection DEF ExistsBijection
<1>11. CountSince(u, t) = Cardinality(P) /\ CountSince(ts, t) = Cardinality(Q)
  BY <1>3 DEF CountSince, P, Q
<1> QED
  BY <1>10, <1>11 DEF u

LEMMA CountAppend ==
  ASSUME NEW ts \in Seq(Nat), NEW x \in Nat, NEW t \in Int
  PROVE  CountSince(Append(ts, x), t) = CountSince(ts, t) + (IF x >= t THEN 1 ELSE 0)
<1> DEFINE l == Len(ts)
           u == Append(ts, x)
           P == {n \in 1..l : ts[n] >= t}
           Q == {n \in 1..(l + 1) : u[n] >= t}
<1>1. l \in Nat /\ DOMAIN ts = 1..l
  BY LenProperties
<1>2. u \in Seq(Nat) /\ Len(u) = l + 1 /\ u[l + 1] = x /\ \A i \in 1..l : u[i] = ts[i]
  BY AppendProperties
<1>3. DOMAIN u = 1..(l + 1)
  BY <1>2
<1>4. IsFiniteSet(P) /\ l + 1 \notin P
  <2>1. IsFiniteSet(1..l) /\ P \in SUBSET (1..l) /\ l + 1 \notin 1..l
    BY <1>1, FS_Interval
  <2> HIDE DEF P
  <2> QED
    BY <2>1, FS_Subset
<1> HIDE DEF l, u
<1>5. Q = IF x >= t THEN P \cup {l + 1} ELSE P
  BY <1>1, <1>2
<1>6. Cardinality(P) \in Nat /\ Cardinality(P \cup {l + 1}) = Cardinality(P) + 1
  BY <1>4, FS_CardinalityType, FS_AddElement
<1>7. Cardinality(Q) = Cardinality(P) + (IF x >= t THEN 1 ELSE 0)
  <2> HIDE DEF P, Q
  <2> QED
    BY <1>5, <1>6
<1>8. CountSince(u, t) = Cardinality(Q) /\ CountSince(ts, t) = Cardinality(P)
  BY <1>1, <1>3 DEF CountSince
<1> QED
  BY <1>7, <1>8 DEF u

LEMMA CountNone ==
  ASSUME NEW ts \in Seq(Nat), NEW t \in Int, \A n \in 1..Len(ts) : ts[n] < t
  PROVE  CountSince(ts, t) = 0
<1>1. {n \in DOMAIN ts : ts[n] >= t} = {}
  <2>1. DOMAIN ts = 1..Len(ts) /\ \A n \in 1..Len(ts) : ts[n] \in Nat
    OBVIOUS
  <2> QED
    BY <2>1
<1> QED
  BY <1>1, FS_EmptySet DEF CountSince

LEMMA CountAll ==
  ASSUME NEW ts \in Seq(Nat), NEW t \in Int, \A n \in 1..Len(ts) : ts[n] >= t
  PROVE  CountSince(ts, t) = Len(ts)
<1>1. {n \in DOMAIN ts : ts[n] >= t} = 1..Len(ts) /\ Len(ts) \in Nat
  BY LenProperties
<1> QED
  BY <1>1, FirstNaturals DEF CountSince

-----------------------------------------------------------------------------
(* The window: the deque holds every request that was let through within   *)
(* the last Window.                                                        *)
Recently(t, now) == t \in 0..now /\ t + Secs(Window) >= now
Holds(ts, h, now) ==
  /\ Times(ts, now) /\ Len(ts) <= MaxCount
  /\ \A t \in Nat : Recently(t, now) => CountSince(h, t) <= CountSince(ts, t)

(* A request more in the history, one more is counted.                     *)
LEMMA HistoryGrows ==
  ASSUME NEW h, Times(h, tick), tick \in Nat
  PROVE  /\ Times(Append(InsideWindow(h), tick), tick)
         /\ \A t \in Nat : Recently(t, tick) =>
              /\ CountSince(h, t) \in Nat
              /\ CountSince(Append(InsideWindow(h), tick), t) = CountSince(h, t) + 1
<1> DEFINE u == InsideWindow(h)
<1>1. Times(u, tick) /\ u \in Seq(Nat) /\ h \in Seq(Nat)
  BY InsideTimes DEF Times
<1>2. Times(Append(u, tick), tick)
  <2> HIDE DEF u
  <2> QED
    BY <1>1, AppendTimes
<1>3. ASSUME NEW t \in Nat, Recently(t, tick)
      PROVE  CountSince(h, t) \in Nat /\ CountSince(Append(u, tick), t) = CountSince(h, t) + 1
  <2>1. t \in Int /\ t + Secs(Window) >= tick /\ tick >= t
    BY <1>3 DEF Recently
  <2>2. CountSince(u, t) = CountSince(h, t)
    BY <2>1, CountInside
  <2> HIDE DEF u
  <2>3. CountSince(Append(u, tick), t) = CountSince(u, t) + (IF tick >= t THEN 1 ELSE 0)
    BY <1>1, <2>1, CountAppend
  <2>4. CountSince(h, t) \in Nat
    BY <1>1, <2>1, CountType
  <2> QED
    BY <2>1, <2>2, <2>3, <2>4
<1> QED
  BY <1>2, <1>3

(* The history keeps no more than its count says.                          *)
LEMMA HistoryBounded ==
  ASSUME NEW h, Times(h, tick), tick \in Nat
  PROVE  \E t \in Nat : /\ Recently(t, tick) /\ tick - t <= Secs(Window)
                        /\ Len(Append(InsideWindow(h), tick)) = CountSince(Append(InsideWindow(h), tick), t)
<1> DEFINE u == InsideWindow(h)
           v == Append(u, tick)
           W == Secs(Window)
<1>1. PICK l \in Nat : u \in Seq(Nat) /\ Len(u) = l /\ \A i \in 1..l : u[i] + W >= tick
  BY InsideIs
<1>2. v \in Seq(Nat) /\ Len(v) = l + 1 /\ v[l + 1] = tick /\ \A i \in 1..l : v[i] = u[i]
  <2> HIDE DEF u
  <2> QED
    BY <1>1, AppendProperties
<1>3. W \in Nat
  BY LimiterNumbers
<1> DEFINE t == IF tick > W THEN tick - W ELSE 0
<1> HIDE DEF u, v, W
<1>4. t \in Nat /\ t + W >= tick /\ t <= tick /\ tick - t <= W
  BY <1>3
<1>5. \A i \in 1..(l + 1) : v[i] >= t
  <2>1. \A i \in 1..l : u[i] \in Nat
    BY <1>1
  <2>2. \A i \in 1..l : u[i] >= t
    BY <1>1, <1>3, <2>1
  <2>3. \A i \in 1..(l + 1) : i \in 1..l \/ i = l + 1
    BY <1>1
  <2> HIDE DEF t
  <2> QED
    BY <1>2, <1>4, <2>2, <2>3
<1> HIDE DEF t
<1>6. CountSince(v, t) = Len(v)
  BY <1>2, <1>4, <1>5, CountAll
<1>7. Recently(t, tick) /\ tick - t <= Secs(Window)
  BY <1>4 DEF Recently, W
<1> QED
  BY <1>4, <1>6, <1>7 DEF u, v

LEMMA HoldsKept ==
  ASSUME NEW ts, NEW h, Holds(ts, h, tick), Times(h, tick), tick \in Nat
  PROVE  Holds(InsideWindow(ts), h, tick)
<1> DEFINE u == InsideWindow(ts)
<1>1. Times(ts, tick) /\ ts \in Seq(Nat) /\ Len(ts) <= MaxCount /\ MaxCount \in Nat
  BY LimiterNumbers DEF Holds, Times
<1>2. PICK e \in Nat, l \in Nat : Len(ts) = l + e /\ Len(u) = l
  BY <1>1, InsideIs
<1>3. Len(u) <= MaxCount
  <2> HIDE DEF u
  <2> QED
    BY <1>1, <1>2
<1>4. Times(u, tick)
  BY <1>1, InsideTimes
<1>5. \A t \in Nat : Recently(t, tick) => CountSince(u, t) = CountSince(ts, t)
  <2>1. \A t \in Nat : Recently(t, tick) => t \in Int /\ t + Secs(Window) >= tick
    BY DEF Recently
  <2> QED
    BY <1>1, <2>1, CountInside
<1> HIDE DEF u
<1>6. Holds(u, h, tick)
  BY <1>3, <1>4, <1>5 DEF Holds
<1> QED
  BY <1>6 DEF u

LEMMA HoldsMore ==
  ASSUME NEW ts, NEW h, Holds(ts, h, tick), Times(h, tick), tick \in Nat,
         Len(InsideWindow(ts)) < MaxCount
  PROVE  Holds(Append(InsideWindow(ts), tick), Append(InsideWindow(h), tick), tick)
<1> DEFINE u == InsideWindow(ts)
           v == Append(u, tick)
           g == Append(InsideWindow(h), tick)
<1>1. Times(ts, tick)
  BY DEF Holds
<1>2. /\ Times(v, tick)
      /\ \A t \in Nat : Recently(t, tick) => CountSince(ts, t) \in Nat /\ CountSince(v, t) = CountSince(ts, t) + 1
  BY <1>1, HistoryGrows
<1>3. \A t \in Nat : Recently(t, tick) => CountSince(h, t) \in Nat /\ CountSince(g, t) = CountSince(h, t) + 1
  BY HistoryGrows
<1>4. Len(v) <= MaxCount
  <2>1. u \in Seq(Nat)
    BY <1>1, InsideTimes DEF Times
  <2>2. Len(u) < MaxCount
    OBVIOUS
  <2> HIDE DEF u
  <2>3. Len(u) \in Nat /\ Len(v) = Len(u) + 1 /\ MaxCount \in Nat
    BY <2>1, LenProperties, AppendProperties, LimiterNumbers
  <2> QED
    BY <2>2, <2>3
<1>5. \A t \in Nat : Recently(t, tick) => CountSince(h, t) <= CountSince(ts, t)
  BY DEF Holds
<1> HIDE DEF u, v, g
<1>6. \A t \in Nat : Recently(t, tick) => CountSince(g, t) <= CountSince(v, t)
  BY <1>2, <1>3, <1>5
<1>7. Holds(v, g, tick)
  BY <1>2, <1>4, <1>6 DEF Holds
<1> QED
  BY <1>7 DEF u, v, g

(* A counter that the cleanup drops counts nothing recent.                 *)
LEMMA HoldsDropped ==
  ASSUME NEW ts, NEW h, Holds(ts, h, tick), tick \in Nat, IsStale(ts)
  PROVE  Holds(<<>>, h, tick)
<1>1. ts \in Seq(Nat) /\ Len(ts) \in Nat /\ Times(ts, tick)
  BY LenProperties DEF Holds, Times
<1>2. Times(<<>>, tick) /\ Len(<<>>) <= MaxCount /\ <<>> \in Seq(Nat)
  BY LimiterNumbers DEF Times, Rising
<1>3. ASSUME NEW t \in Nat, Recently(t, tick) PROVE CountSince(h, t) <= CountSince(<<>>, t)
  <2> DEFINE none == <<>>
  <2>1. CountSince(<<>>, t) = 0
    <3>1. none \in Seq(Nat) /\ t \in Int /\ \A n \in 1..Len(none) : none[n] < t
      BY <1>2
    <3> HIDE DEF none
    <3>2. CountSince(none, t) = 0
      BY <3>1, CountNone
    <3> QED
      BY <3>2 DEF none
  <2>2. \A n \in 1..Len(ts) : ts[n] < t
    <3>1. SUFFICES ASSUME NEW n \in 1..Len(ts) PROVE ts[n] < t
      OBVIOUS
    <3>2. ts # <<>> /\ Len(ts) \in 1..Len(ts) /\ n <= Len(ts)
      BY <1>1
    <3>3. ts[n] <= ts[Len(ts)] /\ ts[n] \in Nat /\ ts[Len(ts)] \in Nat
      BY <1>1, <3>2 DEF Times, Rising
    <3>4. tick - ts[Len(ts)] > Secs(Stale)
      BY <3>2 DEF IsStale
    <3>5. Secs(Stale) \in Nat /\ Secs(Window) \in Nat /\ Secs(Stale) >= Secs(Window)
      BY LimiterNumbers
    <3>6. t + Secs(Window) >= tick
      BY <1>3 DEF Recently
    <3> QED
      BY <3>3, <3>4, <3>5, <3>6
  <2>3. CountSince(ts, t) = 0
    BY <1>1, <2>2, CountNone
  <2>4. CountSince(h, t) <= CountSince(ts, t)
    BY <1>3 DEF Holds
  <2> QED
    BY <2>1, <2>3, <2>4
<1> QED
  BY <1>2, <1>3 DEF Holds

LEMMA HoldsLater ==
  ASSUME NEW ts, NEW h, tick \in Nat, Holds(ts, h, tick),
         h \in Seq(Nat), \A i \in 1..Len(h) : h[i] <= tick
  PROVE  Holds(ts, h, tick + 1)
<1>1. Times(ts, tick + 1)
  <2>1. \A i \in 1..Len(ts) : ts[i] \in Nat /\ ts[i] <= tick
    BY DEF Holds, Times
  <2>2. \A i \in 1..Len(ts) : ts[i] <= tick + 1
    BY <2>1
  <2> QED
    BY <2>2 DEF Holds, Times
<1>2. ASSUME NEW t \in Nat, Recently(t, tick + 1) PROVE CountSince(h, t) <= CountSince(ts, t)
  <2>1. CASE t \in 0..tick
    <3>1. Recently(t, tick)
      BY <2>1, <1>2, LimiterNumbers DEF Recently
    <3> QED
      BY <3>1 DEF Holds
  <2>2. CASE t = tick + 1
    <3>1. \A i \in 1..Len(h) : h[i] < t
      <4>1. \A i \in 1..Len(h) : h[i] \in Nat /\ h[i] <= tick
        OBVIOUS
      <4> QED
        BY <2>2, <4>1
    <3>2. CountSince(h, t) = 0
      BY <3>1, CountNone
    <3>3. CountSince(ts, t) \in Nat
      <4>1. ts \in Seq(Nat) /\ t \in Int
        BY DEF Holds, Times
      <4> QED
        BY <4>1, CountType
    <3> QED
      BY <3>2, <3>3
  <2>3. t \in 0..tick \/ t = tick + 1
    BY <1>2 DEF Recently
  <2> QED
    BY <2>1, <2>2, <2>3
<1> QED
  BY <1>1, <1>2 DEF Holds

(* The deque bounds the history.                                           *)
LEMMA HoldsBounds ==
  ASSUME NEW ts, NEW h, NEW now, Holds(ts, h, now), h \in Seq(Nat), NEW t \in Nat, Recently(t, now)
  PROVE  CountSince(h, t) <= MaxCount
<1>1. ts \in Seq(Nat) /\ Len(ts) <= MaxCount /\ CountSince(h, t) <= CountSince(ts, t)
  BY DEF Holds, Times
<1>2. CountSince(ts, t) \in Nat /\ CountSince(ts, t) <= Len(ts) /\ Len(ts) \in Nat /\ CountSince(h, t) \in Nat
  BY <1>1, CountType
<1>3. MaxCount \in Nat
  BY LimiterNumbers
<1> QED
  BY <1>1, <1>2, <1>3

-----------------------------------------------------------------------------
(* The bucket: what was let through since t and what is left is what the   *)
(* bucket held at most at t and what has flowed in since.                  *)
FlowedIn(h, n, last, now) ==
  /\ n \in 0..Capacity /\ last \in 0..now
  /\ \A i \in 1..Len(h) : h[i] <= last
  /\ \A t \in Nat : Recently(t, now) /\ t <= last => CountSince(h, t) + n <= Capacity + Rate * (last - t)

Filled(n, last) == Min({Capacity, n + (tick - last) * Rate})

LEMMA FilledIs ==
  ASSUME NEW n \in 0..Capacity, NEW d \in Nat
  PROVE  /\ Min({Capacity, n + d * Rate}) \in 0..Capacity
         /\ Min({Capacity, n + d * Rate}) <= n + d * Rate
         /\ d >= 1 => Min({Capacity, n + d * Rate}) >= 1
<1> DEFINE x == n + d * Rate
           m == Min({Capacity, x})
<1>1. d * Rate \in Nat /\ Capacity \in Nat \ {0} /\ n \in Nat /\ Rate \in Nat \ {0}
  <2>1. Capacity \in Nat \ {0} /\ Rate \in Nat \ {0}
    BY LimiterNumbers
  <2> QED
    BY <2>1
<1>2. d >= 1 => x >= 1
  <2>1. d >= 1 => d * Rate >= Rate
    BY <1>1
  <2> QED
    BY <1>1, <2>1
<1>3. x \in Nat
  BY <1>1
<1> HIDE DEF x
<1>4. m \in {Capacity, x} /\ \A y \in {Capacity, x} : m <= y
  <2>1. {Capacity, x} \in SUBSET Nat /\ {Capacity, x} # {}
    BY <1>1, <1>3
  <2> QED
    BY <2>1, SmallestOf
<1> HIDE DEF m
<1>5. m \in 0..Capacity /\ m <= x /\ (d >= 1 => m >= 1)
  BY <1>1, <1>2, <1>3, <1>4
<1> QED
  BY <1>5 DEF m, x

LEMMA CountLate ==
  ASSUME NEW h \in Seq(Nat), NEW last \in Nat, \A i \in 1..Len(h) : h[i] <= last, NEW t \in Nat, t > last
  PROVE  CountSince(h, t) = 0
<1>1. \A i \in 1..Len(h) : h[i] < t
  <2>1. \A i \in 1..Len(h) : h[i] \in Nat
    OBVIOUS
  <2> QED
    BY <2>1
<1>2. t \in Int
  OBVIOUS
<1> QED
  BY <1>1, <1>2, CountNone

(* What flows in between two checks.                                       *)
LEMMA FlowAdds ==
  ASSUME NEW h, Times(h, tick), tick \in Nat, NEW n, NEW last, FlowedIn(h, n, last, tick),
         NEW t \in Nat, Recently(t, tick)
  PROVE  CountSince(h, t) + Filled(n, last) <= Capacity + Rate * (tick - t)
<1> DEFINE c == CountSince(h, t)
           f == Filled(n, last)
<1>1. h \in Seq(Nat) /\ t \in Int
  BY DEF Times
<1>2. c \in Nat
  BY <1>1, CountType
<1>3. Capacity \in Nat \ {0} /\ Rate \in Nat \ {0}
  BY LimiterNumbers
<1>4. n \in 0..Capacity /\ last \in 0..tick /\ last \in Nat /\ tick - last \in Nat
  BY DEF FlowedIn
<1>5. f \in 0..Capacity /\ f <= n + (tick - last) * Rate
  <2> DEFINE d == tick - last
  <2>1. d \in Nat
    BY <1>4
  <2> HIDE DEF d
  <2>2. Min({Capacity, n + d * Rate}) \in 0..Capacity /\ Min({Capacity, n + d * Rate}) <= n + d * Rate
    BY <1>4, <2>1, FilledIs
  <2> QED
    BY <2>2 DEF d, Filled
<1>6. t \in 0..tick
  BY DEF Recently
<1>7. CASE t <= last
  <2>1. c + n <= Capacity + Rate * (last - t)
    BY <1>7 DEF FlowedIn
  <2> DEFINE p == last - t
             q == tick - last
  <2>2. p \in Nat /\ q \in Nat /\ tick - t = p + q
    BY <1>4, <1>6, <1>7
  <2> HIDE DEF c, f, p, q
  <2>3. Rate * (p + q) = Rate * p + q * Rate /\ Rate * p \in Nat /\ q * Rate \in Nat
    BY <1>3, <2>2
  <2>4. c + n <= Capacity + Rate * p /\ f <= n + q * Rate
    BY <1>5, <2>1 DEF p, q
  <2>5. c + f <= Capacity + Rate * (p + q)
    BY <1>2, <1>3, <1>4, <1>5, <2>3, <2>4
  <2> QED
    BY <2>2, <2>5 DEF c, f
<1>8. CASE t > last
  <2>1. \A i \in 1..Len(h) : h[i] <= last
    BY DEF FlowedIn
  <2>2. c = 0
    BY <1>1, <1>4, <1>8, <2>1, CountLate
  <2> DEFINE p == tick - t
  <2>3. p \in Nat
    BY <1>6
  <2> HIDE DEF c, f, p
  <2>4. Rate * p \in Nat
    BY <1>3, <2>3
  <2>5. c + f <= Capacity + Rate * p
    BY <1>3, <1>5, <2>2, <2>4
  <2> QED
    BY <2>5 DEF c, f, p
<1> QED
  BY <1>4, <1>7, <1>8

LEMMA FlowKept ==
  ASSUME NEW h, Times(h, tick), tick \in Nat, NEW n, NEW last, FlowedIn(h, n, last, tick)
  PROVE  FlowedIn(h, Filled(n, last), tick, tick)
<1>1. n \in 0..Capacity /\ last \in 0..tick /\ tick - last \in Nat
  BY DEF FlowedIn
<1>2. Filled(n, last) \in 0..Capacity
  <2> DEFINE d == tick - last
  <2>1. d \in Nat
    BY <1>1
  <2> HIDE DEF d
  <2>2. Min({Capacity, n + d * Rate}) \in 0..Capacity
    BY <1>1, <2>1, FilledIs
  <2> QED
    BY <2>2 DEF d, Filled
<1>3. \A i \in 1..Len(h) : h[i] <= tick
  BY DEF Times
<1>4. \A t \in Nat : Recently(t, tick) => CountSince(h, t) + Filled(n, last) <= Capacity + Rate * (tick - t)
  BY FlowAdds
<1>5. tick \in 0..tick
  OBVIOUS
<1> QED
  BY <1>2, <1>3, <1>4, <1>5 DEF FlowedIn

LEMMA FlowTaken ==
  ASSUME NEW h, Times(h, tick), tick \in Nat, NEW n, NEW last, FlowedIn(h, n, last, tick),
         Filled(n, last) >= 1
  PROVE  FlowedIn(Append(InsideWindow(h), tick), Filled(n, last) - 1, tick, tick)
<1> DEFINE g == Append(InsideWindow(h), tick)
           f == Filled(n, last)
<1>1. FlowedIn(h, f, tick, tick)
  BY FlowKept
<1>2. /\ Times(g, tick)
      /\ \A t \in Nat : Recently(t, tick) => CountSince(h, t) \in Nat /\ CountSince(g, t) = CountSince(h, t) + 1
  BY HistoryGrows
<1>3. Capacity \in Nat \ {0} /\ Rate \in Nat \ {0}
  BY LimiterNumbers
<1>4. f \in 0..Capacity /\ f >= 1
  BY <1>1 DEF FlowedIn
<1> HIDE DEF f, g
<1>5. f - 1 \in 0..Capacity
  BY <1>3, <1>4
<1>6. \A t \in Nat : Recently(t, tick) /\ t <= tick => CountSince(g, t) + (f - 1) <= Capacity + Rate * (tick - t)
  <2>1. SUFFICES ASSUME NEW t \in Nat, Recently(t, tick), t <= tick
                 PROVE  CountSince(g, t) + (f - 1) <= Capacity + Rate * (tick - t)
    OBVIOUS
  <2>2. CountSince(h, t) + f <= Capacity + Rate * (tick - t)
    BY <1>1, <2>1 DEF FlowedIn
  <2>3. CountSince(h, t) \in Nat /\ CountSince(g, t) = CountSince(h, t) + 1
    BY <1>2, <2>1
  <2> DEFINE r == Rate * (tick - t)
  <2> HIDE DEF r
  <2>4. CountSince(g, t) + (f - 1) = CountSince(h, t) + f
    BY <1>4, <2>3
  <2> QED
    BY <2>2, <2>4
<1>7. \A i \in 1..Len(g) : g[i] <= tick
  BY <1>2 DEF Times
<1>8. FlowedIn(g, f - 1, tick, tick)
  BY <1>5, <1>6, <1>7 DEF FlowedIn
<1> QED
  BY <1>8 DEF f, g

LEMMA FlowLater ==
  ASSUME NEW h, tick \in Nat, NEW n, NEW last, FlowedIn(h, n, last, tick)
  PROVE  FlowedIn(h, n, last, tick + 1)
<1>1. \A t \in Nat : Recently(t, tick + 1) /\ t <= last => Recently(t, tick)
  <2>1. last \in 0..tick /\ Secs(Window) \in Nat
    BY LimiterNumbers DEF FlowedIn
  <2> QED
    BY <2>1 DEF Recently
<1>2. last \in 0..(tick + 1)
  BY DEF FlowedIn
<1> QED
  BY <1>1, <1>2 DEF FlowedIn

LEMMA FlowBounds ==
  ASSUME NEW h, Times(h, tick), tick \in Nat, NEW n, NEW last, FlowedIn(h, n, last, tick),
         NEW t \in Nat, Recently(t, tick)
  PROVE  CountSince(h, t) <= Capacity + Rate * (tick - t)
<1> DEFINE r == Rate * (tick - t)
           c == CountSince(h, t)
           f == Filled(n, last)
<1>1. c + f <= Capacity + r
  BY FlowAdds
<1>2. FlowedIn(h, f, tick, tick)
  BY FlowKept
<1>3. f \in 0..Capacity /\ Capacity \in Nat
  BY <1>2, LimiterNumbers DEF FlowedIn
<1>4. c \in Nat
  <2>1. h \in Seq(Nat) /\ t \in Int
    BY DEF Times
  <2> QED
    BY <2>1, CountType
<1>5. r \in Nat
  <2> DEFINE p == tick - t
  <2>1. p \in Nat /\ Rate \in Nat
    BY LimiterNumbers DEF Recently
  <2> HIDE DEF p
  <2>2. Rate * p \in Nat
    BY <2>1
  <2> QED
    BY <2>2 DEF p
<1> HIDE DEF r, c, f
<1>6. c <= Capacity + r
  BY <1>1, <1>3, <1>4, <1>5
<1> QED
  BY <1>6 DEF r, c

-----------------------------------------------------------------------------
(* The counters of seconds: they count what was let through since the      *)
(* beginning of its second.                                                *)
SecondOf(t) == t \div TicksPerSecond
FromSecond(b, s) == {x \in DOMAIN b : x >= s}
CountsSeconds(b) == DOMAIN b \in SUBSET Nat /\ IsFiniteSet(DOMAIN b) /\ \A x \in DOMAIN b : b[x] \in Nat
InSeconds(b, h, now) ==
  /\ CountsSeconds(b) /\ SumOver(b, DOMAIN b) <= MaxCount
  /\ \A t \in Nat : Recently(t, now) => CountSince(h, t) <= SumOver(b, FromSecond(b, SecondOf(t)))

Counted(b) ==
  [s \in DOMAIN b \cup {TickSecond} |->
     (IF s \in DOMAIN b THEN b[s] ELSE 0) + IF s = TickSecond THEN 1 ELSE 0]

LEMMA SecondsOf ==
  ASSUME tick \in Nat, NEW t \in Nat, Recently(t, tick)
  PROVE  /\ SecondOf(t) \in Nat /\ TickSecond \in Nat
         /\ SecondOf(t) <= TickSecond /\ SecondOf(t) + Window >= TickSecond
<1> DEFINE u == TicksPerSecond
           q == t \div u
           p == tick \div u
<1>1. u \in Nat \ {0} /\ Window \in Nat
  BY LimiterNumbers
<1>2. t <= tick /\ t + Window * u >= tick
  BY DEF Recently, Secs
<1>3. q \in Nat /\ p \in Nat /\ q <= p
  BY <1>1, <1>2, DivBounded
<1>4. p * u <= tick /\ t < (q + 1) * u
  BY <1>1
<1> HIDE DEF u, q, p
<1>5. p * u < (q + 1 + Window) * u
  <2>1. (q + 1 + Window) * u = (q + 1) * u + Window * u /\ (q + 1) * u \in Nat /\ Window * u \in Nat /\ p * u \in Nat
    BY <1>1, <1>3
  <2> QED
    BY <1>2, <1>4, <2>1
<1>6. p < q + 1 + Window
  <2>1. SUFFICES ASSUME p >= q + 1 + Window PROVE FALSE
    BY <1>1, <1>3
  <2> DEFINE a == q + 1 + Window
  <2>2. a \in Nat /\ p >= a /\ u \in Nat
    BY <1>1, <1>3, <2>1
  <2>3. p * u < a * u
    BY <1>5
  <2> HIDE DEF a
  <2>4. p * u >= a * u /\ p * u \in Nat /\ a * u \in Nat
    BY <1>3, <2>2
  <2> QED
    BY <2>3, <2>4
<1>7. q + Window >= p
  BY <1>1, <1>3, <1>6
<1> QED
  BY <1>3, <1>7 DEF p, q, u, SecondOf, TickSecond

LEMMA RecentIs ==
  ASSUME NEW b, CountsSeconds(b), tick \in Nat
  PROVE  /\ CountsSeconds(Recent(b)) /\ DOMAIN Recent(b) \subseteq DOMAIN b
         /\ SumOver(Recent(b), DOMAIN Recent(b)) <= SumOver(b, DOMAIN b)
         /\ SumOver(Recent(b), DOMAIN Recent(b)) \in Nat /\ SumOver(b, DOMAIN b) \in Nat
         /\ \A t \in Nat : Recently(t, tick) =>
              SumOver(Recent(b), FromSecond(Recent(b), SecondOf(t))) = SumOver(b, FromSecond(b, SecondOf(t)))
         /\ \A s \in DOMAIN Recent(b) : s + Window >= TickSecond
<1> DEFINE D == DOMAIN b
           E == {s \in D : s + Window >= TickSecond}
           r == Recent(b)
<1>1. DOMAIN r = E /\ \A s \in E : r[s] = b[s]
  BY DEF Recent, Restrict
<1>2. D \in SUBSET Nat /\ IsFiniteSet(D) /\ \A x \in D : b[x] \in Nat
  BY DEF CountsSeconds
<1>3. E \in SUBSET D /\ IsFiniteSet(E)
  BY <1>2, FS_Subset
<1>4. CountsSeconds(r)
  BY <1>1, <1>2, <1>3 DEF CountsSeconds
<1>5. ASSUME NEW S \in SUBSET E PROVE SumOver(r, S) = SumOver(b, S)
  <2>1. IsFiniteSet(S) /\ \A x \in S : r[x] \in Int /\ r[x] = b[x]
    BY <1>1, <1>2, <1>3, FS_Subset
  <2> HIDE DEF r
  <2> QED
    BY <2>1, SumAgrees
<1>6. ASSUME NEW t \in Nat, Recently(t, tick)
      PROVE  SumOver(r, FromSecond(r, SecondOf(t))) = SumOver(b, FromSecond(b, SecondOf(t)))
  <2>1. \A x \in D : x >= SecondOf(t) => x + Window >= TickSecond
    <3>1. SecondOf(t) \in Nat /\ TickSecond \in Nat /\ SecondOf(t) + Window >= TickSecond /\ Window \in Nat
      BY <1>6, SecondsOf, LimiterNumbers
    <3>2. \A x \in D : x \in Nat
      BY <1>2
    <3> QED
      BY <3>1, <3>2
  <2>2. FromSecond(r, SecondOf(t)) = FromSecond(b, SecondOf(t))
    BY <1>1, <2>1 DEF FromSecond
  <2>3. FromSecond(r, SecondOf(t)) \in SUBSET E
    BY <1>1 DEF FromSecond
  <2> QED
    BY <1>5, <2>2, <2>3
<1>7. SumOver(b, E) <= SumOver(b, D) /\ SumOver(b, E) \in Nat /\ SumOver(b, D) \in Nat
  <2>1. \A x \in E : b[x] \in Nat
    BY <1>2
  <2> HIDE DEF D, E
  <2> QED
    BY <1>2, <1>3, <2>1, SumOfPart, SumOfNaturals
<1>8. SumOver(r, E) = SumOver(b, E)
  BY <1>5
<1> HIDE DEF r
<1> QED
  BY <1>1, <1>3, <1>4, <1>6, <1>7, <1>8 DEF r

LEMMA CountedIs ==
  ASSUME NEW b, CountsSeconds(b), tick \in Nat, NEW s \in Nat, s <= TickSecond, TickSecond \in Nat
  PROVE  /\ CountsSeconds(Counted(b))
         /\ SumOver(b, FromSecond(b, s)) \in Nat
         /\ SumOver(Counted(b), FromSecond(Counted(b), s)) = SumOver(b, FromSecond(b, s)) + 1
<1> DEFINE now == TickSecond
           c == Counted(b)
           D == DOMAIN b
           S == FromSecond(b, s)
           T == FromSecond(c, s)
<1> HIDE DEF now
<1>1. D \in SUBSET Nat /\ IsFiniteSet(D) /\ \A x \in D : b[x] \in Nat
  BY DEF CountsSeconds
<1>2. /\ DOMAIN c = D \cup {now} /\ \A x \in D : x # now => c[x] = b[x]
      /\ c[now] = (IF now \in D THEN b[now] ELSE 0) + 1
  <2>1. c = [x \in D \cup {now} |-> (IF x \in D THEN b[x] ELSE 0) + IF x = now THEN 1 ELSE 0]
    BY DEF Counted, now
  <2> HIDE DEF c
  <2>2. DOMAIN c = D \cup {now} /\ c[now] = (IF now \in D THEN b[now] ELSE 0) + 1
    BY <2>1
  <2>3. ASSUME NEW x \in D, x # now PROVE c[x] = b[x]
    <3>1. c[x] = b[x] + 0 /\ b[x] \in Nat
      BY <1>1, <2>1, <2>3
    <3> QED
      BY <3>1
  <2> QED
    BY <2>2, <2>3
<1>3. now \in Nat /\ s <= now
  BY DEF now
<1>4. \A x \in D \cup {now} : c[x] \in Nat
  <2> HIDE DEF c
  <2> QED
    BY <1>1, <1>2
<1>5. IsFiniteSet(D \cup {now})
  BY <1>1, FS_AddElement
<1>6. CountsSeconds(c)
  BY <1>1, <1>2, <1>3, <1>4, <1>5 DEF CountsSeconds
<1>7. S \in SUBSET D /\ IsFiniteSet(S) /\ (now \in D => now \in S) /\ T = S \cup {now}
  <2>1. S \in SUBSET D /\ (now \in D => now \in S) /\ T = S \cup {now}
    BY <1>2, <1>3 DEF FromSecond
  <2> HIDE DEF S, T
  <2> QED
    BY <1>1, <2>1, FS_Subset
<1> HIDE DEF c, S, T
<1>8. SumOver(b, S) \in Nat
  BY <1>1, <1>7, SumOfNaturals
<1>9. now \in D => SumOver(c, T) = SumOver(b, S) + 1
  <2>0. SUFFICES ASSUME now \in D PROVE SumOver(c, T) = SumOver(b, S) + 1
    OBVIOUS
  <2>1. now \in S /\ T = S /\ \A x \in S : b[x] \in Int /\ c[x] \in Int /\ (x # now => c[x] = b[x])
    BY <1>1, <1>2, <1>4, <1>7, <2>0
  <2>2. SumOver(c, S) = SumOver(b, S) - b[now] + c[now]
    BY <1>7, <2>1, SumChanges
  <2>3. b[now] \in Nat /\ c[now] = b[now] + 1
    BY <1>1, <1>2, <2>0
  <2> QED
    BY <1>8, <2>1, <2>2, <2>3
<1>10. now \notin D => SumOver(c, T) = SumOver(b, S) + 1
  <2>0. SUFFICES ASSUME now \notin D PROVE SumOver(c, T) = SumOver(b, S) + 1
    OBVIOUS
  <2>1. now \notin S /\ c[now] = 1
    BY <1>2, <1>7, <2>0
  <2>2. IsFiniteSet(T) /\ \A x \in T : c[x] \in Int
    BY <1>4, <1>7, FS_AddElement
  <2>3. S \in SUBSET T /\ now \in T \ S
    BY <1>7, <2>1
  <2>4. SumOver(c, S \cup {now}) = c[now] + SumOver(c, S) /\ SumOver(c, S) \in Int
    BY <2>2, <2>3, SumGrows
  <2>5. \A x \in S : b[x] \in Int /\ b[x] = c[x]
    BY <1>1, <1>2, <1>7, <2>1
  <2>6. SumOver(b, S) = SumOver(c, S)
    BY <1>7, <2>5, SumAgrees
  <2> QED
    BY <1>7, <1>8, <2>1, <2>4, <2>6
<1> QED
  BY <1>6, <1>8, <1>9, <1>10 DEF c, S, T

LEMMA SumOfFunction ==
  ASSUME NEW f
  PROVE  SumFunction(f) = SumOver(f, DOMAIN f)
BY DEF SumFunction, SumFunctionOnSet, FoldFunctionOnSet, SumOver

LEMMA SecondsKept ==
  ASSUME NEW b, NEW h, InSeconds(b, h, tick), tick \in Nat
  PROVE  InSeconds(Recent(b), h, tick)
<1>1. /\ CountsSeconds(Recent(b))
      /\ SumOver(Recent(b), DOMAIN Recent(b)) <= SumOver(b, DOMAIN b)
      /\ SumOver(Recent(b), DOMAIN Recent(b)) \in Nat /\ SumOver(b, DOMAIN b) \in Nat
      /\ \A t \in Nat : Recently(t, tick) =>
           SumOver(Recent(b), FromSecond(Recent(b), SecondOf(t))) = SumOver(b, FromSecond(b, SecondOf(t)))
  BY RecentIs DEF InSeconds
<1>2. SumOver(b, DOMAIN b) <= MaxCount /\ MaxCount \in Nat
  BY LimiterNumbers DEF InSeconds
<1>3. SumOver(Recent(b), DOMAIN Recent(b)) <= MaxCount
  BY <1>1, <1>2
<1>4. \A t \in Nat : Recently(t, tick) =>
        CountSince(h, t) <= SumOver(Recent(b), FromSecond(Recent(b), SecondOf(t)))
  BY <1>1 DEF InSeconds
<1> QED
  BY <1>1, <1>3, <1>4 DEF InSeconds

LEMMA SecondsMore ==
  ASSUME NEW b, NEW h, InSeconds(b, h, tick), Times(h, tick), tick \in Nat,
         SumFunction(Recent(b)) < MaxCount
  PROVE  InSeconds(Counted(Recent(b)), Append(InsideWindow(h), tick), tick)
<1> DEFINE r == Recent(b)
           c == Counted(r)
           g == Append(InsideWindow(h), tick)
<1>1. InSeconds(r, h, tick) /\ CountsSeconds(r)
  BY SecondsKept DEF InSeconds
<1>2. SumOver(r, DOMAIN r) < MaxCount /\ MaxCount \in Nat
  <2>1. SumFunction(r) = SumOver(r, DOMAIN r)
    BY SumOfFunction
  <2> QED
    BY <2>1, LimiterNumbers
<1>3. \A t \in Nat : Recently(t, tick) => CountSince(h, t) \in Nat /\ CountSince(g, t) = CountSince(h, t) + 1
  BY HistoryGrows
<1>4. TickSecond \in Nat /\ Recently(tick, tick) /\ 0 <= TickSecond
  <2>1. Recently(tick, tick)
    BY LimiterNumbers DEF Recently
  <2>2. TickSecond \in Nat
    BY <2>1, SecondsOf
  <2> QED
    BY <2>1, <2>2
<1> HIDE DEF r, g
<1>5. CountsSeconds(c) /\ SumOver(r, DOMAIN r) \in Nat /\ SumOver(c, DOMAIN c) = SumOver(r, DOMAIN r) + 1
  <2>1. /\ CountsSeconds(c) /\ SumOver(r, FromSecond(r, 0)) \in Nat
        /\ SumOver(c, FromSecond(c, 0)) = SumOver(r, FromSecond(r, 0)) + 1
    BY <1>1, <1>4, CountedIs
  <2> HIDE DEF c
  <2>2. FromSecond(r, 0) = DOMAIN r /\ FromSecond(c, 0) = DOMAIN c
    <3>1. (\A x \in DOMAIN r : x \in Nat) /\ (\A x \in DOMAIN c : x \in Nat)
      BY <1>1, <2>1 DEF CountsSeconds
    <3> QED
      BY <3>1 DEF FromSecond
  <2> QED
    BY <2>1, <2>2
<1>6. \A t \in Nat : Recently(t, tick) => CountSince(g, t) <= SumOver(c, FromSecond(c, SecondOf(t)))
  <2>1. SUFFICES ASSUME NEW t \in Nat, Recently(t, tick)
                 PROVE  CountSince(g, t) <= SumOver(c, FromSecond(c, SecondOf(t)))
    OBVIOUS
  <2> DEFINE s == SecondOf(t)
  <2>2. s \in Nat /\ s <= TickSecond
    BY <2>1, SecondsOf
  <2>3. CountSince(h, t) <= SumOver(r, FromSecond(r, s))
    BY <1>1, <2>1 DEF InSeconds
  <2> HIDE DEF s
  <2>4. /\ SumOver(r, FromSecond(r, s)) \in Nat
        /\ SumOver(c, FromSecond(c, s)) = SumOver(r, FromSecond(r, s)) + 1
    BY <1>1, <1>4, <2>2, CountedIs
  <2>5. CountSince(h, t) \in Nat /\ CountSince(g, t) = CountSince(h, t) + 1
    BY <1>3, <2>1
  <2> HIDE DEF c
  <2>6. CountSince(g, t) <= SumOver(c, FromSecond(c, s))
    BY <2>3, <2>4, <2>5
  <2> QED
    BY <2>6 DEF s
<1> HIDE DEF c
<1>7. SumOver(c, DOMAIN c) <= MaxCount
  BY <1>2, <1>5
<1>8. InSeconds(c, g, tick)
  BY <1>5, <1>6, <1>7 DEF InSeconds
<1> QED
  BY <1>8 DEF c, r, g

LEMMA SecondsLater ==
  ASSUME NEW b, NEW h, tick \in Nat, InSeconds(b, h, tick),
         h \in Seq(Nat), \A i \in 1..Len(h) : h[i] <= tick
  PROVE  InSeconds(b, h, tick + 1)
<1>1. ASSUME NEW t \in Nat, Recently(t, tick + 1)
      PROVE  CountSince(h, t) <= SumOver(b, FromSecond(b, SecondOf(t)))
  <2>1. CASE t \in 0..tick
    <3>1. Recently(t, tick)
      BY <2>1, <1>1, LimiterNumbers DEF Recently
    <3> QED
      BY <3>1 DEF InSeconds
  <2>2. CASE t = tick + 1
    <3>1. CountSince(h, t) = 0
      <4>1. t > tick
        BY <2>2
      <4> QED
        BY <4>1, CountLate
    <3>2. SumOver(b, FromSecond(b, SecondOf(t))) \in Nat
      <4> DEFINE S == FromSecond(b, SecondOf(t))
      <4>1. IsFiniteSet(DOMAIN b) /\ S \in SUBSET DOMAIN b /\ \A x \in S : b[x] \in Nat
        BY DEF InSeconds, CountsSeconds, FromSecond
      <4>2. IsFiniteSet(S)
        BY <4>1, FS_Subset
      <4> HIDE DEF S
      <4>3. SumOver(b, S) \in Nat
        BY <4>1, <4>2, SumOfNaturals
      <4> QED
        BY <4>3 DEF S
    <3> QED
      BY <3>1, <3>2
  <2>3. t \in 0..tick \/ t = tick + 1
    BY <1>1 DEF Recently
  <2> QED
    BY <2>1, <2>2, <2>3
<1> QED
  BY <1>1 DEF InSeconds

LEMMA SecondsBound ==
  ASSUME NEW b, NEW h, NEW now, InSeconds(b, h, now), h \in Seq(Nat), NEW t \in Nat, Recently(t, now)
  PROVE  CountSince(h, t) <= MaxCount
<1> DEFINE S == FromSecond(b, SecondOf(t))
           D == DOMAIN b
<1>1. IsFiniteSet(D) /\ S \in SUBSET D /\ \A x \in D : b[x] \in Nat
  BY DEF InSeconds, CountsSeconds, FromSecond
<1>2. CountSince(h, t) <= SumOver(b, S) /\ SumOver(b, D) <= MaxCount
  BY DEF InSeconds
<1>3. CountSince(h, t) \in Nat /\ MaxCount \in Nat
  <2>1. t \in Int
    OBVIOUS
  <2> QED
    BY <2>1, CountType, LimiterNumbers
<1> HIDE DEF S, D
<1>4. SumOver(b, S) <= SumOver(b, D) /\ SumOver(b, S) \in Nat /\ SumOver(b, D) \in Nat
  <2>1. IsFiniteSet(S) /\ \A x \in S : b[x] \in Nat
    BY <1>1, FS_Subset
  <2> QED
    BY <1>1, <2>1, SumOfPart, SumOfNaturals
<1> QED
  BY <1>2, <1>3, <1>4

-----------------------------------------------------------------------------
(* What a refusal promises.                                                *)
StillCounted(ts, at) == Cardinality({n \in DOMAIN ts : ts[n] + Secs(Window) >= at})
PromiseOK(r) == r.at \in Nat /\ r.until \in Nat /\ r.until > r.at
WindowPromise(ts, r) == StillCounted(ts, r.until) < MaxCount
BucketPromise(n, last, r) == Min({Capacity, n + (r.until - last) * Rate}) >= 1

NoneCounted == \A at \in Nat : StillCounted(<<>>, at) < MaxCount
LEMMA NothingCounted == NoneCounted
<1>1. SUFFICES ASSUME NEW at \in Nat PROVE StillCounted(<<>>, at) < MaxCount
  BY DEF NoneCounted
<1>2. {n \in DOMAIN <<>> : <<>>[n] + Secs(Window) >= at} = {}
  OBVIOUS
<1> QED
  BY <1>2, FS_EmptySet, LimiterNumbers DEF StillCounted

LEMMA DivExceeds ==
  ASSUME NEW a \in Nat, NEW u \in Nat \ {0}
  PROVE  a < (a \div u + 1) * u
OBVIOUS

LEMMA LeftOver ==
  ASSUME NEW a \in Nat, NEW b \in Nat, a >= b, NEW r, r = a - b
  PROVE  r \in Nat /\ r + b = a
OBVIOUS

(* The tick at which the oldest request has left the window.               *)
LEMMA OldestLeaves ==
  ASSUME NEW ts, Times(ts, tick), Len(ts) <= MaxCount, tick \in Nat, NEW kept, kept = InsideWindow(ts),
         ~(Len(kept) < MaxCount), NEW retry, retry = kept[1] + Secs(Window) - tick,
         NEW until, until = tick + Secs(retry \div TicksPerSecond + 1)
  PROVE  until \in Nat /\ until > tick /\ StillCounted(kept, until) < MaxCount
<1> DEFINE W == Secs(Window)
           u == TicksPerSecond
<1>1. Times(ts, tick) /\ ts \in Seq(Nat) /\ Len(ts) <= MaxCount
  BY DEF Times
<1>2. PICK e \in Nat, l \in Nat :
        /\ Len(ts) = l + e /\ kept \in Seq(Nat) /\ Len(kept) = l
        /\ \A i \in 1..l : kept[i] + W >= tick
  BY <1>1, InsideIs
<1>3. MaxCount \in Nat \ {0} /\ W \in Nat /\ u \in Nat \ {0}
  BY LimiterNumbers
<1>4. l = MaxCount /\ 1 \in 1..l /\ kept[1] \in Nat
  <2>1. l + e <= MaxCount /\ ~(l < MaxCount)
    BY <1>1, <1>2
  <2>2. l = MaxCount /\ 1 \in 1..l
    BY <1>3, <2>1
  <2> QED
    BY <1>2, <2>2
<1> HIDE DEF W, u
<1>5. retry \in Nat /\ retry + tick = kept[1] + W
  <2> DEFINE k == kept[1]
  <2>1. retry = k + W - tick
    BY DEF W
  <2>2. k + W >= tick
    BY <1>2, <1>4
  <2>3. k \in Nat /\ W \in Nat /\ tick \in Nat
    BY <1>3, <1>4
  <2> HIDE DEF k
  <2>4. retry = (k + W) - tick /\ k + W \in Nat
    BY <2>1, <2>3
  <2>5. retry \in Nat /\ retry + tick = k + W
    BY <2>2, <2>3, <2>4, LeftOver
  <2> QED
    BY <2>5 DEF k
<1> DEFINE q == retry \div u
<1>6. q \in Nat /\ retry < (q + 1) * u
  <2>1. q \in Nat
    BY <1>3, <1>5, DivBounded
  <2>2. retry < (q + 1) * u
    BY <1>3, <1>5, DivExceeds
  <2> QED
    BY <2>1, <2>2
<1>7. until = tick + (q + 1) * u
  BY DEF Secs, u
<1> HIDE DEF q
<1>8. (q + 1) * u \in Nat
  BY <1>3, <1>6
<1>9. until \in Nat /\ until > tick /\ until > kept[1] + W
  BY <1>3, <1>4, <1>5, <1>6, <1>7, <1>8
<1>10. StillCounted(kept, until) < MaxCount
  <2> DEFINE P == {n \in 1..l : kept[n] + W >= until}
  <2>1. P \in SUBSET (2..l)
    <3>1. 1 \notin P
      BY <1>3, <1>4, <1>9
    <3>2. \A n \in 1..l : n = 1 \/ n \in 2..l
      BY <1>2
    <3> QED
      BY <3>1, <3>2
  <2>2. IsFiniteSet(2..l) /\ Cardinality(2..l) = l - 1
    <3>1. 2 \in Int /\ l \in Int /\ l >= 1
      BY <1>3, <1>4
    <3>2. Cardinality(2..l) = IF 2 > l THEN 0 ELSE l - 2 + 1
      BY <3>1, FS_Interval
    <3>3. IsFiniteSet(2..l)
      BY <3>1, FS_Interval
    <3> QED
      BY <3>1, <3>2, <3>3
  <2>3. StillCounted(kept, until) = Cardinality(P)
    <3>1. DOMAIN kept = 1..l
      BY <1>2
    <3> QED
      BY <3>1 DEF StillCounted, W
  <2> HIDE DEF P
  <2>4. Cardinality(P) <= l - 1 /\ Cardinality(P) \in Nat
    BY <2>1, <2>2, FS_Subset, FS_CardinalityType
  <2> QED
    BY <1>3, <1>4, <2>3, <2>4
<1> QED
  BY <1>9, <1>10

(* An empty bucket holds a token one tick later.                           *)
LEMMA OneTickFills ==
  ASSUME tick \in Nat, NEW filled \in 0..Capacity, ~(filled >= 1), NEW wait,
         wait = (1 - filled + Rate - 1) \div Rate, NEW r, r = [at |-> tick, until |-> tick + wait]
  PROVE  PromiseOK(r) /\ BucketPromise(filled, tick, r)
<1>1. Rate \in Nat \ {0} /\ Capacity \in Nat \ {0}
  BY LimiterNumbers
<1>2. filled = 0
  OBVIOUS
<1>3. wait = 1
  <2>1. 1 - filled + Rate - 1 = Rate
    BY <1>1, <1>2
  <2>2. Rate \div Rate = 1
    <3> DEFINE q == Rate \div Rate
    <3>1. q \in Int /\ q * Rate <= Rate /\ Rate < (q + 1) * Rate
      BY <1>1
    <3> HIDE DEF q
    <3>2. q >= 1
      <4>1. SUFFICES ASSUME q <= 0 PROVE FALSE
        BY <3>1
      <4>2. (q + 1) * Rate <= 1 * Rate
        BY <1>1, <3>1, <4>1
      <4> QED
        BY <1>1, <3>1, <4>2
    <3>3. q <= 1
      <4>1. SUFFICES ASSUME q >= 2 PROVE FALSE
        BY <3>1
      <4>2. q * Rate >= 2 * Rate
        BY <1>1, <3>1, <4>1
      <4> QED
        BY <1>1, <3>1, <4>2
    <3>4. q = 1
      BY <3>1, <3>2, <3>3
    <3> QED
      BY <3>4 DEF q
  <2> QED
    BY <2>1, <2>2
<1>4. r.at = tick /\ r.until = tick + 1 /\ r.until - tick = 1
  BY <1>3
<1>5. PromiseOK(r)
  BY <1>4 DEF PromiseOK
<1>6. Min({Capacity, filled + 1 * Rate}) >= 1
  BY FilledIs, 1 \in Nat, 1 >= 1
<1>7. BucketPromise(filled, tick, r)
  BY <1>4, <1>6 DEF BucketPromise
<1> QED
  BY <1>5, <1>7

(* The wait that the counters of seconds name is a second at least.        *)
LEMMA SecondsPromise ==
  ASSUME NEW b, CountsSeconds(b), tick \in Nat, NEW kept, kept = Recent(b),
         NEW oldest, oldest = IF DOMAIN kept = {} THEN TickSecond ELSE Min(DOMAIN kept),
         NEW after, after = Max({1, Window - (TickSecond - oldest)}),
         NEW r, r = [at |-> tick, until |-> tick + Secs(after)]
  PROVE  PromiseOK(r)
<1>1. /\ CountsSeconds(kept)
      /\ \A s \in DOMAIN kept : s + Window >= TickSecond
  BY RecentIs
<1>2. TickSecond \in Nat /\ Window \in Nat /\ TicksPerSecond \in Nat \ {0}
  <2>1. Recently(tick, tick)
    BY LimiterNumbers DEF Recently
  <2> QED
    BY <2>1, SecondsOf, LimiterNumbers
<1>3. oldest \in Nat /\ oldest + Window >= TickSecond
  <2>1. CASE DOMAIN kept = {}
    BY <1>2, <2>1
  <2>2. CASE DOMAIN kept # {}
    <3>1. DOMAIN kept \in SUBSET Nat
      BY <1>1 DEF CountsSeconds
    <3>2. Min(DOMAIN kept) \in DOMAIN kept
      BY <2>2, <3>1, SmallestOf
    <3> QED
      BY <1>1, <2>2, <3>1, <3>2
  <2> QED
    BY <2>1, <2>2
<1> DEFINE x == Window - (TickSecond - oldest)
<1>4. x \in Nat
  BY <1>2, <1>3
<1> HIDE DEF x
<1>5. after \in Nat /\ after >= 1
  <2>1. after = Max({1, x})
    BY DEF x
  <2>2. {1, x} \in SUBSET (1..(x + 1)) \/ x = 0
    BY <1>4
  <2>3. \E y \in {1, x} : \A z \in {1, x} : y >= z
    BY <1>4
  <2>4. Max({1, x}) \in {1, x} /\ \A z \in {1, x} : Max({1, x}) >= z
    BY <2>3 DEF Max
  <2> HIDE DEF Max
  <2> QED
    BY <1>4, <2>1, <2>4
<1>6. Secs(after) \in Nat /\ Secs(after) >= 1
  <2>1. after * TicksPerSecond \in Nat /\ after * TicksPerSecond >= 1
    BY <1>2, <1>5
  <2> QED
    BY <2>1 DEF Secs
<1> DEFINE d == Secs(after)
<1> HIDE DEF d
<1>7. r.at = tick /\ r.until = tick + d /\ d \in Nat /\ d >= 1
  BY <1>6 DEF d
<1> QED
  BY <1>7 DEF PromiseOK

-----------------------------------------------------------------------------
(* The limiter in use accounts for the history, and what it refused with   *)
(* is still true.                                                          *)
HistoryLimit == MaxCount + Capacity + Rate * Secs(Window)

LimiterTypes ==
  /\ limiter \in Limiters /\ tick \in 0..LastTick
  /\ DOMAIN counters \subseteq Keys
  /\ tokens \in [Keys -> 0..Capacity] /\ DOMAIN lastCheck = Keys /\ DOMAIN tokenBuckets = Keys
  /\ DOMAIN allowed = Keys /\ DOMAIN refused = Keys
  /\ \A k \in Keys : Times(allowed[k], tick) /\ Len(allowed[k]) <= HistoryLimit

KeyOK(k) ==
  /\ limiter = "window" => Holds(TimesOf(k), allowed[k], tick)
  /\ limiter = "bucket" => FlowedIn(allowed[k], tokens[k], lastCheck[k], tick)
  /\ limiter = "seconds" => InSeconds(tokenBuckets[k], allowed[k], tick)
  /\ \A r \in refused[k] :
       /\ PromiseOK(r)
       /\ limiter = "window" => WindowPromise(TimesOf(k), r)
       /\ limiter = "bucket" => BucketPromise(tokens[k], lastCheck[k], r)

LimiterInv == LimiterTypes /\ \A k \in Keys : KeyOK(k)

LEMMA CleanedIs ==
  ASSUME NEW cs, Cleaned(cs)
  PROVE  /\ DOMAIN counters' \subseteq DOMAIN cs
         /\ \A x \in DOMAIN cs : TimesOf(x)' = cs[x] \/ (TimesOf(x)' = <<>> /\ IsStale(cs[x]))
         /\ \A x : x \notin DOMAIN cs => TimesOf(x)' = <<>>
<1> DEFINE T(x) == IF x \in DOMAIN counters' THEN counters'[x] ELSE <<>>
<1>1. \A x : TimesOf(x)' = T(x)
  BY DEF TimesOf
<1>2. counters' = cs \/ counters' = Restrict(cs, {k \in DOMAIN cs : ~IsStale(cs[k])})
  BY DEF Cleaned
<1>3. CASE counters' = cs
  BY <1>1, <1>3
<1>4. CASE counters' = Restrict(cs, {k \in DOMAIN cs : ~IsStale(cs[k])})
  <2> DEFINE S == {k \in DOMAIN cs : ~IsStale(cs[k])}
  <2>1. DOMAIN counters' = S /\ \A x \in S : counters'[x] = cs[x]
    BY <1>4 DEF Restrict
  <2>2. \A x \in DOMAIN cs : x \in S \/ IsStale(cs[x])
    OBVIOUS
  <2> QED
    BY <1>1, <2>1, <2>2
<1> QED
  BY <1>2, <1>3, <1>4

(* A history that has grown by the request of this tick.                   *)
WithThis(h) == Append(InsideWindow(h), tick)

LEMMA LimitOfAllowed ==
  ASSUME NEW k \in Keys, LimiterTypes, KeyOK(k), NEW t \in Nat, Recently(t, tick)
  PROVE  /\ limiter \in {"window", "seconds"} => CountSince(allowed[k], t) <= MaxCount
         /\ limiter = "bucket" => CountSince(allowed[k], t) <= Capacity + Rate * (tick - t)
<1>1. Times(allowed[k], tick) /\ tick \in Nat /\ allowed[k] \in Seq(Nat)
  BY LimiterAssumption DEF LimiterTypes, LimiterAssumption, Times
<1>2. CASE limiter = "window"
  <2>1. Holds(TimesOf(k), allowed[k], tick)
    BY <1>2 DEF KeyOK
  <2> QED
    BY <1>1, <1>2, <2>1, HoldsBounds
<1>3. CASE limiter = "seconds"
  <2>1. InSeconds(tokenBuckets[k], allowed[k], tick)
    BY <1>3 DEF KeyOK
  <2> QED
    BY <1>1, <1>3, <2>1, SecondsBound
<1>4. CASE limiter = "bucket"
  <2>1. FlowedIn(allowed[k], tokens[k], lastCheck[k], tick)
    BY <1>4 DEF KeyOK
  <2> QED
    BY <1>1, <1>4, <2>1, FlowBounds
<1> QED
  BY <1>2, <1>3, <1>4

(* The three accounts of one history, before the step and after.           *)
AccountOK(h, ts, n, last, b) ==
  /\ limiter = "window" => Holds(ts, h, tick)
  /\ limiter = "bucket" => FlowedIn(h, n, last, tick)
  /\ limiter = "seconds" => InSeconds(b, h, tick)

LEMMA GrownFits ==
  ASSUME LimiterTypes, NEW h, Times(h, tick), NEW ts, NEW n, NEW last, NEW b,
         AccountOK(WithThis(h), ts, n, last, b)
  PROVE  Times(WithThis(h), tick) /\ Len(WithThis(h)) <= HistoryLimit
<1> DEFINE g == WithThis(h)
<1>1. tick \in Nat
  BY LimiterAssumption DEF LimiterTypes, LimiterAssumption
<1>2. PICK t \in Nat : Recently(t, tick) /\ tick - t <= Secs(Window) /\ Len(g) = CountSince(g, t)
  BY <1>1, HistoryBounded DEF WithThis
<1>3. Times(g, tick) /\ g \in Seq(Nat)
  BY <1>1, HistoryGrows DEF WithThis, Times
<1> HIDE DEF g
<1> DEFINE c == CountSince(g, t)
           W == Secs(Window)
           p == tick - t
<1>4. /\ MaxCount \in Nat /\ Capacity \in Nat /\ Rate \in Nat /\ W \in Nat
  BY LimiterNumbers
<1>5. p \in Nat /\ p <= W /\ c \in Nat
  <2>1. p \in Nat /\ p <= W
    BY <1>1, <1>2 DEF Recently
  <2>2. c \in Nat
    BY <1>3, CountType, t \in Int
  <2> QED
    BY <2>1, <2>2
<1>6. Rate * p \in Nat /\ Rate * W \in Nat /\ Rate * p <= Rate * W
  <2> HIDE DEF p, W
  <2>1. PICK d \in Nat : W = p + d
    <3>1. W - p \in Nat /\ W = p + (W - p)
      BY <1>4, <1>5
    <3> QED
      BY <3>1
  <2>2. Rate * W = Rate * p + Rate * d /\ Rate * p \in Nat /\ Rate * d \in Nat
    BY <1>4, <1>5, <2>1
  <2> QED
    BY <2>2
<1>7. c <= MaxCount \/ c <= Capacity + Rate * p
  <2>1. limiter \in {"window", "bucket", "seconds"}
    BY LimiterAssumption DEF LimiterTypes, LimiterAssumption
  <2>2. CASE limiter = "window"
    <3>1. Holds(ts, g, tick)
      BY <2>2 DEF AccountOK, g
    <3> QED
      BY <1>2, <1>3, <3>1, HoldsBounds
  <2>3. CASE limiter = "seconds"
    <3>1. InSeconds(b, g, tick)
      BY <2>3 DEF AccountOK, g
    <3> QED
      BY <1>2, <1>3, <3>1, SecondsBound
  <2>4. CASE limiter = "bucket"
    <3>1. FlowedIn(g, n, last, tick)
      BY <2>4 DEF AccountOK, g
    <3> QED
      BY <1>1, <1>2, <1>3, <3>1, FlowBounds
  <2> QED
    BY <2>1, <2>2, <2>3, <2>4
<1>8. c <= HistoryLimit
  <2> DEFINE x == Rate * p
             y == Rate * W
  <2>1. x \in Nat /\ y \in Nat /\ x <= y
    BY <1>6
  <2> HIDE DEF x, y
  <2>2. c <= MaxCount \/ c <= Capacity + x
    BY <1>7 DEF x
  <2> HIDE DEF c
  <2>3. c <= MaxCount + Capacity + y
    BY <1>4, <1>5, <2>1, <2>2
  <2> QED
    BY <2>3 DEF HistoryLimit, y, W
<1> QED
  BY <1>2, <1>3, <1>8 DEF g

-----------------------------------------------------------------------------
LEMMA LimiterStarts == LimiterInit => LimiterInv
<1> SUFFICES ASSUME LimiterInit
             PROVE  LimiterInv
  OBVIOUS
<1> DEFINE none == <<>>
<1>1. none \in Seq(Nat) /\ Len(none) = 0 /\ DOMAIN none = {} /\ Times(none, 0)
  BY DEF Times, Rising
<1>2. \A t \in Nat : CountSince(none, t) = 0
  <2>1. \A t \in Nat : t \in Int /\ \A n \in 1..Len(none) : none[n] < t
    BY <1>1
  <2> HIDE DEF none
  <2> QED
    BY <1>1, <2>1, CountNone
<1>3. tick = 0 /\ counters = none /\ limiter \in Limiters
  BY DEF LimiterInit
<1>4. Capacity \in Nat /\ MaxCount \in Nat /\ Rate \in Nat /\ Secs(Window) \in Nat /\ LastTick \in Nat
  BY LimiterNumbers, LimiterAssumption DEF LimiterAssumption
<1>5. HistoryLimit \in Nat
  <2>1. Rate * Secs(Window) \in Nat
    BY <1>4
  <2> QED
    BY <1>4, <2>1 DEF HistoryLimit
<1>6. LimiterTypes
  <2>1. \A k \in Keys : allowed[k] = none
    BY DEF LimiterInit
  <2>2. \A k \in Keys : Times(allowed[k], tick) /\ Len(allowed[k]) <= HistoryLimit
    BY <1>1, <1>3, <1>5, <2>1
  <2> QED
    BY <1>4, <2>2 DEF LimiterTypes, LimiterInit
<1>7. ASSUME NEW k \in Keys PROVE KeyOK(k)
  <2>1. /\ TimesOf(k) = none /\ allowed[k] = none /\ tokens[k] = Capacity /\ lastCheck[k] = 0
        /\ tokenBuckets[k] = none /\ refused[k] = {}
    BY <1>1, <1>3 DEF LimiterInit, TimesOf
  <2>2. Holds(none, none, 0)
    BY <1>1, <1>2, <1>4 DEF Holds
  <2>3. FlowedIn(none, Capacity, 0, 0)
    <3>1. \A t \in Nat : t <= 0 => Rate * (0 - t) = 0
      BY <1>4
    <3>2. \A t \in Nat : Recently(t, 0) /\ t <= 0 => CountSince(none, t) + Capacity <= Capacity + Rate * (0 - t)
      BY <1>2, <1>4, <3>1
    <3>3. Capacity \in 0..Capacity /\ 0 \in 0..0 /\ \A i \in 1..Len(none) : none[i] <= 0
      BY <1>1, <1>4
    <3> HIDE DEF none
    <3> QED
      BY <3>2, <3>3 DEF FlowedIn
  <2>4. InSeconds(none, none, 0)
    <3>1. CountsSeconds(none)
      BY <1>1, FS_EmptySet DEF CountsSeconds
    <3>2. \A s : FromSecond(none, s) = {}
      BY <1>1 DEF FromSecond
    <3>3. SumOver(none, {}) = 0
      BY SumOfNone
    <3> HIDE DEF none
    <3>4. SumOver(none, DOMAIN none) <= MaxCount
      BY <1>1, <1>4, <3>3
    <3>5. \A t \in Nat : CountSince(none, t) <= SumOver(none, FromSecond(none, SecondOf(t)))
      BY <1>2, <3>2, <3>3
    <3> QED
      BY <3>1, <3>4, <3>5 DEF InSeconds
  <2> HIDE DEF none
  <2> QED
    BY <1>3, <2>1, <2>2, <2>3, <2>4 DEF KeyOK
<1> QED
  BY <1>6, <1>7 DEF LimiterInv

LEMMA TimePassesOn ==
  ASSUME LimiterInv, PassTime
  PROVE  LimiterInv'
<1>1. tick \in Nat /\ tick + 1 \in 0..LastTick /\ tick' = tick + 1
  BY LimiterAssumption DEF LimiterInv, LimiterTypes, PassTime, LimiterAssumption
<1>2. /\ limiter' = limiter /\ counters' = counters /\ tokens' = tokens /\ lastCheck' = lastCheck
      /\ tokenBuckets' = tokenBuckets /\ allowed' = allowed /\ refused' = refused
  BY DEF PassTime
<1>3. ASSUME NEW k \in Keys PROVE Times(allowed[k], tick + 1)
  <2>1. Times(allowed[k], tick)
    BY DEF LimiterInv, LimiterTypes
  <2>2. \A i \in 1..Len(allowed[k]) : allowed[k][i] \in Nat /\ allowed[k][i] <= tick
    BY <2>1 DEF Times
  <2>3. \A i \in 1..Len(allowed[k]) : allowed[k][i] <= tick + 1
    BY <1>1, <2>2
  <2> QED
    BY <2>1, <2>3 DEF Times
<1>4. LimiterTypes'
  <2>1. \A k \in Keys : Times(allowed'[k], tick') /\ Len(allowed'[k]) <= HistoryLimit
    BY <1>1, <1>2, <1>3 DEF LimiterInv, LimiterTypes
  <2> QED
    BY <1>1, <1>2, <2>1 DEF LimiterInv, LimiterTypes, HistoryLimit
<1>5. ASSUME NEW k \in Keys PROVE KeyOK(k)'
  <2>1. KeyOK(k) /\ allowed[k] \in Seq(Nat) /\ (\A i \in 1..Len(allowed[k]) : allowed[k][i] <= tick)
    BY DEF LimiterInv, LimiterTypes, Times
  <2>2. TimesOf(k)' = TimesOf(k)
    BY <1>2 DEF TimesOf
  <2>3. limiter = "window" => Holds(TimesOf(k), allowed[k], tick + 1)
    BY <1>1, <2>1, HoldsLater DEF KeyOK
  <2>4. limiter = "bucket" => FlowedIn(allowed[k], tokens[k], lastCheck[k], tick + 1)
    BY <1>1, <2>1, FlowLater DEF KeyOK
  <2>5. limiter = "seconds" => InSeconds(tokenBuckets[k], allowed[k], tick + 1)
    BY <1>1, <2>1, SecondsLater DEF KeyOK
  <2>6. \A r \in refused[k] :
          /\ PromiseOK(r)
          /\ limiter = "window" => WindowPromise(TimesOf(k), r)
          /\ limiter = "bucket" => BucketPromise(tokens[k], lastCheck[k], r)
    BY <2>1 DEF KeyOK
  <2> QED
    BY <1>1, <1>2, <2>2, <2>3, <2>4, <2>5, <2>6 DEF KeyOK
<1> QED
  BY <1>4, <1>5 DEF LimiterInv

(* A check of key k leaves the other keys as they were, but for a counter  *)
(* that the cleanup drops.                                                 *)
LEMMA OthersKept ==
  ASSUME LimiterInv, NEW k \in Keys, NEW x \in Keys, x # k,
         limiter' = limiter, tick' = tick,
         allowed'[x] = allowed[x], refused'[x] = refused[x], tokens'[x] = tokens[x],
         lastCheck'[x] = lastCheck[x], tokenBuckets'[x] = tokenBuckets[x],
         \/ TimesOf(x)' = TimesOf(x)
         \/ limiter = "window" /\ TimesOf(x)' = <<>> /\ IsStale(TimesOf(x))
  PROVE  KeyOK(x)'
<1>1. KeyOK(x) /\ tick \in Nat
  BY LimiterAssumption DEF LimiterInv, LimiterTypes, LimiterAssumption
<1>2. limiter = "window" => Holds(TimesOf(x)', allowed[x], tick)
  BY <1>1, HoldsDropped DEF KeyOK
<1>3. ASSUME NEW r \in refused[x]
      PROVE  /\ PromiseOK(r)
             /\ limiter = "window" => WindowPromise(TimesOf(x)', r)
             /\ limiter = "bucket" => BucketPromise(tokens[x], lastCheck[x], r)
  <2>1. /\ PromiseOK(r)
        /\ limiter = "window" => WindowPromise(TimesOf(x), r)
        /\ limiter = "bucket" => BucketPromise(tokens[x], lastCheck[x], r)
    BY <1>1 DEF KeyOK
  <2>2. WindowPromise(<<>>, r)
    BY <2>1, NothingCounted DEF NoneCounted, WindowPromise, PromiseOK
  <2> QED
    BY <2>1, <2>2
<1> QED
  BY <1>1, <1>2, <1>3 DEF KeyOK

LEMMA WindowCheckKeeps ==
  ASSUME LimiterInv, NEW k \in Keys, CheckWindow(k)
  PROVE  LimiterInv'
<1> DEFINE ts == TimesOf(k)
           kept == InsideWindow(ts)
           fits == Len(kept) < MaxCount
           retry == kept[1] + Secs(Window) - tick
           until == tick + Secs(retry \div TicksPerSecond + 1)
           new == IF fits THEN Append(kept, tick) ELSE kept
           cs == [x \in DOMAIN counters \cup {k} |-> IF x = k THEN new ELSE counters[x]]
           h == allowed[k]
<1>1. /\ limiter = "window" /\ IF fits THEN LetThrough(k) ELSE Refuse(k, until)
      /\ Cleaned(cs)
      /\ limiter' = limiter /\ tick' = tick /\ tokens' = tokens /\ lastCheck' = lastCheck
      /\ tokenBuckets' = tokenBuckets
  BY DEF CheckWindow
<1>2. tick \in Nat /\ Times(h, tick) /\ Holds(ts, h, tick) /\ Times(ts, tick) /\ Len(ts) <= MaxCount
  <2>1. KeyOK(k) /\ Times(h, tick) /\ tick \in Nat
    BY LimiterAssumption DEF LimiterInv, LimiterTypes, LimiterAssumption
  <2> QED
    BY <1>1, <2>1 DEF KeyOK, Holds
<1>3. DOMAIN allowed = Keys /\ DOMAIN refused = Keys /\ DOMAIN counters \subseteq Keys
  BY DEF LimiterInv, LimiterTypes
<1>4. /\ DOMAIN cs = DOMAIN counters \cup {k} /\ cs[k] = new
      /\ \A x \in DOMAIN counters : x # k => cs[x] = TimesOf(x)
      /\ \A x : x \notin DOMAIN counters => TimesOf(x) = <<>>
  BY DEF TimesOf
<1> HIDE DEF cs
<1>5. /\ DOMAIN counters' \subseteq Keys
      /\ TimesOf(k)' = new \/ (TimesOf(k)' = <<>> /\ IsStale(new))
      /\ \A x \in Keys \ {k} : TimesOf(x)' = TimesOf(x) \/ (TimesOf(x)' = <<>> /\ IsStale(TimesOf(x)))
  <2>1. /\ DOMAIN counters' \subseteq DOMAIN cs
        /\ \A x \in DOMAIN cs : TimesOf(x)' = cs[x] \/ (TimesOf(x)' = <<>> /\ IsStale(cs[x]))
        /\ \A x : x \notin DOMAIN cs => TimesOf(x)' = <<>>
    BY <1>1, CleanedIs
  <2> HIDE DEF new
  <2>2. \A x \in Keys \ {k} : TimesOf(x)' = TimesOf(x) \/ (TimesOf(x)' = <<>> /\ IsStale(TimesOf(x)))
    <3>1. SUFFICES ASSUME NEW x \in Keys \ {k}
                   PROVE  TimesOf(x)' = TimesOf(x) \/ (TimesOf(x)' = <<>> /\ IsStale(TimesOf(x)))
      OBVIOUS
    <3>2. CASE x \in DOMAIN counters
      BY <1>4, <2>1, <3>2
    <3>3. CASE x \notin DOMAIN counters
      BY <1>4, <2>1, <3>3
    <3> QED
      BY <3>2, <3>3
  <2> QED
    BY <1>3, <1>4, <2>1, <2>2
<1> HIDE DEF ts
<1>6. CASE fits
  <2>1. /\ allowed' = [allowed EXCEPT ![k] = WithThis(@)]
        /\ refused' = [refused EXCEPT ![k] = {}]
    BY <1>1, <1>6 DEF LetThrough, WithThis
  <2>2. /\ allowed'[k] = WithThis(h) /\ refused'[k] = {}
        /\ \A x \in Keys \ {k} : allowed'[x] = allowed[x] /\ refused'[x] = refused[x]
        /\ DOMAIN allowed' = Keys /\ DOMAIN refused' = Keys
    BY <1>3, <2>1
  <2>3. Holds(new, WithThis(h), tick)
    BY <1>2, <1>6, HoldsMore DEF WithThis
  <2> HIDE DEF new, fits, kept, h
  <2>4. Holds(TimesOf(k)', WithThis(h), tick)
    BY <1>2, <1>5, <2>3, HoldsDropped
  <2>5. Times(WithThis(h), tick) /\ Len(WithThis(h)) <= HistoryLimit
    <3>1. AccountOK(WithThis(h), new, 0, 0, <<>>)
      BY <1>1, <2>3 DEF AccountOK
    <3>2. LimiterTypes
      BY DEF LimiterInv
    <3> QED
      BY <1>2, <3>1, <3>2, GrownFits
  <2>6. KeyOK(k)'
    BY <1>1, <2>2, <2>4 DEF KeyOK
  <2>7. ASSUME NEW x \in Keys \ {k} PROVE KeyOK(x)'
    <3>1. x \in Keys /\ x # k
      OBVIOUS
    <3> QED
      BY <1>1, <1>5, <2>2, <3>1, OthersKept
  <2>8. LimiterTypes'
    <3>1. \A x \in Keys : Times(allowed'[x], tick') /\ Len(allowed'[x]) <= HistoryLimit
      BY <1>1, <2>2, <2>5 DEF LimiterInv, LimiterTypes
    <3> QED
      BY <1>1, <1>5, <2>2, <3>1 DEF LimiterInv, LimiterTypes, HistoryLimit
  <2> QED
    BY <2>6, <2>7, <2>8 DEF LimiterInv
<1>7. CASE ~fits
  <2>1. refused' = [refused EXCEPT ![k] = {[at |-> tick, until |-> until]}] /\ allowed' = allowed
    BY <1>1, <1>7 DEF Refuse
  <2>2. until \in Nat /\ until > tick /\ StillCounted(kept, until) < MaxCount
    BY <1>2, <1>7, OldestLeaves
  <2>3. Holds(kept, h, tick) /\ new = kept
    BY <1>2, <1>7, HoldsKept
  <2> HIDE DEF new, fits, kept, until
  <2>4. /\ \A x \in Keys \ {k} : allowed'[x] = allowed[x] /\ refused'[x] = refused[x]
        /\ refused'[k] = {[at |-> tick, until |-> until]}
        /\ DOMAIN refused' = Keys
    BY <1>3, <2>1
  <2>5. Holds(TimesOf(k)', h, tick)
    BY <1>2, <1>5, <2>3, HoldsDropped
  <2>6. KeyOK(k)'
    <3> DEFINE r == [at |-> tick, until |-> until]
    <3>1. PromiseOK(r) /\ r.until = until
      BY <1>2, <2>2 DEF PromiseOK
    <3> HIDE DEF r
    <3>2. WindowPromise(TimesOf(k)', r)
      <4>1. StillCounted(<<>>, until) < MaxCount
        BY <2>2, NothingCounted DEF NoneCounted
      <4> QED
        BY <1>5, <2>2, <2>3, <3>1, <4>1 DEF WindowPromise
    <3>3. refused'[k] = {r}
      BY <2>4 DEF r
    <3>4. allowed'[k] = h
      BY <2>1
    <3> QED
      BY <1>1, <2>5, <3>1, <3>2, <3>3, <3>4 DEF KeyOK
  <2>7. ASSUME NEW x \in Keys \ {k} PROVE KeyOK(x)'
    <3>1. x \in Keys /\ x # k
      OBVIOUS
    <3> QED
      BY <1>1, <1>5, <2>4, <3>1, OthersKept
  <2>8. LimiterTypes'
    BY <1>1, <1>5, <2>1, <2>4 DEF LimiterInv, LimiterTypes, HistoryLimit
  <2> QED
    BY <2>6, <2>7, <2>8 DEF LimiterInv
<1> QED
  BY <1>6, <1>7

LEMMA BucketCheckKeeps ==
  ASSUME LimiterInv, NEW k \in Keys, CheckBucket(k)
  PROVE  LimiterInv'
<1> DEFINE h == allowed[k]
           filled == Filled(tokens[k], lastCheck[k])
           wait == (1 - filled + Rate - 1) \div Rate
<1>1. /\ limiter = "bucket" /\ lastCheck' = [lastCheck EXCEPT ![k] = tick]
      /\ IF filled >= 1
         THEN tokens' = [tokens EXCEPT ![k] = filled - 1] /\ LetThrough(k)
         ELSE tokens' = [tokens EXCEPT ![k] = filled] /\ Refuse(k, tick + wait)
      /\ limiter' = limiter /\ tick' = tick /\ counters' = counters /\ tokenBuckets' = tokenBuckets
  BY DEF CheckBucket, Filled
<1>2. /\ DOMAIN allowed = Keys /\ DOMAIN refused = Keys /\ DOMAIN counters \subseteq Keys
      /\ DOMAIN lastCheck = Keys /\ tokens \in [Keys -> 0..Capacity]
  BY DEF LimiterInv, LimiterTypes
<1>3. tick \in Nat /\ Times(h, tick) /\ FlowedIn(h, tokens[k], lastCheck[k], tick)
  <2>1. KeyOK(k) /\ Times(h, tick) /\ tick \in Nat
    BY LimiterAssumption DEF LimiterInv, LimiterTypes, LimiterAssumption
  <2> QED
    BY <1>1, <2>1 DEF KeyOK
<1>4. FlowedIn(h, filled, tick, tick) /\ filled \in 0..Capacity /\ Capacity \in Nat
  <2>1. FlowedIn(h, filled, tick, tick)
    BY <1>3, FlowKept
  <2> QED
    BY <2>1, LimiterNumbers DEF FlowedIn
<1>5. \A x \in Keys : TimesOf(x)' = TimesOf(x)
  BY <1>1 DEF TimesOf
<1>6. /\ lastCheck'[k] = tick /\ DOMAIN lastCheck' = Keys
      /\ \A x \in Keys \ {k} : lastCheck'[x] = lastCheck[x]
  BY <1>1, <1>2
<1>7. CASE filled >= 1
  <2>1. /\ allowed' = [allowed EXCEPT ![k] = WithThis(@)]
        /\ refused' = [refused EXCEPT ![k] = {}]
        /\ tokens' = [tokens EXCEPT ![k] = filled - 1]
    BY <1>1, <1>7 DEF LetThrough, WithThis
  <2>2. FlowedIn(WithThis(h), filled - 1, tick, tick)
    BY <1>3, <1>7, FlowTaken DEF WithThis
  <2>3. filled - 1 \in 0..Capacity
    BY <1>4, <1>7
  <2> HIDE DEF filled, h
  <2>4. /\ allowed'[k] = WithThis(h) /\ refused'[k] = {} /\ tokens'[k] = filled - 1
        /\ \A x \in Keys \ {k} : allowed'[x] = allowed[x] /\ refused'[x] = refused[x] /\ tokens'[x] = tokens[x]
        /\ DOMAIN allowed' = Keys /\ DOMAIN refused' = Keys /\ tokens' \in [Keys -> 0..Capacity]
    BY <1>2, <2>1, <2>3 DEF h
  <2>5. Times(WithThis(h), tick) /\ Len(WithThis(h)) <= HistoryLimit
    <3>1. AccountOK(WithThis(h), <<>>, filled - 1, tick, <<>>)
      BY <1>1, <2>2 DEF AccountOK
    <3>2. LimiterTypes
      BY DEF LimiterInv
    <3> QED
      BY <1>3, <3>1, <3>2, GrownFits
  <2>6. KeyOK(k)'
    BY <1>1, <1>6, <2>2, <2>4 DEF KeyOK
  <2>7. ASSUME NEW x \in Keys \ {k} PROVE KeyOK(x)'
    <3>1. x \in Keys /\ x # k /\ TimesOf(x)' = TimesOf(x)
      BY <1>5
    <3> QED
      BY <1>1, <1>6, <2>4, <3>1, OthersKept
  <2>8. LimiterTypes'
    <3>1. \A x \in Keys : Times(allowed'[x], tick') /\ Len(allowed'[x]) <= HistoryLimit
      BY <1>1, <2>4, <2>5 DEF LimiterInv, LimiterTypes
    <3> QED
      BY <1>1, <1>6, <2>4, <3>1 DEF LimiterInv, LimiterTypes, HistoryLimit
  <2> QED
    BY <2>6, <2>7, <2>8 DEF LimiterInv
<1>8. CASE ~(filled >= 1)
  <2> DEFINE r == [at |-> tick, until |-> tick + wait]
  <2>1. /\ allowed' = allowed
        /\ refused' = [refused EXCEPT ![k] = {r}]
        /\ tokens' = [tokens EXCEPT ![k] = filled]
    BY <1>1, <1>8 DEF Refuse
  <2>2. PromiseOK(r) /\ BucketPromise(filled, tick, r)
    BY <1>3, <1>4, <1>8, OneTickFills
  <2> HIDE DEF filled, h, r
  <2>3. /\ refused'[k] = {r} /\ tokens'[k] = filled
        /\ \A x \in Keys \ {k} : allowed'[x] = allowed[x] /\ refused'[x] = refused[x] /\ tokens'[x] = tokens[x]
        /\ DOMAIN refused' = Keys /\ tokens' \in [Keys -> 0..Capacity]
    BY <1>2, <1>4, <2>1
  <2>4. KeyOK(k)'
    <3>1. allowed'[k] = h
      BY <2>1 DEF h
    <3> QED
      BY <1>1, <1>4, <1>6, <2>2, <2>3, <3>1 DEF KeyOK
  <2>5. ASSUME NEW x \in Keys \ {k} PROVE KeyOK(x)'
    <3>1. x \in Keys /\ x # k /\ TimesOf(x)' = TimesOf(x)
      BY <1>5
    <3> QED
      BY <1>1, <1>6, <2>3, <3>1, OthersKept
  <2>6. LimiterTypes'
    BY <1>1, <1>6, <2>1, <2>3 DEF LimiterInv, LimiterTypes, HistoryLimit
  <2> QED
    BY <2>4, <2>5, <2>6 DEF LimiterInv
<1> QED
  BY <1>7, <1>8

LEMMA SecondsCheckKeeps ==
  ASSUME LimiterInv, NEW k \in Keys, CheckSeconds(k)
  PROVE  LimiterInv'
<1> DEFINE h == allowed[k]
           b == tokenBuckets[k]
           kept == Recent(b)
           oldest == IF DOMAIN kept = {} THEN TickSecond ELSE Min(DOMAIN kept)
           after == Max({1, Window - (TickSecond - oldest)})
           r == [at |-> tick, until |-> tick + Secs(after)]
<1>1. /\ limiter = "seconds"
      /\ IF SumFunction(kept) < MaxCount
         THEN tokenBuckets' = [tokenBuckets EXCEPT ![k] = Counted(kept)] /\ LetThrough(k)
         ELSE tokenBuckets' = [tokenBuckets EXCEPT ![k] = kept] /\ Refuse(k, tick + Secs(after))
      /\ limiter' = limiter /\ tick' = tick /\ counters' = counters /\ tokens' = tokens
      /\ lastCheck' = lastCheck
  BY DEF CheckSeconds, Counted
<1>2. /\ DOMAIN allowed = Keys /\ DOMAIN refused = Keys /\ DOMAIN counters \subseteq Keys
      /\ DOMAIN tokenBuckets = Keys
  BY DEF LimiterInv, LimiterTypes
<1>3. tick \in Nat /\ Times(h, tick) /\ InSeconds(b, h, tick)
  <2>1. KeyOK(k) /\ Times(h, tick) /\ tick \in Nat
    BY LimiterAssumption DEF LimiterInv, LimiterTypes, LimiterAssumption
  <2> QED
    BY <1>1, <2>1 DEF KeyOK
<1>4. InSeconds(kept, h, tick) /\ PromiseOK(r)
  <2>1. CountsSeconds(b)
    BY <1>3 DEF InSeconds
  <2>2. PromiseOK(r)
    BY <1>3, <2>1, SecondsPromise
  <2> QED
    BY <1>3, <2>2, SecondsKept
<1>5. \A x \in Keys : TimesOf(x)' = TimesOf(x)
  BY <1>1 DEF TimesOf
<1>6. CASE SumFunction(kept) < MaxCount
  <2>1. /\ allowed' = [allowed EXCEPT ![k] = WithThis(@)]
        /\ refused' = [refused EXCEPT ![k] = {}]
        /\ tokenBuckets' = [tokenBuckets EXCEPT ![k] = Counted(kept)]
    BY <1>1, <1>6 DEF LetThrough, WithThis
  <2>2. InSeconds(Counted(kept), WithThis(h), tick)
    BY <1>3, <1>6, SecondsMore DEF WithThis
  <2> HIDE DEF kept, h
  <2>3. /\ allowed'[k] = WithThis(h) /\ refused'[k] = {} /\ tokenBuckets'[k] = Counted(kept)
        /\ \A x \in Keys \ {k} : /\ allowed'[x] = allowed[x] /\ refused'[x] = refused[x]
                                 /\ tokenBuckets'[x] = tokenBuckets[x]
        /\ DOMAIN allowed' = Keys /\ DOMAIN refused' = Keys /\ DOMAIN tokenBuckets' = Keys
    BY <1>2, <2>1 DEF h
  <2>4. Times(WithThis(h), tick) /\ Len(WithThis(h)) <= HistoryLimit
    <3>1. AccountOK(WithThis(h), <<>>, 0, 0, Counted(kept))
      BY <1>1, <2>2 DEF AccountOK
    <3>2. LimiterTypes
      BY DEF LimiterInv
    <3> QED
      BY <1>3, <3>1, <3>2, GrownFits
  <2>5. KeyOK(k)'
    BY <1>1, <2>2, <2>3 DEF KeyOK
  <2>6. ASSUME NEW x \in Keys \ {k} PROVE KeyOK(x)'
    <3>1. x \in Keys /\ x # k /\ TimesOf(x)' = TimesOf(x)
      BY <1>5
    <3> QED
      BY <1>1, <2>3, <3>1, OthersKept
  <2>7. LimiterTypes'
    <3>1. \A x \in Keys : Times(allowed'[x], tick') /\ Len(allowed'[x]) <= HistoryLimit
      BY <1>1, <2>3, <2>4 DEF LimiterInv, LimiterTypes
    <3> QED
      BY <1>1, <2>3, <3>1 DEF LimiterInv, LimiterTypes, HistoryLimit
  <2> QED
    BY <2>5, <2>6, <2>7 DEF LimiterInv
<1>7. CASE ~(SumFunction(kept) < MaxCount)
  <2>1. /\ allowed' = allowed
        /\ refused' = [refused EXCEPT ![k] = {r}]
        /\ tokenBuckets' = [tokenBuckets EXCEPT ![k] = kept]
    BY <1>1, <1>7 DEF Refuse
  <2> HIDE DEF kept, h, r
  <2>2. /\ refused'[k] = {r} /\ tokenBuckets'[k] = kept
        /\ \A x \in Keys \ {k} : /\ allowed'[x] = allowed[x] /\ refused'[x] = refused[x]
                                 /\ tokenBuckets'[x] = tokenBuckets[x]
        /\ DOMAIN refused' = Keys /\ DOMAIN tokenBuckets' = Keys
    BY <1>2, <2>1
  <2>3. KeyOK(k)'
    <3>1. allowed'[k] = h
      BY <2>1 DEF h
    <3> QED
      BY <1>1, <1>4, <2>2, <3>1 DEF KeyOK
  <2>4. ASSUME NEW x \in Keys \ {k} PROVE KeyOK(x)'
    <3>1. x \in Keys /\ x # k /\ TimesOf(x)' = TimesOf(x)
      BY <1>5
    <3> QED
      BY <1>1, <2>1, <2>2, <3>1, OthersKept
  <2>5. LimiterTypes'
    BY <1>1, <2>1, <2>2 DEF LimiterInv, LimiterTypes, HistoryLimit
  <2> QED
    BY <2>3, <2>4, <2>5 DEF LimiterInv
<1> QED
  BY <1>6, <1>7

LEMMA LimiterStep == LimiterInv /\ [LimiterNext]_limiterVars => LimiterInv'
<1> SUFFICES ASSUME LimiterInv, [LimiterNext]_limiterVars
             PROVE  LimiterInv'
  OBVIOUS
<1>1. CASE PassTime
  BY <1>1, TimePassesOn
<1>2. CASE \E k \in Keys : CheckWindow(k) \/ CheckBucket(k) \/ CheckSeconds(k)
  BY <1>2, WindowCheckKeeps, BucketCheckKeeps, SecondsCheckKeeps
<1>3. CASE UNCHANGED limiterVars
  BY <1>3 DEF limiterVars, LimiterInv, LimiterTypes, KeyOK, TimesOf, HistoryLimit
<1> QED
  BY <1>1, <1>2, <1>3 DEF LimiterNext

LEMMA LimiterHolds ==
  ASSUME LimiterInv
  PROVE  LimiterTypeOK /\ LimitsHold
<1>1. LimiterTypes /\ \A k \in Keys : KeyOK(k)
  BY DEF LimiterInv
<1>2. tick \in Nat
  BY <1>1, LimiterAssumption DEF LimiterTypes, LimiterAssumption
<1>3. LimiterTypeOK
  BY <1>1 DEF LimiterTypes, LimiterTypeOK, HistoryLimit
<1>4. WithinLimit
  <2>1. SUFFICES ASSUME NEW k \in Keys, NEW t \in {x \in 0..tick : tick - x <= Secs(Window)}
                 PROVE  /\ limiter \in {"window", "seconds"} => Since(k, t) <= MaxCount
                        /\ limiter = "bucket" => Since(k, t) <= Capacity + Rate * (tick - t)
    BY DEF WithinLimit
  <2>2. t \in Nat /\ Recently(t, tick)
    BY <1>2, LimiterNumbers DEF Recently
  <2> QED
    BY <1>1, <2>2, LimitOfAllowed DEF Since
<1>5. RetryIsHonest
  <2>1. SUFFICES ASSUME NEW k \in Keys, NEW r \in refused[k]
                 PROVE  /\ limiter = "window" => StillCounted(TimesOf(k), r.until) < MaxCount
                        /\ limiter = "bucket" =>
                             Min({Capacity, tokens[k] + (r.until - lastCheck[k]) * Rate}) >= 1
                        /\ r.until > r.at
    BY DEF RetryIsHonest, StillCounted
  <2>2. /\ PromiseOK(r)
        /\ limiter = "window" => WindowPromise(TimesOf(k), r)
        /\ limiter = "bucket" => BucketPromise(tokens[k], lastCheck[k], r)
    BY <1>1 DEF KeyOK
  <2> QED
    BY <2>2 DEF PromiseOK, WindowPromise, BucketPromise
<1> QED
  BY <1>3, <1>4, <1>5 DEF LimitsHold

-----------------------------------------------------------------------------
(* Forensics.                                                              *)

(* Sums: of two functions, of one that is zero outside a part, and of the  *)
(* sizes of the parts of a set.                                            *)
LEMMA SumOfTwo ==
  ASSUME NEW f, NEW g, NEW h, NEW S, IsFiniteSet(S),
         \A x \in S : f[x] \in Int /\ g[x] \in Int /\ h[x] = f[x] + g[x]
  PROVE  SumOver(h, S) = SumOver(f, S) + SumOver(g, S)
<1> DEFINE G == {s \in SUBSET S : SumOver(h, s) = SumOver(f, s) + SumOver(g, s)}
<1>1. {} \in G
  BY SumOfNone
<1>2. \A x \in S : h[x] \in Int
  OBVIOUS
<1>3. ASSUME NEW s \in SUBSET S, NEW x \in S \ s, s \in G PROVE s \cup {x} \in G
  <2>1. /\ SumOver(f, s) \in Int /\ f[x] \in Int /\ SumOver(f, s \cup {x}) = f[x] + SumOver(f, s)
        /\ SumOver(g, s) \in Int /\ g[x] \in Int /\ SumOver(g, s \cup {x}) = g[x] + SumOver(g, s)
        /\ SumOver(h, s \cup {x}) = h[x] + SumOver(h, s)
    BY <1>2, SumGrows
  <2> DEFINE a == SumOver(f, s)
             b == SumOver(g, s)
  <2>2. SumOver(h, s) = a + b /\ a \in Int /\ b \in Int
    BY <1>3, <2>1
  <2> HIDE DEF a, b
  <2>3. h[x] + (a + b) = (f[x] + a) + (g[x] + b)
    BY <2>1, <2>2
  <2> QED
    BY <2>1, <2>2, <2>3 DEF a, b
<1> HIDE DEF G
<1>4. S \in G
  BY <1>1, <1>3, SetOfSubsets
<1> QED
  BY <1>4 DEF G

LEMMA SumOfPositive ==
  ASSUME NEW f, NEW S, IsFiniteSet(S), NEW T \in SUBSET S,
         \A x \in S : f[x] \in Int /\ (x \notin T => f[x] = 0)
  PROVE  SumOver(f, S) = SumOver(f, T)
<1> DEFINE G == {s \in SUBSET (S \ T) : SumOver(f, T \cup s) = SumOver(f, T)}
<1>1. {} \in G
  OBVIOUS
<1>2. IsFiniteSet(S \ T)
  BY FS_Subset
<1>3. ASSUME NEW s \in SUBSET (S \ T), NEW x \in (S \ T) \ s, s \in G PROVE s \cup {x} \in G
  <2>1. T \cup s \in SUBSET S /\ x \in S \ (T \cup s) /\ f[x] = 0
    OBVIOUS
  <2>2. SumOver(f, (T \cup s) \cup {x}) = f[x] + SumOver(f, T \cup s) /\ SumOver(f, T \cup s) \in Int
    BY <2>1, SumGrows
  <2>3. (T \cup s) \cup {x} = T \cup (s \cup {x}) /\ s \cup {x} \in SUBSET (S \ T)
    OBVIOUS
  <2>4. SumOver(f, T \cup s) = SumOver(f, T)
    BY <1>3
  <2> HIDE DEF G
  <2>5. SumOver(f, T \cup (s \cup {x})) = SumOver(f, T)
    <3> DEFINE v == SumOver(f, T \cup s)
    <3>1. v \in Int /\ 0 + v = v
      BY <2>2
    <3> QED
      BY <2>1, <2>2, <2>3, <2>4, <3>1
  <2> QED
    BY <2>3, <2>5 DEF G
<1> HIDE DEF G
<1>4. S \ T \in G
  BY <1>1, <1>2, <1>3, SetOfSubsets
<1>5. T \cup (S \ T) = S
  OBVIOUS
<1> QED
  BY <1>4, <1>5 DEF G

LEMMA SumOfParts ==
  ASSUME NEW S, IsFiniteSet(S), NEW K, IsFiniteSet(K), NEW k \in [S -> K],
         NEW h, \A c \in K : h[c] = Cardinality({x \in S : k[x] = c})
  PROVE  SumOver(h, K) = Cardinality(S)
<1> DEFINE in(s) == {x \in S : k[x] \in s}
           at(c) == {x \in S : k[x] = c}
           G == {s \in SUBSET K : SumOver(h, s) = Cardinality(in(s))}
<1>1. {} \in G
  <2>1. in({}) = {}
    OBVIOUS
  <2> QED
    BY <2>1, SumOfNone, FS_EmptySet
<1>2. \A s : IsFiniteSet(in(s)) /\ Cardinality(in(s)) \in Nat
  BY FS_Subset, FS_CardinalityType
<1>3. \A c : IsFiniteSet(at(c)) /\ Cardinality(at(c)) \in Nat
  BY FS_Subset, FS_CardinalityType
<1>40. \A c \in K : h[c] = Cardinality(at(c))
  OBVIOUS
<1>4. \A c \in K : h[c] \in Int /\ h[c] = Cardinality(at(c))
  <2> HIDE DEF at
  <2> QED
    BY <1>3, <1>40
<1>5. ASSUME NEW s \in SUBSET K, NEW c \in K \ s, s \in G PROVE s \cup {c} \in G
  <2>1. in(s \cup {c}) = in(s) \cup at(c) /\ in(s) \cap at(c) = {}
    OBVIOUS
  <2>2. SumOver(h, s \cup {c}) = h[c] + SumOver(h, s)
    BY <1>4, SumGrows
  <2> HIDE DEF in, at
  <2> DEFINE T == in(s)
             U == at(c)
  <2>30. IsFiniteSet(T) /\ IsFiniteSet(U) /\ T \cap U = {}
    BY <1>2, <1>3, <2>1
  <2> HIDE DEF T, U
  <2>31. Cardinality(T \cup U) = Cardinality(T) + Cardinality(U) - 0
    BY <2>30, FS_Union, FS_EmptySet
  <2>3. Cardinality(in(s) \cup at(c)) = Cardinality(in(s)) + Cardinality(at(c)) - 0
    BY <2>31 DEF T, U
  <2>4. Cardinality(in(s) \cup at(c)) = Cardinality(at(c)) + Cardinality(in(s))
    BY <1>2, <1>3, <2>3
  <2> QED
    BY <1>4, <1>5, <2>1, <2>2, <2>4
<1>6. in(K) = S
  OBVIOUS
<1> HIDE DEF G, in, at
<1>7. K \in G
  BY <1>1, <1>5, SetOfSubsets
<1> QED
  BY <1>6, <1>7 DEF G

-----------------------------------------------------------------------------
(* thor_stats_1m: finite bags of rows of sums, and what they sum up to.    *)
RowOK(x) == x.flows \in Nat /\ x.blocked \in Nat /\ x.blocked <= x.flows

StatsOK(B) ==
  /\ B = [x \in DOMAIN B |-> B[x]] /\ IsFiniteSet(DOMAIN B)
  /\ \A x \in DOMAIN B : RowOK(x) /\ B[x] \in Nat /\ B[x] > 0

(* The flows of day d that a row stands for, and those of a bag.           *)
FlowsOf(x, d) == IF x.day = d THEN x.flows ELSE 0
Weights(B, d) == [x \in DOMAIN B |-> FlowsOf(x, d) * B[x]]
Total(B, d) == SumOver(Weights(B, d), DOMAIN B)

LEMMA FlowsType == ASSUME NEW x, NEW d, RowOK(x) PROVE FlowsOf(x, d) \in Nat
BY DEF RowOK, FlowsOf

LEMMA NatProduct == ASSUME NEW m \in Nat, NEW n \in Nat PROVE m * n \in Nat
OBVIOUS

LEMMA TotalType ==
  ASSUME NEW B, NEW d, StatsOK(B)
  PROVE  Total(B, d) \in Nat /\ \A x \in DOMAIN B : Weights(B, d)[x] \in Nat
<1>1. \A x \in DOMAIN B : Weights(B, d)[x] \in Nat
  BY NatProduct, FlowsType DEF Weights, StatsOK
<1> QED
  BY <1>1, SumOfNaturals DEF StatsOK, Total

LEMMA StatsJoined ==
  ASSUME NEW B, NEW C, NEW d, StatsOK(B), StatsOK(C)
  PROVE  StatsOK(B (+) C) /\ Total(B (+) C, d) = Total(B, d) + Total(C, d)
<1> DEFINE D == DOMAIN B \cup DOMAIN C
           b(x) == IF x \in DOMAIN B THEN B[x] ELSE 0
           c(x) == IF x \in DOMAIN C THEN C[x] ELSE 0
           U == B (+) C
<1>1. U = [x \in D |-> b(x) + c(x)]
  BY DEF (+)
<1>2. \A x \in D : b(x) \in Nat /\ c(x) \in Nat /\ b(x) + c(x) > 0 /\ b(x) + c(x) \in Nat /\ RowOK(x)
  BY DEF StatsOK
<1>3. IsFiniteSet(D)
  BY FS_Union DEF StatsOK
<1> HIDE DEF U
<1>4. DOMAIN U = D /\ \A x \in D : U[x] = b(x) + c(x)
  BY <1>1
<1>5. StatsOK(U)
  <2>1. U = [x \in D |-> U[x]]
    BY <1>1
  <2>2. \A x \in D : RowOK(x) /\ U[x] \in Nat /\ U[x] > 0
    <3> HIDE DEF b, c, D
    <3> QED
      BY <1>2, <1>4
  <2> HIDE DEF D
  <2> QED
    BY <1>3, <1>4, <2>1, <2>2 DEF StatsOK
<1> DEFINE f == [x \in D |-> FlowsOf(x, d) * b(x)]
           g == [x \in D |-> FlowsOf(x, d) * c(x)]
<1>6. \A x \in D : f[x] \in Int /\ g[x] \in Int /\ Weights(U, d)[x] = f[x] + g[x]
  <2>1. ASSUME NEW x \in D PROVE f[x] \in Int /\ g[x] \in Int /\ Weights(U, d)[x] = f[x] + g[x]
    <3> DEFINE m == FlowsOf(x, d)
               i == b(x)
               j == c(x)
    <3>1. m \in Nat /\ i \in Nat /\ j \in Nat
      BY <1>2, FlowsType
    <3>2. f[x] = m * i /\ g[x] = m * j /\ Weights(U, d)[x] = m * (i + j)
      BY <1>4 DEF Weights
    <3> HIDE DEF m, i, j, f, g
    <3> QED
      BY <3>1, <3>2
  <2> QED
    BY <2>1
<1>7. \A x \in D : (x \notin DOMAIN B => f[x] = 0) /\ (x \notin DOMAIN C => g[x] = 0)
  BY <1>2, FlowsType
<1>8. (\A x \in DOMAIN B : f[x] = Weights(B, d)[x]) /\ (\A x \in DOMAIN C : g[x] = Weights(C, d)[x])
  BY DEF Weights
<1> HIDE DEF f, g, b, c
<1>9. SumOver(Weights(U, d), D) = SumOver(f, D) + SumOver(g, D)
  BY <1>3, <1>6, SumOfTwo
<1>10. SumOver(f, D) = SumOver(f, DOMAIN B) /\ SumOver(g, D) = SumOver(g, DOMAIN C)
  <2>1. DOMAIN B \in SUBSET D /\ DOMAIN C \in SUBSET D
    OBVIOUS
  <2>2. /\ \A x \in D : f[x] \in Int /\ (x \notin DOMAIN B => f[x] = 0)
        /\ \A x \in D : g[x] \in Int /\ (x \notin DOMAIN C => g[x] = 0)
    BY <1>6, <1>7
  <2> HIDE DEF D
  <2> QED
    BY <1>3, <2>1, <2>2, SumOfPositive
<1>11. SumOver(f, DOMAIN B) = Total(B, d) /\ SumOver(g, DOMAIN C) = Total(C, d)
  <2>1. \A x \in DOMAIN B : f[x] \in Int
    BY <1>6
  <2>2. \A x \in DOMAIN C : g[x] \in Int
    BY <1>6
  <2> QED
    BY <1>8, <2>1, <2>2, SumAgrees DEF StatsOK, Total
<1>12. Total(U, d) = SumOver(Weights(U, d), D)
  BY <1>4 DEF Total
<1> QED
  BY <1>5, <1>9, <1>10, <1>11, <1>12 DEF U

LEMMA OneRow ==
  ASSUME NEW x, NEW d, RowOK(x)
  PROVE  StatsOK(SetToBag({x})) /\ Total(SetToBag({x}), d) = FlowsOf(x, d)
<1> DEFINE B == SetToBag({x})
<1>1. B = [e \in {x} |-> 1] /\ DOMAIN B = {x} /\ B[x] = 1
  BY DEF SetToBag
<1> HIDE DEF B
<1>2. StatsOK(B)
  BY <1>1, FS_Singleton DEF StatsOK
<1>3. Weights(B, d)[x] = FlowsOf(x, d) /\ FlowsOf(x, d) \in Nat
  BY <1>1, FlowsType DEF Weights
<1>4. SumOver(Weights(B, d), {x}) = Weights(B, d)[x] + SumOver(Weights(B, d), {x} \ {x})
  <2>0. Weights(B, d)[x] \in Int
    BY <1>3
  <2>1. IsFiniteSet({x}) /\ \A e \in {x} : Weights(B, d)[e] \in Int
    BY <2>0, FS_Singleton
  <2> QED
    BY <2>1, SumTakesOut
<1>5. {x} \ {x} = {}
  OBVIOUS
<1> QED
  BY <1>1, <1>2, <1>3, <1>4, <1>5, SumOfNone DEF Total, B

(* What a bag holds is taken out and put back.                             *)
LEMMA TakenOut ==
  ASSUME NEW B, NEW C, StatsOK(B), StatsOK(C), C \sqsubseteq B
  PROVE  StatsOK(B (-) C) /\ (B (-) C) (+) C = B
<1> DEFINE d(x) == IF x \in DOMAIN C THEN B[x] - C[x] ELSE B[x]
           R == {x \in DOMAIN B : d(x) > 0}
           W == B (-) C
<1>1. W = [x \in R |-> d(x)]
  BY DEF (-)
<1>2. DOMAIN C \subseteq DOMAIN B /\ \A x \in DOMAIN C : C[x] <= B[x]
  BY DEF \sqsubseteq
<1>3. \A x \in DOMAIN B : B[x] \in Nat /\ B[x] > 0 /\ RowOK(x)
  BY DEF StatsOK
<1>4. \A x \in DOMAIN C : C[x] \in Nat
  BY DEF StatsOK
<1>5. \A x \in DOMAIN B : d(x) \in Nat
  BY <1>2, <1>3, <1>4
<1> HIDE DEF W
<1>6. DOMAIN W = R /\ \A x \in R : W[x] = d(x)
  BY <1>1
<1>7. IsFiniteSet(R)
  BY FS_Subset DEF StatsOK
<1>8. StatsOK(W)
  <2>1. W = [x \in R |-> W[x]]
    BY <1>1
  <2> QED
    BY <1>3, <1>5, <1>6, <1>7, <2>1 DEF StatsOK
<1>9. W (+) C = B
  <2> DEFINE w(x) == IF x \in DOMAIN W THEN W[x] ELSE 0
             c(x) == IF x \in DOMAIN C THEN C[x] ELSE 0
  <2>1. W (+) C = [x \in (DOMAIN W) \cup (DOMAIN C) |-> w(x) + c(x)]
    BY DEF (+)
  <2>2. (DOMAIN W) \cup (DOMAIN C) = DOMAIN B
    <3>1. ASSUME NEW x \in DOMAIN B, x \notin DOMAIN C PROVE x \in R
      BY <1>3, <3>1
    <3> QED
      BY <1>2, <1>6, <3>1
  <2>3. ASSUME NEW x \in DOMAIN B PROVE w(x) + c(x) = B[x]
    <3>1. CASE x \in R
      BY <1>2, <1>3, <1>4, <1>6, <3>1
    <3>2. CASE x \notin R
      <4>1. w(x) = 0
        BY <1>6, <3>2
      <4>2. x \in DOMAIN C /\ ~(B[x] - C[x] > 0)
        BY <1>3, <3>2
      <4> QED
        BY <1>2, <1>3, <1>4, <4>1, <4>2
    <3> QED
      BY <3>1, <3>2
  <2> HIDE DEF w, c
  <2>4. B = [x \in DOMAIN B |-> B[x]]
    BY DEF StatsOK
  <2>5. [x \in DOMAIN B |-> w(x) + c(x)] = [x \in DOMAIN B |-> B[x]]
    BY <2>3
  <2> QED
    BY <2>1, <2>2, <2>4, <2>5
<1> QED
  BY <1>8, <1>9 DEF W

(* The row that mv_stats_1m adds for the flows fs of a day.                *)
OnDay(fs, d) == {f \in fs : Flow[f].seen = d}
DayRow(fs, d) ==
  [day |-> d, flows |-> Cardinality(OnDay(fs, d)),
   blocked |-> Cardinality({f \in OnDay(fs, d) : Flow[f].decision = "block"})]

LEMMA BatchIsSummed ==
  ASSUME NEW block, NEW d, IsFiniteSet(block \cap FlowIds)
  PROVE  StatsOK(SumsOf(block)) /\ Total(SumsOf(block), d) = Cardinality(OnDay(block \cap FlowIds, d))
<1> DEFINE fs == block \cap FlowIds
           R == {DayRow(fs, Flow[f].seen) : f \in fs}
           B == SumsOf(block)
<1>1. B = SetToBag(R)
  BY DEF SumsOf, DayRow, OnDay
<1>2. IsFiniteSet(fs)
  OBVIOUS
<1> HIDE DEF fs
<1>3. \A e : RowOK(DayRow(fs, e))
  <2>1. ASSUME NEW e PROVE RowOK(DayRow(fs, e))
    <3> DEFINE S == OnDay(fs, e)
               T == {f \in S : Flow[f].decision = "block"}
    <3>1. S \in SUBSET fs
      BY DEF OnDay
    <3>2. IsFiniteSet(S) /\ Cardinality(S) \in Nat
      BY <1>2, <3>1, FS_Subset, FS_CardinalityType
    <3>3. IsFiniteSet(T) /\ Cardinality(T) \in Nat /\ Cardinality(T) <= Cardinality(S)
      BY <3>2, FS_Subset, FS_CardinalityType
    <3> HIDE DEF S
    <3> QED
      BY <3>2, <3>3 DEF RowOK, DayRow, S
  <2> QED
    BY <2>1
<1>4. IsFiniteSet(R)
  <2> DEFINE g == [f \in fs |-> DayRow(fs, Flow[f].seen)]
  <2>1. g \in Surjection(fs, R)
    BY DEF Surjection
  <2> HIDE DEF g, R
  <2> QED
    BY <1>2, <2>1, FS_Surjection
<1>5. B = [x \in R |-> 1] /\ DOMAIN B = R /\ \A x \in R : B[x] = 1
  BY <1>1 DEF SetToBag
<1>6. \A x \in R : RowOK(x)
  BY <1>3
<1> HIDE DEF B
<1>7. StatsOK(B)
  <2> HIDE DEF R
  <2>1. B = [x \in DOMAIN B |-> B[x]]
    BY <1>5
  <2>2. \A x \in DOMAIN B : RowOK(x) /\ B[x] \in Nat /\ B[x] > 0
    BY <1>5, <1>6
  <2> QED
    BY <1>4, <1>5, <2>1, <2>2 DEF StatsOK
<1> DEFINE T == {x \in R : x.day = d}
<1>8. SumOver(Weights(B, d), R) = SumOver(Weights(B, d), T)
  <2>1. \A x \in R : Weights(B, d)[x] \in Int /\ (x \notin T => Weights(B, d)[x] = 0)
    <3>1. ASSUME NEW x \in R PROVE Weights(B, d)[x] \in Int /\ (x \notin T => Weights(B, d)[x] = 0)
      <4>1. Weights(B, d)[x] = FlowsOf(x, d) * 1 /\ FlowsOf(x, d) \in Nat
        BY <1>5, <1>6, FlowsType DEF Weights
      <4>2. x \notin T => FlowsOf(x, d) = 0
        BY DEF FlowsOf
      <4> QED
        BY <4>1, <4>2
    <3> QED
      BY <3>1
  <2>2. T \in SUBSET R
    OBVIOUS
  <2> HIDE DEF T, R
  <2> QED
    BY <1>4, <2>1, <2>2, SumOfPositive
<1>9. \A x \in T : x = DayRow(fs, d)
  <2>1. ASSUME NEW x \in T PROVE x = DayRow(fs, d)
    <3>1. PICK f \in fs : x = DayRow(fs, Flow[f].seen)
      OBVIOUS
    <3>2. x.day = Flow[f].seen
      BY <3>1 DEF DayRow
    <3> QED
      BY <3>1, <3>2
  <2> QED
    BY <2>1
<1>10. DayRow(fs, d) \in T <=> OnDay(fs, d) # {}
  BY DEF DayRow, OnDay
<1>11. SumOver(Weights(B, d), T) = Cardinality(OnDay(fs, d))
  <2>1. CASE OnDay(fs, d) = {}
    <3>1. T = {}
      BY <1>9, <1>10, <2>1
    <3> QED
      BY <2>1, <3>1, SumOfNone, FS_EmptySet
  <2>2. CASE OnDay(fs, d) # {}
    <3> DEFINE r == DayRow(fs, d)
    <3>1. T = {r} /\ r \in R
      BY <1>9, <1>10, <2>2
    <3>2. r.day = d /\ r.flows = Cardinality(OnDay(fs, d)) /\ RowOK(r)
      BY <1>3 DEF DayRow
    <3> HIDE DEF r, R, T
    <3>3. B[r] = 1 /\ r \in DOMAIN B
      BY <1>5, <3>1
    <3>4. Weights(B, d)[r] = r.flows /\ r.flows \in Nat
      BY <3>2, <3>3 DEF Weights, FlowsOf, RowOK
    <3>5. SumOver(Weights(B, d), {r}) = Weights(B, d)[r] + SumOver(Weights(B, d), {r} \ {r})
      <4> DEFINE w == Weights(B, d)
                 S == {r}
      <4>1. w[r] \in Int
        BY <3>4
      <4>2. IsFiniteSet(S) /\ r \in S
        BY FS_Singleton
      <4>3. \A e \in S : w[e] \in Int
        BY <4>1
      <4> HIDE DEF w, S
      <4>4. SumOver(w, S) = w[r] + SumOver(w, S \ {r})
        BY <4>2, <4>3, SumTakesOut
      <4> QED
        BY <4>4 DEF w, S
    <3>6. {r} \ {r} = {}
      OBVIOUS
    <3> QED
      BY <3>1, <3>2, <3>4, <3>5, <3>6, SumOfNone
  <2> QED
    BY <2>1, <2>2
<1> QED
  BY <1>5, <1>7, <1>8, <1>11 DEF Total, B, fs

(* Two rows of a day are replaced by one of their sums.                    *)
Merged(C, B, x, y, z) ==
  /\ x \in DOMAIN B /\ y \in DOMAIN B /\ SetToBag({x}) (+) SetToBag({y}) \sqsubseteq B
  /\ z.flows = x.flows + y.flows /\ z.blocked = x.blocked + y.blocked
  /\ x.day = y.day /\ z.day = x.day
  /\ C = (B (-) (SetToBag({x}) (+) SetToBag({y}))) (+) SetToBag({z})

LEMMA MergedAdds ==
  ASSUME NEW B, NEW C, NEW x, NEW y, NEW z, NEW d, StatsOK(B), Merged(C, B, x, y, z)
  PROVE  StatsOK(C) /\ Total(C, d) = Total(B, d)
<1> DEFINE X == SetToBag({x})
           Y == SetToBag({y})
           Z == SetToBag({z})
           XY == X (+) Y
           W == B (-) XY
<1>1. RowOK(x) /\ RowOK(y)
  BY DEF StatsOK, Merged
<1>2. RowOK(z)
  BY <1>1 DEF RowOK, Merged
<1>3. StatsOK(X) /\ StatsOK(Y) /\ StatsOK(Z)
  BY <1>1, <1>2, OneRow
<1>4. /\ Total(X, d) = FlowsOf(x, d) /\ Total(Y, d) = FlowsOf(y, d)
      /\ Total(Z, d) = FlowsOf(z, d)
      /\ FlowsOf(z, d) = FlowsOf(x, d) + FlowsOf(y, d)
  BY <1>1, <1>2, OneRow DEF FlowsOf, RowOK, Merged
<1>5. XY \sqsubseteq B /\ C = W (+) Z
  BY DEF Merged
<1> HIDE DEF X, Y, Z
<1>6. StatsOK(XY) /\ Total(XY, d) = Total(X, d) + Total(Y, d)
  BY <1>3, StatsJoined
<1> HIDE DEF XY
<1>7. StatsOK(W) /\ W (+) XY = B
  BY <1>5, <1>6, TakenOut
<1> HIDE DEF W
<1>8. Total(B, d) = Total(W, d) + Total(XY, d)
  BY <1>6, <1>7, StatsJoined
<1>9. StatsOK(W (+) Z) /\ Total(W (+) Z, d) = Total(W, d) + Total(Z, d)
  BY <1>3, <1>7, StatsJoined
<1>10. Total(W (+) Z, d) = Total(B, d)
  BY <1>4, <1>6, <1>8, <1>9
<1> QED
  BY <1>5, <1>9, <1>10

-----------------------------------------------------------------------------
(* Listings.                                                               *)
LEMMA ListingOfSet ==
  ASSUME NEW S, IsFiniteSet(S), NEW s \in SetToSeqs(S)
  PROVE  /\ Cardinality(S) \in Nat
         /\ s \in [1..Cardinality(S) -> S] /\ s \in Seq(S) /\ Len(s) = Cardinality(S)
         /\ \A i, j \in 1..Cardinality(S) : i # j => s[i] # s[j]
         /\ \A x \in S : \E i \in 1..Cardinality(S) : s[i] = x
<1> DEFINE n == Cardinality(S)
<1>1. n \in Nat
  BY FS_CardinalityType
<1>2. s \in [1..n -> S] /\ \A i, j \in 1..n : i # j => s[i] # s[j]
  BY DEF SetToSeqs
<1>3. IsFiniteSet(1..n) /\ Cardinality(1..n) = n
  BY <1>1, FirstNaturals
<1>4. s \in Injection(1..n, S)
  BY <1>2 DEF Injection, IsInjective
<1> HIDE DEF n
<1>5. s \in Surjection(1..n, S)
  BY <1>3, <1>4, FS_Injection DEF n
<1>6. \A x \in S : \E i \in 1..n : s[i] = x
  BY <1>5 DEF Surjection
<1>7. s \in Seq(S) /\ Len(s) = n
  <2>1. s \in Seq(S)
    BY <1>1, <1>2, SeqDef
  <2>2. Len(s) \in Nat /\ DOMAIN s = 1..Len(s) /\ DOMAIN s = 1..n
    BY <1>2, <2>1, LenProperties
  <2>3. Len(s) = n
    <3> DEFINE l == Len(s)
    <3>1. n \in Nat /\ l \in Nat /\ 1..l = 1..n
      BY <1>1, <2>2
    <3> HIDE DEF l
    <3>2. ~(n + 1 \in 1..n) /\ ~(l + 1 \in 1..l)
      BY <3>1
    <3>3. ~(n + 1 \in 1..l) /\ ~(l + 1 \in 1..n)
      BY <3>1, <3>2
    <3>4. l = n
      BY <3>1, <3>3
    <3> QED
      BY <3>4 DEF l
  <2> QED
    BY <2>1, <2>3
<1> QED
  BY <1>1, <1>2, <1>6, <1>7 DEF n

LEMMA FlowTimes ==
  /\ IsFiniteSet(FlowIds) /\ IsFiniteSet(ThreatIds) /\ FlowIds \cap ThreatIds = {}
  /\ \A r \in FlowIds \cup ThreatIds : TimeOf(r) \in Nat
  /\ \A f \in FlowIds : Flow[f].seen \in Nat /\ TimeOf(f) = Flow[f].seen
  /\ FlowTtl \in Nat /\ ThreatTtl \in Nat /\ MaxRange \in Nat /\ DaysBack \in Nat /\ LastDay \in Nat
BY ForensicsAssumption DEF TimeOf, FlowIds, ThreatIds

(* A flow alone in its time stands after those seen later, and no other.   *)
LEMMA StandsAfterNewer ==
  ASSUME NEW fs \in SUBSET FlowIds, NEW s \in Listings(fs), NEW p \in 1..Len(s), AloneInTime(s[p])
  PROVE  Cardinality({g \in fs : Flow[g].seen > Flow[s[p]].seen}) = p - 1
<1> DEFINE N == Cardinality(fs)
           before == {g \in fs : Flow[g].seen > Flow[s[p]].seen}
           b == [i \in 1..(p - 1) |-> s[i]]
<1>1. IsFiniteSet(fs)
  BY FlowTimes, FS_Subset
<1>2. s \in SetToSeqs(fs) /\ \A i, j \in DOMAIN s : i < j => Listed(s[i], s[j])
  BY DEF Listings
<1>3. /\ N \in Nat /\ s \in [1..N -> fs] /\ Len(s) = N
      /\ \A i, j \in 1..N : i # j => s[i] # s[j]
      /\ \A x \in fs : \E i \in 1..N : s[i] = x
  BY <1>1, <1>2, ListingOfSet
<1>4. \A i, j \in 1..N : i < j => Flow[s[i]].seen >= Flow[s[j]].seen
  BY <1>2, <1>3 DEF Listed
<1>5. \A i \in 1..N : s[i] \in FlowIds /\ Flow[s[i]].seen \in Nat
  BY <1>3, FlowTimes
<1> HIDE DEF N
<1>6. \A i \in 1..N : i # p => Flow[s[i]].seen # Flow[s[p]].seen
  BY <1>3, <1>5 DEF AloneInTime
<1>7. \A i \in 1..N : Flow[s[i]].seen > Flow[s[p]].seen <=> i < p
  <2>1. ASSUME NEW i \in 1..N PROVE Flow[s[i]].seen > Flow[s[p]].seen <=> i < p
    <3>1. p \in 1..N /\ Flow[s[i]].seen \in Nat /\ Flow[s[p]].seen \in Nat
      BY <1>3, <1>5
    <3>2. CASE i < p
      BY <1>4, <1>6, <3>1, <3>2
    <3>3. CASE p < i
      BY <1>4, <3>1, <3>3
    <3>4. CASE i = p
      BY <3>1, <3>4
    <3> QED
      BY <1>3, <3>1, <3>2, <3>3, <3>4
  <2> QED
    BY <2>1
<1>8. \A i \in 1..(p - 1) : i \in 1..N /\ i < p
  BY <1>3
<1>9. b \in Bijection(1..(p - 1), before)
  <2>1. b \in [1..(p - 1) -> before]
    BY <1>3, <1>7, <1>8
  <2>2. \A i, j \in 1..(p - 1) : b[i] = b[j] => i = j
    BY <1>3, <1>8
  <2>3. \A g \in before : \E i \in 1..(p - 1) : b[i] = g
    <3>1. ASSUME NEW g \in before PROVE \E i \in 1..(p - 1) : b[i] = g
      <4>1. PICK i \in 1..N : s[i] = g
        BY <1>3
      <4>2. i < p
        BY <1>7, <4>1
      <4>3. i \in 1..(p - 1)
        BY <1>3, <4>2
      <4> QED
        BY <4>1, <4>3
    <3> QED
      BY <3>1
  <2> HIDE DEF b, before
  <2> QED
    BY <2>1, <2>2, <2>3 DEF Bijection, Injection, Surjection, IsInjective
<1>10. p - 1 \in Nat
  BY <1>3
<1> HIDE DEF b, before
<1>11. IsFiniteSet(1..(p - 1)) /\ Cardinality(1..(p - 1)) = p - 1
  BY <1>10, FirstNaturals
<1>12. ExistsBijection(1..(p - 1), before)
  BY <1>9 DEF ExistsBijection
<1>13. Cardinality(before) = p - 1
  BY <1>11, <1>12, FS_Bijection
<1> QED
  BY <1>13 DEF before

(* What a page holds.                                                      *)
LEMMA PageHolds ==
  ASSUME NEW S, NEW s \in Seq(S), NEW offset \in Nat, NEW limit \in Nat \ {0}
  PROVE  LET page == PageOf(s, offset, limit)
         IN  /\ \A p \in 1..Len(s) : offset < p /\ p <= offset + limit => s[p] \in Range(page)
             /\ Len(page) < limit => Len(s) < offset + limit
             /\ Range(page) \subseteq S
<1> DEFINE l == Len(s)
           e == IF offset + limit > l THEN l ELSE offset + limit
           page == SubSeq(s, offset + 1, e)
<1>0. PageOf(s, offset, limit) = page
  BY DEF PageOf
<1>1. l \in Nat /\ \A i \in 1..l : s[i] \in S
  BY LenProperties, ElementOfSeq
<1>2. e \in Nat /\ e <= l /\ e <= offset + limit /\ (e < offset + limit => e = l)
  BY <1>1
<1> HIDE DEF l, e
<1>3. \A i \in (offset + 1)..e : s[i] \in S
  BY <1>1, <1>2
<1>4. offset + 1 \in Int /\ e \in Int
  BY <1>2
<1>5. /\ page \in Seq(S)
      /\ Len(page) = IF offset + 1 <= e THEN e - (offset + 1) + 1 ELSE 0
      /\ \A i \in 1..(e - (offset + 1) + 1) : page[i] = s[(offset + 1) + i - 1]
  BY <1>3, <1>4, SubSeqProperties
<1> HIDE DEF page
<1>6. ASSUME NEW p \in 1..l, offset < p, p <= offset + limit PROVE s[p] \in Range(page)
  <2> DEFINE i == p - offset
  <2>1. p <= e
    BY <1>1, <1>2, <1>6
  <2>2. i \in 1..(e - (offset + 1) + 1) /\ (offset + 1) + i - 1 = p /\ e - (offset + 1) + 1 = Len(page)
    BY <1>1, <1>2, <1>5, <1>6, <2>1
  <2> HIDE DEF i
  <2>3. page[i] = s[p]
    BY <1>5, <2>2
  <2>4. i \in DOMAIN page
    <3>1. DOMAIN page = 1..Len(page)
      BY <1>5, LenProperties
    <3> QED
      BY <2>2, <3>1
  <2> QED
    BY <2>3, <2>4 DEF Range
<1>7. ASSUME Len(page) < limit PROVE l < offset + limit
  <2>1. CASE offset + 1 <= e
    BY <1>1, <1>2, <1>5, <1>7, <2>1
  <2>2. CASE ~(offset + 1 <= e)
    BY <1>1, <1>2, <2>2
  <2> QED
    BY <2>1, <2>2
<1>8. Range(page) \subseteq S
  <2>1. DOMAIN page = 1..Len(page) /\ \A i \in 1..Len(page) : page[i] \in S
    BY <1>5, LenProperties, ElementOfSeq
  <2> QED
    BY <2>1 DEF Range
<1> QED
  BY <1>0, <1>6, <1>7, <1>8 DEF l

-----------------------------------------------------------------------------
(* Reading page after page: a flow that was listed and is not yet read has *)
(* at least as many newer ones before it as were skipped.                  *)
DueOn(f, day) == day - TimeOf(f) >= FlowTtl

Passes(q, g) ==
  /\ IsOr(q.src, Flow[g].src) /\ IsOr(q.decision, Flow[g].decision) /\ Flow[g].risk >= q.minRisk
NotAfter(q, g) == q.end = {} \/ Flow[g].seen <= Max(q.end)
NewerIn(held, q, f) ==
  {g \in held \cap FlowIds : Passes(q, g) /\ NotAfter(q, g) /\ Flow[g].seen > Flow[f].seen}

PageJob(j) ==
  /\ j = [kind |-> j.kind, q |-> j.q, offset |-> j.offset, got |-> j.got, base |-> j.base,
          fresh |-> j.fresh, done |-> j.done, code |-> j.code]
  /\ j.q \in PageQueries /\ j.offset \in Nat /\ j.base \subseteq FlowIds
  /\ j.fresh \in BOOLEAN /\ j.done \in BOOLEAN /\ (j.fresh => j.offset = 0)

Reaches(j, held, day) ==
  \A f \in j.base : AloneInTime(f) =>
    f \in j.got \/ DueOn(f, day) \/ Cardinality(NewerIn(held, j.q, f)) >= j.offset

ReadAll(j) == {f \in j.base : AloneInTime(f)} \subseteq j.got

PagesOK(j, held, day) ==
  /\ PageJob(j)
  /\ ~j.done => Reaches(j, held, day)
  /\ j.done /\ j.code = 200 => ReadAll(j)

LEMMA NewerFinite ==
  ASSUME NEW held, NEW q, NEW f
  PROVE  IsFiniteSet(NewerIn(held, q, f)) /\ Cardinality(NewerIn(held, q, f)) \in Nat
<1>1. NewerIn(held, q, f) \in SUBSET FlowIds
  BY DEF NewerIn
<1> QED
  BY <1>1, FlowTimes, FS_Subset, FS_CardinalityType

(* What falls due before a flow in the listing makes that one due too.     *)
LEMMA PagesKept ==
  ASSUME NEW j, NEW held, NEW rows2, NEW day \in Nat, NEW day2 \in Nat, PagesOK(j, held, day),
         day <= day2, \A r \in (held \cap FlowIds) \ rows2 : DueOn(r, day2)
  PROVE  PagesOK(j, rows2, day2)
<1>1. SUFFICES ASSUME ~j.done PROVE Reaches(j, rows2, day2)
  BY DEF PagesOK
<1>2. SUFFICES ASSUME NEW f \in j.base, AloneInTime(f), f \notin j.got, ~DueOn(f, day2)
               PROVE  Cardinality(NewerIn(rows2, j.q, f)) >= j.offset
  BY DEF Reaches
<1>3. f \in FlowIds /\ j.offset \in Nat
  BY <1>2 DEF PagesOK, PageJob
<1>4. TimeOf(f) \in Nat /\ TimeOf(f) = Flow[f].seen /\ FlowTtl \in Nat
  BY <1>3, FlowTimes
<1>5. ~DueOn(f, day)
  BY <1>2, <1>4 DEF DueOn
<1>6. Cardinality(NewerIn(held, j.q, f)) >= j.offset
  BY <1>1, <1>2, <1>5 DEF PagesOK, Reaches
<1>7. NewerIn(held, j.q, f) \subseteq NewerIn(rows2, j.q, f)
  <2>1. ASSUME NEW g \in NewerIn(held, j.q, f) PROVE g \in rows2
    <3>1. g \in held \cap FlowIds /\ Flow[g].seen > Flow[f].seen
      BY DEF NewerIn
    <3>2. TimeOf(g) \in Nat /\ TimeOf(g) > TimeOf(f)
      BY <1>4, <3>1, FlowTimes
    <3>3. ~DueOn(g, day2)
      BY <1>2, <1>4, <3>2 DEF DueOn
    <3> QED
      BY <3>1, <3>3
  <2> QED
    BY <2>1 DEF NewerIn
<1>8. Cardinality(NewerIn(held, j.q, f)) <= Cardinality(NewerIn(rows2, j.q, f))
  BY <1>7, NewerFinite, FS_Subset
<1> DEFINE a == Cardinality(NewerIn(held, j.q, f))
           b == Cardinality(NewerIn(rows2, j.q, f))
<1>9. a \in Nat /\ b \in Nat /\ a >= j.offset /\ a <= b
  BY <1>6, <1>8, NewerFinite
<1> HIDE DEF a, b
<1>10. b >= j.offset
  BY <1>3, <1>9
<1> QED
  BY <1>10 DEF b

LEMMA OnlyMax ==
  ASSUME NEW S \in SUBSET Nat, \A m, n \in S : m = n, S # {}
  PROVE  Max(S) \in S /\ Max(S) \in Nat
<1>1. PICK n \in S : TRUE
  OBVIOUS
<1>2. \A m \in S : n >= m
  <2>1. n >= n /\ n \in Nat
    OBVIOUS
  <2> QED
    BY <2>1
<1>3. \E x \in S : \A y \in S : x >= y
  BY <1>2
<1> QED
  BY <1>3 DEF Max

(* The window of a listing ends with the end that was asked for.           *)
LEMMA RangeOf ==
  ASSUME NEW q \in PageQueries, today \in Nat, NEW range \in TimeRange(q)
  PROVE  /\ TimeRange(q) = {range} /\ range.start \in Nat /\ range.end \in Nat
         /\ range.end = IF q.end = {} THEN today ELSE Max(q.end)
<1> DEFINE end == IF q.end = {} THEN today ELSE Max(q.end)
           start == IF q.start # {} THEN Max(q.start) ELSE IF q.back > end THEN 0 ELSE end - q.back
           r == [start |-> start, end |-> end]
<1>1. TimeRange(q) = {r} /\ range = r
  BY DEF TimeRange
<1>2. PageQueryOK(q)
  BY ForensicsAssumption
<1>3. end \in Nat
  BY <1>2, OnlyMax DEF PageQueryOK
<1>4. start \in Nat
  <2> HIDE DEF end
  <2>1. q.back \in Nat /\ (q.start # {} => Max(q.start) \in Nat)
    BY <1>2, OnlyMax DEF PageQueryOK
  <2>2. CASE q.start # {}
    BY <2>1, <2>2
  <2>3. CASE q.start = {} /\ q.back > end
    BY <2>3
  <2>4. CASE q.start = {} /\ ~(q.back > end)
    BY <1>3, <2>1, <2>4
  <2> QED
    BY <2>2, <2>3, <2>4
<1>5. r.start = start /\ r.end = end
  OBVIOUS
<1> HIDE DEF r, start
<1> QED
  BY <1>1, <1>3, <1>4, <1>5

(* Of the flows listed, those seen later than one of them are the newer.   *)
LEMMA NewerListed ==
  ASSUME NEW q \in PageQueries, today \in Nat, NEW range \in TimeRange(q),
         \A r \in storedRows \cap FlowIds : TimeOf(r) <= today,
         NEW f \in FlowsIn(q, range)
  PROVE  {g \in FlowsIn(q, range) : Flow[g].seen > Flow[f].seen} = NewerIn(storedRows, q, f)
<1>1. /\ range.start \in Nat /\ range.end \in Nat
      /\ range.end = IF q.end = {} THEN today ELSE Max(q.end)
  BY RangeOf
<1>2. f \in FlowIds /\ range.start <= Flow[f].seen
  BY DEF FlowsIn, Within
<1>3. ASSUME NEW g \in storedRows \cap FlowIds, Flow[g].seen > Flow[f].seen
      PROVE  Within(Flow[g].seen, range) <=> NotAfter(q, g)
  <2>1. Flow[g].seen \in Nat /\ Flow[f].seen \in Nat /\ Flow[g].seen <= today
    BY <1>2, FlowTimes
  <2>2. range.start <= Flow[g].seen
    BY <1>1, <1>2, <1>3, <2>1
  <2> QED
    BY <1>1, <2>1, <2>2 DEF Within, NotAfter
<1> QED
  BY <1>3 DEF FlowsIn, NewerIn, Passes

(* A request that ends, with a code, with its matches or its verdict.      *)
Refused(j, k, c) == k = [j EXCEPT !.done = TRUE, !.code = c]
Matched(j, k, m) == k = [j EXCEPT !.done = TRUE, !.matches = m]
Judged(j, k, v) == k = [j EXCEPT !.done = TRUE, !.verdict = v]

(* One page.                                                               *)
PageTaken(j, k, fs, page) ==
  k = [kind |-> j.kind, q |-> j.q, offset |-> j.offset + j.q.limit, got |-> j.got \cup Range(page),
       base |-> {f \in (IF j.fresh THEN fs ELSE j.base \cap fs) : ~Due(f)},
       fresh |-> FALSE, done |-> Len(page) < j.q.limit, code |-> j.code]

LEMMA PageReads ==
  ASSUME NEW j, PagesOK(j, storedRows, today), ~j.done, today \in Nat,
         \A r \in storedRows \cap FlowIds : TimeOf(r) <= today,
         NEW range \in TimeRange(j.q), NEW s \in Listings(FlowsIn(j.q, range)),
         NEW k, PageTaken(j, k, FlowsIn(j.q, range), PageOf(s, j.offset, j.q.limit))
  PROVE  PagesOK(k, storedRows, today)
<1> DEFINE fs == FlowsIn(j.q, range)
           page == PageOf(s, j.offset, j.q.limit)
           first == IF j.fresh THEN fs ELSE j.base \cap fs
<1>1. PageJob(j) /\ Reaches(j, storedRows, today)
  BY DEF PagesOK
<1>2. /\ k.kind = j.kind /\ k.q = j.q /\ k.offset = j.offset + j.q.limit
      /\ k.got = j.got \cup Range(page) /\ k.base = {f \in first : ~Due(f)}
      /\ k.fresh = FALSE /\ k.done = (Len(page) < j.q.limit) /\ k.code = j.code
      /\ k = [kind |-> k.kind, q |-> k.q, offset |-> k.offset, got |-> k.got, base |-> k.base,
              fresh |-> k.fresh, done |-> k.done, code |-> k.code]
  <2> DEFINE g2 == j.got \cup Range(page)
             b2 == {f \in first : ~Due(f)}
             o2 == j.offset + j.q.limit
             d2 == Len(page) < j.q.limit
  <2>3. k = [kind |-> j.kind, q |-> j.q, offset |-> o2, got |-> g2, base |-> b2,
             fresh |-> FALSE, done |-> d2, code |-> j.code]
    BY DEF PageTaken
  <2> HIDE DEF g2, b2, o2, d2
  <2>4. /\ k.kind = j.kind /\ k.q = j.q /\ k.offset = o2 /\ k.got = g2 /\ k.base = b2
        /\ k.fresh = FALSE /\ k.done = d2 /\ k.code = j.code
    BY <2>3
  <2>5. k = [kind |-> k.kind, q |-> k.q, offset |-> k.offset, got |-> k.got, base |-> k.base,
             fresh |-> k.fresh, done |-> k.done, code |-> k.code]
    BY <2>3, <2>4
  <2> QED
    BY <2>4, <2>5 DEF g2, b2, o2, d2
<1>3. fs \in SUBSET FlowIds
  BY DEF FlowsIn
<1>4. j.q \in PageQueries /\ j.offset \in Nat /\ j.q.limit \in Nat \ {0}
  BY <1>1, ForensicsAssumption DEF PageJob, PageQueryOK
<1> DEFINE o == j.offset
           m == j.q.limit
<1>5. s \in Seq(fs) /\ \A f \in fs : \E p \in 1..Len(s) : s[p] = f
  <2>1. IsFiniteSet(fs) /\ s \in SetToSeqs(fs)
    BY <1>3, FlowTimes, FS_Subset DEF Listings
  <2> HIDE DEF fs
  <2> QED
    BY <2>1, ListingOfSet
<1>6. Len(s) \in Nat
  BY <1>5, LenProperties
<1>7. /\ \A p \in 1..Len(s) : o < p /\ p <= o + m => s[p] \in Range(page)
      /\ Len(page) < m => Len(s) < o + m
  <2> HIDE DEF fs
  <2>1. s \in Seq(fs) /\ o \in Nat /\ m \in Nat \ {0}
    BY <1>4, <1>5
  <2> HIDE DEF o, m
  <2>2. LET w == PageOf(s, o, m)
        IN  /\ \A p \in 1..Len(s) : o < p /\ p <= o + m => s[p] \in Range(w)
            /\ Len(w) < m => Len(s) < o + m
            /\ Range(w) \subseteq fs
    BY <2>1, PageHolds
  <2> QED
    BY <2>2 DEF o, m
<1>8. ASSUME NEW f \in k.base, AloneInTime(f), f \notin k.got
      PROVE  ~k.done /\ Cardinality(NewerIn(storedRows, k.q, f)) >= k.offset
  <2>1. f \in fs /\ f \in FlowIds /\ f \notin j.got /\ f \notin Range(page) /\ ~Due(f)
    BY <1>2, <1>3, <1>8
  <2>2. Cardinality(NewerIn(storedRows, j.q, f)) >= o
    <3>1. CASE j.fresh
      <4>1. o = 0
        BY <1>1, <3>1 DEF PageJob
      <4>2. Cardinality(NewerIn(storedRows, j.q, f)) \in Nat
        BY NewerFinite
      <4> QED
        BY <4>1, <4>2
    <3>2. CASE ~j.fresh
      <4>1. f \in j.base /\ ~DueOn(f, today)
        BY <1>2, <1>8, <2>1, <3>2 DEF Due, DueOn
      <4> QED
        BY <1>1, <1>8, <2>1, <4>1 DEF Reaches
    <3> QED
      BY <3>1, <3>2
  <2>3. PICK p \in 1..Len(s) : s[p] = f
    BY <1>5, <2>1
  <2>4. Cardinality({g \in fs : Flow[g].seen > Flow[f].seen}) = p - 1
    <3> HIDE DEF fs
    <3>1. s \in Listings(fs) /\ AloneInTime(s[p])
      BY <1>8, <2>3 DEF fs
    <3> QED
      BY <1>3, <2>3, <3>1, StandsAfterNewer
  <2>5. {g \in fs : Flow[g].seen > Flow[f].seen} = NewerIn(storedRows, j.q, f)
    <3> DEFINE q == j.q
    <3>1. q \in PageQueries /\ range \in TimeRange(q) /\ f \in FlowsIn(q, range)
      BY <1>4, <2>1
    <3> HIDE DEF q
    <3>2. {g \in FlowsIn(q, range) : Flow[g].seen > Flow[f].seen} = NewerIn(storedRows, q, f)
      BY <3>1, NewerListed
    <3> QED
      BY <3>2 DEF q
  <2>6. p - 1 >= o /\ p \in Nat
    <3> HIDE DEF fs, o
    <3>1. Cardinality(NewerIn(storedRows, j.q, f)) = p - 1
      BY <2>4, <2>5
    <3> QED
      BY <1>6, <2>2, <3>1
  <2>7. ~(p <= o + m)
    <3> HIDE DEF page, fs, o, m
    <3>1. o \in Nat
      BY <1>4 DEF o
    <3> QED
      BY <1>7, <2>1, <2>3, <2>6, <3>1
  <2> HIDE DEF o, m
  <2>8. p - 1 >= o + m /\ ~(Len(s) < o + m)
    <3>1. o \in Nat /\ m \in Nat
      BY <1>4 DEF o, m
    <3> QED
      BY <1>6, <2>6, <2>7, <3>1
  <2> HIDE DEF page, fs, first
  <2> QED
    BY <1>2, <1>7, <2>4, <2>5, <2>8 DEF o, m
<1>9. k.base \in SUBSET FlowIds /\ k.offset \in Nat
  BY <1>2, <1>3, <1>4
<1>90. k.fresh \in BOOLEAN /\ k.done \in BOOLEAN /\ ~k.fresh /\ k.q \in PageQueries
  <2>1. (Len(page) < j.q.limit) \in BOOLEAN
    OBVIOUS
  <2> HIDE DEF page, fs, first
  <2> QED
    BY <1>2, <1>4, <2>1
<1> HIDE DEF page, fs, first
<1>10. PageJob(k)
  BY <1>2, <1>9, <1>90 DEF PageJob
<1>11. ~k.done => Reaches(k, storedRows, today)
  BY <1>8 DEF Reaches
<1>12. k.done => ReadAll(k)
  BY <1>8 DEF ReadAll
<1> QED
  BY <1>10, <1>11, <1>12 DEF PagesOK

-----------------------------------------------------------------------------
(* Hunting: what a search found covers the rows that were there when the   *)
(* hunt began and still are, and was written for the address.              *)
SourceOf(r) == IF r \in FlowIds THEN Flow[r].src ELSE Threat[r].src
OfAddress(held, a) == {r \in held : SourceOf(r) = a}

FoundOK(j, held, wr, table, i, found) ==
  /\ OfAddress(j.base \cap held \cap table, j.ips[i]) \subseteq found
  /\ found \subseteq OfAddress(wr \cap table, j.ips[i])

HuntForm(j) ==
  j = [kind |-> j.kind, ips |-> j.ips, nets |-> j.nets, since |-> j.since, base |-> j.base,
       flows |-> j.flows, threats |-> j.threats, failed |-> j.failed, done |-> j.done,
       code |-> j.code, matches |-> j.matches, verdict |-> j.verdict]

HuntStart(j, wr) ==
  /\ IsFiniteSet(DOMAIN j.ips) /\ (j.kind = "ip" => 1 \in DOMAIN j.ips)
  /\ j.base \subseteq wr /\ \A r \in j.base : TimeOf(r) >= j.since

HuntFound(j, held, wr) ==
  /\ DOMAIN j.flows \subseteq DOMAIN j.ips /\ DOMAIN j.threats \subseteq DOMAIN j.ips
  /\ \A i \in DOMAIN j.flows : FoundOK(j, held, wr, FlowIds, i, j.flows[i])
  /\ \A i \in DOMAIN j.threats : FoundOK(j, held, wr, ThreatIds, i, j.threats[i])

NamesAll(j, held) ==
  \A i \in DOMAIN j.ips \ j.failed :
    (\E r \in j.base \cap held \cap FlowIds : Flow[r].src = j.ips[i])
      => \E n \in DOMAIN j.matches : j.matches[n].ioc = j.ips[i]
CountsWritten(j, wr) ==
  \A n \in DOMAIN j.matches :
    /\ j.matches[n].flows <= Cardinality({f \in wr \cap FlowIds : Flow[f].src = j.matches[n].ioc})
    /\ j.matches[n].threats <= Cardinality({t \in wr \cap ThreatIds : Threat[t].src = j.matches[n].ioc})
    /\ j.matches[n].flows \in Nat /\ j.matches[n].threats \in Nat
CleanHasNone(j, held) == ~\E t \in j.base \cap held \cap ThreatIds : Threat[t].src = j.ips[1]

HuntAnswered(j, held, wr) ==
  /\ j.kind = "hunt" /\ j.code = 200 => NamesAll(j, held) /\ CountsWritten(j, wr)
  /\ j.kind = "ip" /\ j.verdict = "CLEAN" => CleanHasNone(j, held)

HuntOK(j, held, wr) ==
  /\ HuntForm(j) /\ j.done \in BOOLEAN
  /\ HuntStart(j, wr) /\ HuntFound(j, held, wr)
  /\ IF j.done THEN HuntAnswered(j, held, wr) ELSE j.verdict = "none"

LEMMA OfAddressFinite ==
  ASSUME NEW table \in {FlowIds, ThreatIds}, NEW wr, NEW a
  PROVE  /\ IsFiniteSet(OfAddress(wr \cap table, a))
         /\ Cardinality(OfAddress(wr \cap table, a)) \in Nat
<1>1. OfAddress(wr \cap table, a) \in SUBSET table
  BY DEF OfAddress
<1>2. IsFiniteSet(table)
  BY FlowTimes
<1> QED
  BY <1>1, <1>2, FS_Subset, FS_CardinalityType

LEMMA AddressesAre ==
  ASSUME NEW wr, NEW a
  PROVE  /\ {f \in wr \cap FlowIds : Flow[f].src = a} = OfAddress(wr \cap FlowIds, a)
         /\ {t \in wr \cap ThreatIds : Threat[t].src = a} = OfAddress(wr \cap ThreatIds, a)
BY FlowTimes DEF OfAddress, SourceOf

(* Rows never return, and those once written stay written.                 *)
LEMMA HuntKept ==
  ASSUME NEW j, NEW held, NEW rows2, NEW wr, NEW wr2, HuntOK(j, held, wr),
         wr \subseteq wr2, \A r \in wr : r \in rows2 => r \in held
  PROVE  HuntOK(j, rows2, wr2)
<1>1. HuntForm(j) /\ j.done \in BOOLEAN /\ HuntStart(j, wr) /\ HuntFound(j, held, wr)
  BY DEF HuntOK
<1>2. j.base \subseteq wr /\ j.base \cap rows2 \subseteq j.base \cap held
  BY <1>1 DEF HuntStart
<1>3. HuntStart(j, wr2)
  BY <1>1 DEF HuntStart
<1>4. HuntFound(j, rows2, wr2)
  <2>1. ASSUME NEW table, NEW i, NEW found, FoundOK(j, held, wr, table, i, found)
        PROVE  FoundOK(j, rows2, wr2, table, i, found)
    BY <1>2, <2>1 DEF FoundOK, OfAddress
  <2> QED
    BY <1>1, <2>1 DEF HuntFound
<1>5. ASSUME j.done PROVE HuntAnswered(j, rows2, wr2)
  <2>1. HuntAnswered(j, held, wr)
    BY <1>5 DEF HuntOK
  <2>2. NamesAll(j, held) => NamesAll(j, rows2)
    BY <1>2 DEF NamesAll
  <2>3. CleanHasNone(j, held) => CleanHasNone(j, rows2)
    BY <1>2 DEF CleanHasNone
  <2>4. ASSUME CountsWritten(j, wr) PROVE CountsWritten(j, wr2)
    <3>1. ASSUME NEW n \in DOMAIN j.matches, NEW table \in {FlowIds, ThreatIds}, NEW a, NEW c \in Nat,
                 c <= Cardinality(OfAddress(wr \cap table, a))
          PROVE  c <= Cardinality(OfAddress(wr2 \cap table, a))
      <4> DEFINE S == OfAddress(wr \cap table, a)
                 T == OfAddress(wr2 \cap table, a)
      <4>1. S \in SUBSET T
        BY DEF OfAddress
      <4>2. IsFiniteSet(T) /\ Cardinality(T) \in Nat /\ Cardinality(S) \in Nat
        BY OfAddressFinite
      <4> HIDE DEF S, T
      <4>3. Cardinality(S) <= Cardinality(T) /\ c <= Cardinality(S)
        BY <3>1, <4>1, <4>2, FS_Subset DEF S
      <4>4. c <= Cardinality(T)
        BY <4>2, <4>3
      <4> QED
        BY <4>4 DEF T
    <3>2. ASSUME NEW n \in DOMAIN j.matches
          PROVE  /\ j.matches[n].flows <= Cardinality(OfAddress(wr2 \cap FlowIds, j.matches[n].ioc))
                 /\ j.matches[n].threats <= Cardinality(OfAddress(wr2 \cap ThreatIds, j.matches[n].ioc))
      <4>1. /\ j.matches[n].flows <= Cardinality(OfAddress(wr \cap FlowIds, j.matches[n].ioc))
            /\ j.matches[n].threats <= Cardinality(OfAddress(wr \cap ThreatIds, j.matches[n].ioc))
            /\ j.matches[n].flows \in Nat /\ j.matches[n].threats \in Nat
        BY <2>4, AddressesAre DEF CountsWritten
      <4> QED
        BY <3>1, <4>1
    <3> QED
      BY <2>4, <3>2, AddressesAre DEF CountsWritten
  <2> QED
    BY <2>1, <2>2, <2>3, <2>4 DEF HuntAnswered
<1>6. ~j.done => j.verdict = "none"
  BY DEF HuntOK
<1> QED
  BY <1>1, <1>3, <1>4, <1>5, <1>6 DEF HuntOK

(* What a search finds now.                                                *)
LEMMA FoundNow ==
  ASSUME HuntStart(job, written), storedRows \subseteq written,
         NEW table \in {FlowIds, ThreatIds}, NEW i \in DOMAIN job.ips
  PROVE  FoundOK(job, storedRows, written, table, i, FoundBy(i, table))
<1>1. FoundBy(i, table) = {r \in storedRows \cap table : TimeOf(r) >= job.since /\ SourceOf(r) = job.ips[i]}
  BY DEF FoundBy, SourceOf
<1>2. \A r \in job.base : TimeOf(r) >= job.since
  BY DEF HuntStart
<1> QED
  BY <1>1, <1>2 DEF FoundOK, OfAddress

(* What one search adds, or its failure.                                   *)
LEMMA SearchKeeps ==
  ASSUME NEW j, NEW k, NEW held, NEW wr, HuntOK(j, held, wr), ~j.done, HuntForm(k), k.kind = j.kind,
         k.ips = j.ips, k.since = j.since, k.base = j.base, k.done = j.done, k.verdict = j.verdict,
         HuntFound(k, held, wr)
  PROVE  HuntOK(k, held, wr)
<1>1. HuntStart(k, wr)
  BY DEF HuntOK, HuntStart
<1> QED
  BY <1>1 DEF HuntOK

Others(j, k) ==
  /\ k.kind = j.kind /\ k.ips = j.ips /\ k.nets = j.nets /\ k.since = j.since /\ k.base = j.base

LEMMA FlowsFound ==
  ASSUME NEW j, HuntForm(j), NEW f, NEW k, k = [j EXCEPT !.flows = f]
  PROVE  HuntForm(k) /\ Others(j, k) /\ k.flows = f /\ k.threats = j.threats /\ k.failed = j.failed /\ k.done = j.done /\ k.verdict = j.verdict
BY DEF HuntForm, Others

LEMMA ThreatsFound ==
  ASSUME NEW j, HuntForm(j), NEW f, NEW k, k = [j EXCEPT !.threats = f]
  PROVE  HuntForm(k) /\ Others(j, k) /\ k.flows = j.flows /\ k.threats = f /\ k.failed = j.failed /\ k.done = j.done /\ k.verdict = j.verdict
BY DEF HuntForm, Others

LEMMA FailureNoted ==
  ASSUME NEW j, HuntForm(j), NEW f, NEW k, k = [j EXCEPT !.failed = f]
  PROVE  HuntForm(k) /\ Others(j, k) /\ k.flows = j.flows /\ k.threats = j.threats /\ k.failed = f /\ k.done = j.done /\ k.verdict = j.verdict
BY DEF HuntForm, Others

Ended(j, k) ==
  /\ HuntForm(k) /\ Others(j, k)
  /\ k.flows = j.flows /\ k.threats = j.threats /\ k.failed = j.failed /\ k.done = TRUE

LEMMA AnswerRefused ==
  ASSUME NEW j, HuntForm(j), NEW c, NEW k, Refused(j, k, c)
  PROVE  Ended(j, k) /\ k.code = c /\ k.verdict = j.verdict
BY DEF Ended, HuntForm, Others, Refused

LEMMA MatchesSent ==
  ASSUME NEW j, HuntForm(j), NEW m, NEW k, Matched(j, k, m)
  PROVE  Ended(j, k) /\ k.matches = m
BY DEF Ended, HuntForm, Others, Matched

LEMMA VerdictSent ==
  ASSUME NEW j, HuntForm(j), NEW v, NEW k, Judged(j, k, v)
  PROVE  Ended(j, k) /\ k.verdict = v
BY DEF Ended, HuntForm, Others, Judged

-----------------------------------------------------------------------------
(* The inductive invariant of the forensics API.                           *)
RowsOK ==
  /\ today \in 0..LastDay
  /\ storedRows \subseteq written
  /\ written \subseteq {r \in FlowIds \cup ThreatIds : TimeOf(r) <= today}

JobOK ==
  /\ job.done \in BOOLEAN
  /\ job.kind = "pages" => PagesOK(job, storedRows, today)
  /\ job.kind \in {"hunt", "ip"} => HuntOK(job, storedRows, written)

(* The sums B of the days that have not fallen due, when fs are written.   *)
DaysAgree(B, fs, now) ==
  \A d \in Nat : now - d < StatsTtl => Total(B, d) = Cardinality(OnDay(fs, d))

StatsAgree == StatsOK(statRows) /\ DaysAgree(statRows, written \cap FlowIds, today)

LEMMA StatsKept ==
  ASSUME StatsAgree, UNCHANGED <<today, statRows, written>>
  PROVE  StatsAgree'
BY DEF StatsAgree, DaysAgree, OnDay, FlowsOf, StatsOK, Total, Weights, RowOK

ForensicsInv == RowsOK /\ JobOK /\ StatsAgree

LEMMA ForensicsStarts == ForensicsInit => ForensicsInv
<1> SUFFICES ASSUME ForensicsInit PROVE ForensicsInv
  OBVIOUS
<1>1. today = 0 /\ storedRows = {} /\ written = {} /\ job.kind = "none" /\ job.done = FALSE
  BY DEF ForensicsInit
<1>2. RowsOK
  BY <1>1, FlowTimes DEF RowsOK
<1>3. JobOK
  BY <1>1 DEF JobOK
<1>4. DOMAIN statRows = {} /\ statRows = [x \in DOMAIN statRows |-> statRows[x]]
  BY DEF ForensicsInit, EmptyBag, SetToBag
<1>5. StatsOK(statRows)
  BY <1>4, FS_EmptySet DEF StatsOK
<1>6. \A d : Total(statRows, d) = 0
  BY <1>4, SumOfNone DEF Total
<1>7. \A d : OnDay(written \cap FlowIds, d) = {}
  BY <1>1 DEF OnDay
<1>8. DaysAgree(statRows, written \cap FlowIds, today)
  BY <1>6, <1>7, FS_EmptySet DEF DaysAgree
<1> QED
  BY <1>2, <1>3, <1>5, <1>8 DEF ForensicsInv, StatsAgree

(* Time, rows and their expiry leave the request as it is.                 *)
LEMMA RequestKept ==
  ASSUME RowsOK, RowsOK', JobOK, job' = job, today <= today', written \subseteq written',
         \A r \in written : r \in storedRows' => r \in storedRows,
         \A r \in (storedRows \cap FlowIds) \ storedRows' : DueOn(r, today')
  PROVE  JobOK'
<1>1. today \in Nat /\ today' \in Nat
  BY FlowTimes DEF RowsOK
<1>2. job.kind = "pages" => PagesOK(job, storedRows', today')
  BY <1>1, PagesKept DEF JobOK
<1>3. job.kind \in {"hunt", "ip"} => HuntOK(job, storedRows', written')
  BY HuntKept DEF JobOK
<1> QED
  BY <1>2, <1>3 DEF JobOK

LEMMA DayPasses == ForensicsInv /\ NextDay => ForensicsInv'
<1> SUFFICES ASSUME ForensicsInv, NextDay PROVE ForensicsInv'
  OBVIOUS
<1>1. RowsOK /\ JobOK /\ StatsAgree
  BY DEF ForensicsInv
<1>2. /\ today \in 0..LastDay /\ today < LastDay /\ today' = today + 1
      /\ storedRows' = storedRows /\ written' = written /\ statRows' = statRows /\ job' = job
  BY <1>1 DEF NextDay, RowsOK
<1>3. LastDay \in Nat /\ \A r \in FlowIds \cup ThreatIds : TimeOf(r) \in Nat
  BY FlowTimes
<1>4. today <= today' /\ today' \in 0..LastDay
  BY <1>2, <1>3
<1>5. written \subseteq {r \in FlowIds \cup ThreatIds : TimeOf(r) <= today'}
  <2>1. ASSUME NEW r \in written PROVE r \in FlowIds \cup ThreatIds /\ TimeOf(r) <= today'
    <3>1. r \in FlowIds \cup ThreatIds /\ TimeOf(r) <= today
      BY <1>1 DEF RowsOK
    <3> QED
      BY <1>2, <1>3, <3>1
  <2> QED
    BY <2>1
<1>7. RowsOK'
  BY <1>1, <1>2, <1>4, <1>5 DEF RowsOK, TimeOf
<1>8. JobOK'
  BY <1>1, <1>2, <1>4, <1>7, RequestKept
<1>9. StatsAgree'
  <2> DEFINE B == statRows
             fs == written \cap FlowIds
             t == today
             u == today'
  <2>1. StatsOK(B) /\ DaysAgree(B, fs, t) /\ t \in Nat /\ u = t + 1
    BY <1>1, <1>2, <1>3 DEF StatsAgree
  <2>2. statRows' = B /\ written' \cap FlowIds = fs /\ today' = u
    BY <1>2
  <2> HIDE DEF B, fs, t, u
  <2>3. \A d \in Nat : u - d < StatsTtl => t - d < StatsTtl
    BY <2>1, ForensicsAssumption
  <2>4. DaysAgree(B, fs, u)
    BY <2>1, <2>3 DEF DaysAgree
  <2>5. StatsOK(statRows') /\ DaysAgree(statRows', written' \cap FlowIds, today')
    BY <2>1, <2>2, <2>4
  <2> QED
    BY <2>5 DEF StatsAgree
<1> QED
  BY <1>7, <1>8, <1>9 DEF ForensicsInv

LEMMA RowsArrive ==
  ASSUME ForensicsInv, NEW block \in SUBSET ((FlowIds \cup ThreatIds) \ written), InsertRows(block)
  PROVE  ForensicsInv'
<1>1. RowsOK /\ JobOK /\ StatsAgree
  BY DEF ForensicsInv
<1>2. /\ today' = today /\ storedRows' = storedRows \cup block /\ written' = written \cup block
      /\ statRows' = statRows (+) SumsOf(block) /\ job' = job
      /\ block \subseteq {r \in (FlowIds \cup ThreatIds) \ written : TimeOf(r) <= today}
  BY DEF InsertRows
<1>3. RowsOK'
  BY <1>1, <1>2 DEF RowsOK, TimeOf
<1>4. JobOK'
  <2>1. today <= today' /\ written \subseteq written'
    BY <1>1, <1>2, FlowTimes DEF RowsOK
  <2> QED
    BY <1>1, <1>2, <1>3, <2>1, RequestKept
<1>5. StatsAgree'
  <2> DEFINE W == written \cap FlowIds
             B == block \cap FlowIds
             S == SumsOf(block)
  <2>1. IsFiniteSet(W) /\ IsFiniteSet(B) /\ W \cap B = {}
    BY FlowTimes, FS_Subset
  <2>2. StatsOK(S) /\ \A d : Total(S, d) = Cardinality(OnDay(B, d))
    BY <2>1, BatchIsSummed
  <2>3. written' \cap FlowIds = W \cup B
    BY <1>2
  <2>4. StatsOK(statRows) /\ DaysAgree(statRows, W, today)
    BY <1>1 DEF StatsAgree
  <2>5. statRows' = statRows (+) S
    BY <1>2
  <2> HIDE DEF W, B, S
  <2> DEFINE T == statRows (+) S
             V == W \cup B
  <2>6. StatsOK(T) /\ \A d : Total(T, d) = Total(statRows, d) + Total(S, d)
    BY <2>2, <2>4, StatsJoined
  <2>7. \A d : Cardinality(OnDay(V, d)) = Cardinality(OnDay(W, d)) + Cardinality(OnDay(B, d))
    <3>1. ASSUME NEW d
          PROVE  Cardinality(OnDay(V, d)) = Cardinality(OnDay(W, d)) + Cardinality(OnDay(B, d))
      <4> DEFINE P == OnDay(W, d)
                 Q == OnDay(B, d)
      <4>1. OnDay(V, d) = P \cup Q /\ P \cap Q = {} /\ P \in SUBSET W /\ Q \in SUBSET B
        BY <2>1 DEF OnDay
      <4> HIDE DEF P, Q, V
      <4>2. IsFiniteSet(P) /\ IsFiniteSet(Q) /\ Cardinality(P) \in Nat /\ Cardinality(Q) \in Nat
        BY <2>1, <4>1, FS_Subset, FS_CardinalityType
      <4>3. Cardinality(P \cup Q) = Cardinality(P) + Cardinality(Q) - 0
        BY <4>1, <4>2, FS_Union, FS_EmptySet
      <4>4. Cardinality(OnDay(V, d)) = Cardinality(P) + Cardinality(Q)
        BY <4>1, <4>2, <4>3
      <4> QED
        BY <4>4 DEF P, Q
    <3> QED
      BY <3>1
  <2> HIDE DEF T, V
  <2>8. DaysAgree(T, V, today)
    BY <2>2, <2>4, <2>6, <2>7 DEF DaysAgree
  <2>9. StatsOK(statRows') /\ DaysAgree(statRows', written' \cap FlowIds, today')
    BY <1>2, <2>3, <2>5, <2>6, <2>8 DEF T, V
  <2> QED
    BY <2>9 DEF StatsAgree
<1> QED
  BY <1>3, <1>4, <1>5 DEF ForensicsInv

LEMMA RowsLeave ==
  ASSUME ForensicsInv, NEW gone \in SUBSET storedRows, ExpireRows(gone)
  PROVE  ForensicsInv'
<1>1. RowsOK /\ JobOK /\ StatsAgree
  BY DEF ForensicsInv
<1>2. /\ today' = today /\ storedRows' = storedRows \ gone /\ written' = written
      /\ statRows' = statRows /\ job' = job /\ gone \subseteq {r \in storedRows : Due(r)}
  BY DEF ExpireRows
<1>3. RowsOK'
  BY <1>1, <1>2 DEF RowsOK, TimeOf
<1>4. JobOK'
  <2>1. today <= today' /\ written \subseteq written'
    BY <1>1, <1>2, FlowTimes DEF RowsOK
  <2>2. \A r \in (storedRows \cap FlowIds) \ storedRows' : DueOn(r, today')
    BY <1>2 DEF Due, DueOn
  <2>3. \A r \in written : r \in storedRows' => r \in storedRows
    BY <1>2
  <2> QED
    BY <1>1, <1>2, <1>3, <2>1, <2>2, <2>3, RequestKept
<1>5. StatsAgree'
  BY <1>1, <1>2, StatsKept
<1> QED
  BY <1>3, <1>4, <1>5 DEF ForensicsInv

(* A row of sums that is due leaves the sums of the other days alone.      *)
LEMMA SumsLeave == ForensicsInv /\ ExpireStats => ForensicsInv'
<1> SUFFICES ASSUME ForensicsInv, ExpireStats PROVE ForensicsInv'
  OBVIOUS
<1>1. RowsOK /\ JobOK /\ StatsAgree
  BY DEF ForensicsInv
<1>2. today' = today /\ storedRows' = storedRows /\ written' = written /\ job' = job
  BY DEF ExpireStats
<1>3. PICK x \in BagToSet(statRows) :
        today - x.day >= StatsTtl /\ statRows' = statRows (-) SetToBag({x})
  BY DEF ExpireStats
<1> DEFINE B == statRows
           X == SetToBag({x})
           W == B (-) X
           fs == written \cap FlowIds
<1>4. StatsOK(B) /\ DaysAgree(B, fs, today) /\ x \in DOMAIN B /\ statRows' = W
  BY <1>1, <1>3 DEF StatsAgree, BagToSet
<1>5. RowOK(x) /\ B[x] \in Nat /\ B[x] > 0
  BY <1>4 DEF StatsOK
<1>6. X \sqsubseteq B
  BY <1>4, <1>5 DEF SetToBag, \sqsubseteq
<1>7. StatsOK(X) /\ \A d : Total(X, d) = FlowsOf(x, d)
  BY <1>5, OneRow
<1> HIDE DEF B, X, fs
<1>8. StatsOK(W) /\ W (+) X = B
  BY <1>4, <1>6, <1>7, TakenOut
<1> HIDE DEF W
<1>9. \A d : Total(B, d) = Total(W, d) + FlowsOf(x, d)
  <2>1. \A d : Total(W (+) X, d) = Total(W, d) + Total(X, d)
    BY <1>7, <1>8, StatsJoined
  <2> QED
    BY <1>7, <1>8, <2>1
<1>10. \A d \in Nat : today - d < StatsTtl => FlowsOf(x, d) = 0
  <2>1. ASSUME NEW d \in Nat, today - d < StatsTtl PROVE x.day # d
    <3>1. today \in Nat /\ StatsTtl \in Nat
      BY <1>1, FlowTimes, ForensicsAssumption DEF RowsOK
    <3> QED
      BY <1>3, <2>1, <3>1
  <2> QED
    BY <2>1 DEF FlowsOf
<1>11. \A d : Total(W, d) \in Nat
  BY <1>8, TotalType
<1>12. DaysAgree(W, fs, today)
  <2>1. ASSUME NEW d \in Nat, today - d < StatsTtl PROVE Total(W, d) = Cardinality(OnDay(fs, d))
    <3>1. Total(B, d) = Total(W, d) + 0 /\ Total(W, d) \in Nat
      BY <1>9, <1>10, <1>11, <2>1
    <3>2. Total(B, d) = Cardinality(OnDay(fs, d))
      BY <1>4, <2>1 DEF DaysAgree
    <3> QED
      BY <3>1, <3>2
  <2> QED
    BY <2>1 DEF DaysAgree
<1>13. StatsOK(statRows') /\ DaysAgree(statRows', written' \cap FlowIds, today')
  BY <1>2, <1>4, <1>8, <1>12 DEF fs
<1>14. StatsAgree'
  BY <1>13 DEF StatsAgree
<1>15. RowsOK' /\ JobOK'
  BY <1>1, <1>2 DEF RowsOK, JobOK, TimeOf
<1> QED
  BY <1>14, <1>15 DEF ForensicsInv

LEMMA SumsMerge == ForensicsInv /\ MergeStats => ForensicsInv'
<1> SUFFICES ASSUME ForensicsInv, MergeStats PROVE ForensicsInv'
  OBVIOUS
<1>1. RowsOK /\ JobOK /\ StatsAgree
  BY DEF ForensicsInv
<1>2. today' = today /\ storedRows' = storedRows /\ written' = written /\ job' = job
  BY DEF MergeStats
<1>3. PICK x \in BagToSet(statRows), y \in BagToSet(statRows) :
        /\ x.day = y.day
        /\ SetToBag({x}) (+) SetToBag({y}) \sqsubseteq statRows
        /\ LET both == [day |-> x.day, flows |-> x.flows + y.flows, blocked |-> x.blocked + y.blocked]
           IN  statRows' = (statRows (-) (SetToBag({x}) (+) SetToBag({y}))) (+) SetToBag({both})
  BY DEF MergeStats
<1> DEFINE z == [day |-> x.day, flows |-> x.flows + y.flows, blocked |-> x.blocked + y.blocked]
<1>4. /\ SetToBag({x}) (+) SetToBag({y}) \sqsubseteq statRows
      /\ statRows' = (statRows (-) (SetToBag({x}) (+) SetToBag({y}))) (+) SetToBag({z})
  BY <1>3
<1>5. x \in DOMAIN statRows /\ y \in DOMAIN statRows
  BY <1>3 DEF BagToSet
<1>6. /\ z.flows = x.flows + y.flows /\ z.blocked = x.blocked + y.blocked
      /\ x.day = y.day /\ z.day = x.day
  BY <1>3
<1> HIDE DEF z
<1> DEFINE C == (statRows (-) (SetToBag({x}) (+) SetToBag({y}))) (+) SetToBag({z})
<1>7. StatsOK(C) /\ \A d : Total(C, d) = Total(statRows, d)
  <2> DEFINE B == statRows
  <2>1. StatsOK(B) /\ Merged(C, B, x, y, z)
    BY <1>1, <1>4, <1>5, <1>6 DEF StatsAgree, Merged
  <2> HIDE DEF B, C
  <2>2. ASSUME NEW d PROVE StatsOK(C) /\ Total(C, d) = Total(B, d)
    BY <2>1, MergedAdds
  <2> QED
    BY <2>2 DEF B
<1>71. statRows' = C
  BY <1>4
<1> HIDE DEF C
<1>72. StatsOK(C) /\ DaysAgree(C, written \cap FlowIds, today)
  BY <1>1, <1>7 DEF StatsAgree, DaysAgree
<1>73. StatsOK(statRows') /\ DaysAgree(statRows', written' \cap FlowIds, today')
  BY <1>2, <1>71, <1>72
<1>8. StatsAgree'
  BY <1>73 DEF StatsAgree
<1>9. RowsOK' /\ JobOK'
  BY <1>1, <1>2 DEF RowsOK, JobOK, TimeOf
<1> QED
  BY <1>8, <1>9 DEF ForensicsInv

(* A step of a request changes nothing else.                               *)
LEMMA RequestSteps ==
  ASSUME ForensicsInv, UNCHANGED <<today, storedRows, written, statRows>>, JobOK'
  PROVE  ForensicsInv'
<1>1. RowsOK'
  BY DEF ForensicsInv, RowsOK, TimeOf
<1>2. StatsAgree'
  BY StatsKept DEF ForensicsInv
<1> QED
  BY <1>1, <1>2 DEF ForensicsInv

-----------------------------------------------------------------------------
(* The steps of a request.                                                 *)
SameRows == UNCHANGED <<today, storedRows, written, statRows>>

LEMMA PagesBegin ==
  ASSUME ForensicsInv, NEW q \in PageQueries, StartPages(q)
  PROVE  ForensicsInv'
<1> DEFINE j == [kind |-> "pages", q |-> q, offset |-> 0, got |-> {}, base |-> {},
                 fresh |-> TRUE, done |-> FALSE, code |-> 200]
<1>1. job' = j /\ SameRows
  BY DEF StartPages, SameRows
<1>2. j.kind = "pages" /\ j.done = FALSE
  OBVIOUS
<1>3. PagesOK(j, storedRows, today)
  BY DEF PagesOK, PageJob, Reaches
<1> HIDE DEF j
<1>4. JobOK'
  BY <1>1, <1>2, <1>3 DEF JobOK, SameRows
<1> QED
  BY <1>1, <1>4, RequestSteps DEF SameRows

LEMMA PageRefused ==
  ASSUME NEW j, PageJob(j), NEW c, NEW k, Refused(j, k, c)
  PROVE  PageJob(k) /\ k.kind = j.kind /\ k.done = TRUE /\ k.code = c
BY DEF PageJob, Refused

LEMMA PageRead == ForensicsInv /\ ReadPage => ForensicsInv'
<1> SUFFICES ASSUME ForensicsInv, ReadPage PROVE ForensicsInv'
  OBVIOUS
<1>1. job.kind = "pages" /\ ~job.done /\ SameRows
  BY DEF ReadPage, SameRows
<1>2. PagesOK(job, storedRows, today) /\ PageJob(job)
  BY <1>1 DEF ForensicsInv, JobOK, PagesOK
<1>3. today \in Nat /\ \A r \in storedRows \cap FlowIds : TimeOf(r) <= today
  BY FlowTimes DEF ForensicsInv, RowsOK
<1>4. job'.kind = "pages" /\ job'.done \in BOOLEAN /\ PagesOK(job', storedRows, today)
  <2>1. CASE TimeRange(job.q) = {}
    <3>1. job' = [job EXCEPT !.done = TRUE, !.code = 400]
      BY <2>1 DEF ReadPage
    <3> DEFINE k == job'
               c == 400
    <3>2. Refused(job, k, c)
      BY <3>1 DEF Refused
    <3>20. c # 200
      OBVIOUS
    <3> HIDE DEF k, c
    <3>3. PageJob(k) /\ k.kind = job.kind /\ k.done = TRUE /\ k.code = c
      BY <1>2, <3>2, PageRefused
    <3>4. PagesOK(k, storedRows, today)
      BY <3>3, <3>20 DEF PagesOK
    <3>5. k.kind = "pages" /\ k.done \in BOOLEAN
      BY <1>1, <3>3
    <3> QED
      BY <3>4, <3>5 DEF k
  <2>2. CASE TimeRange(job.q) # {}
    <3> DEFINE range == CHOOSE r \in TimeRange(job.q) : TRUE
               fs == FlowsIn(job.q, range)
    <3>1. range \in TimeRange(job.q)
      BY <2>2
    <3> HIDE DEF range
    <3>2. PICK s \in Listings(fs) :
            LET page == PageOf(s, job.offset, job.q.limit)
                first == IF job.fresh THEN fs ELSE job.base \cap fs
            IN  job' = [job EXCEPT !.got = @ \cup Range(page),
                                   !.offset = @ + job.q.limit,
                                   !.base = {f \in first : ~Due(f)},
                                   !.fresh = FALSE,
                                   !.done = Len(page) < job.q.limit]
      BY <2>2 DEF ReadPage, range
    <3> DEFINE page == PageOf(s, job.offset, job.q.limit)
               g2 == job.got \cup Range(page)
               o2 == job.offset + job.q.limit
               b2 == {f \in (IF job.fresh THEN fs ELSE job.base \cap fs) : ~Due(f)}
               d2 == Len(page) < job.q.limit
    <3>3. job' = [job EXCEPT !.got = g2, !.offset = o2, !.base = b2, !.fresh = FALSE, !.done = d2]
      BY <3>2
    <3>4. d2 \in BOOLEAN
      OBVIOUS
    <3> HIDE DEF g2, o2, b2, d2
    <3>5. job = [kind |-> job.kind, q |-> job.q, offset |-> job.offset, got |-> job.got,
                 base |-> job.base, fresh |-> job.fresh, done |-> job.done, code |-> job.code]
      BY <1>2 DEF PageJob
    <3>6. job' = [kind |-> job.kind, q |-> job.q, offset |-> o2, got |-> g2,
                  base |-> b2, fresh |-> FALSE, done |-> d2, code |-> job.code]
      BY <3>3, <3>5
    <3>7. PageTaken(job, job', fs, page)
      BY <3>6 DEF PageTaken, g2, o2, b2, d2
    <3>8. PagesOK(job', storedRows, today)
      <4> HIDE DEF page, fs
      <4> DEFINE k == job'
      <4>1. PageTaken(job, k, fs, page)
        BY <3>7
      <4> HIDE DEF k
      <4>2. PagesOK(k, storedRows, today)
        BY <1>1, <1>2, <1>3, <3>1, <3>2, <4>1, PageReads DEF page, fs
      <4> QED
        BY <4>2 DEF k
    <3>9. job'.kind = "pages" /\ job'.done = d2
      BY <1>1, <3>6
    <3> QED
      BY <3>4, <3>8, <3>9
  <2> QED
    BY <2>1, <2>2
<1>5. JobOK'
  BY <1>1, <1>4 DEF JobOK, SameRows
<1> QED
  BY <1>1, <1>5, RequestSteps DEF SameRows

(* The reads that are one query.                                           *)
LEMMA AnsweredAtOnce ==
  ASSUME ForensicsInv, NEW kind \in {"threats", "talkers", "heatmap", "export"}, NEW found,
         Answer(kind, found)
  PROVE  ForensicsInv'
<1>1. job' = [kind |-> kind, rows |-> found, done |-> TRUE] /\ SameRows
  BY DEF Answer, SameRows
<1>2. job'.kind = kind /\ job'.done = TRUE
  BY <1>1
<1>3. JobOK'
  BY <1>2 DEF JobOK
<1> QED
  BY <1>1, <1>3, RequestSteps DEF SameRows

LEMMA HuntBegins ==
  ASSUME ForensicsInv, NEW kind \in {"hunt", "ip"}, NEW A, NEW iocs \in Seq(A), StartHunt(kind, iocs),
         kind = "ip" => \E h \in Hosts : iocs = <<h>>
  PROVE  ForensicsInv'
<1> DEFINE K == {n \in 1..Len(iocs) : iocs[n] \in Hosts}
           ips == AtPositions(iocs, K)
           nets == Cardinality({n \in 1..Len(iocs) : iocs[n] \in Nets})
           since == IF DaysBack > today THEN 0 ELSE today - DaysBack
           base == {r \in storedRows : TimeOf(r) >= since}
           none == ips = <<>> /\ nets = 0
           code == IF ips = <<>> /\ nets = 0 THEN 400 ELSE 200
<1>1. job' = [kind |-> kind, ips |-> ips, nets |-> nets, since |-> since, base |-> base,
              flows |-> <<>>, threats |-> <<>>, failed |-> {}, done |-> none, code |-> code,
              matches |-> <<>>, verdict |-> "none"]
      /\ SameRows
  BY DEF StartHunt, SameRows
<1>2. none \in BOOLEAN /\ (none => code = 400)
  OBVIOUS
<1>3. base \subseteq written /\ \A r \in base : TimeOf(r) >= since
  BY DEF ForensicsInv, RowsOK
<1>4. IsFiniteSet(K)
  <2>1. Len(iocs) \in Nat
    BY LenProperties
  <2>2. IsFiniteSet(1..Len(iocs)) /\ K \in SUBSET (1..Len(iocs))
    BY <2>1, FirstNaturals
  <2> HIDE DEF K
  <2> QED
    BY <2>2, FS_Subset
<1>5. Cardinality(K) \in Nat /\ DOMAIN ips = 1..Cardinality(K)
  <2> HIDE DEF K
  <2> QED
    BY <1>4, FS_CardinalityType DEF AtPositions
<1>6. IsFiniteSet(DOMAIN ips)
  <2> HIDE DEF K, ips
  <2> QED
    BY <1>5, FirstNaturals
<1>7. ASSUME kind = "ip" PROVE 1 \in DOMAIN ips
  <2>1. PICK h \in Hosts : iocs = <<h>>
    BY <1>7
  <2>2. Len(iocs) = 1 /\ iocs[1] \in Hosts
    BY <2>1
  <2>3. 1 \in K
    BY <2>2
  <2> HIDE DEF K, ips
  <2>4. Cardinality(K) # 0
    BY <1>4, <2>3, FS_EmptySet
  <2> QED
    BY <1>5, <2>4
<1> HIDE DEF K, ips, nets, since, base, none, code
<1>8. /\ HuntForm(job') /\ job'.kind = kind /\ job'.ips = ips /\ job'.since = since /\ job'.base = base
      /\ job'.flows = <<>> /\ job'.threats = <<>> /\ job'.done = none /\ job'.code = code
      /\ job'.verdict = "none"
  BY <1>1 DEF HuntForm
<1>9. HuntStart(job', written)
  BY <1>3, <1>6, <1>7, <1>8 DEF HuntStart
<1>10. HuntFound(job', storedRows, written)
  BY <1>8 DEF HuntFound
<1>11. job'.done => HuntAnswered(job', storedRows, written)
  BY <1>2, <1>8 DEF HuntAnswered
<1>12. HuntOK(job', storedRows, written)
  BY <1>2, <1>8, <1>9, <1>10, <1>11 DEF HuntOK
<1>13. JobOK'
  BY <1>1, <1>2, <1>8, <1>12 DEF JobOK, SameRows
<1> QED
  BY <1>1, <1>13, RequestSteps DEF SameRows

(* While a hunt runs, the invariant of its request is what counts.         *)
LEMMA HuntRuns ==
  ASSUME ForensicsInv, Hunting
  PROVE  /\ HuntOK(job, storedRows, written) /\ job.kind \in {"hunt", "ip"} /\ job.done = FALSE
         /\ HuntForm(job) /\ HuntStart(job, written) /\ HuntFound(job, storedRows, written)
         /\ job.verdict = "none" /\ storedRows \subseteq written
BY DEF Hunting, ForensicsInv, JobOK, RowsOK, HuntOK

LEMMA HuntGoesOn ==
  ASSUME ForensicsInv, Hunting, SameRows, HuntOK(job', storedRows, written), job'.kind = job.kind
  PROVE  ForensicsInv'
<1>1. job'.done \in BOOLEAN
  BY DEF HuntOK
<1>2. job'.kind \in {"hunt", "ip"}
  BY HuntRuns
<1>3. JobOK'
  BY <1>1, <1>2 DEF JobOK, SameRows
<1> QED
  BY <1>3, RequestSteps DEF SameRows

(* The searches of one address.                                            *)
AddedTo(f, h, i, v) ==
  /\ DOMAIN f = {i} \cup DOMAIN h /\ f[i] = v
  /\ \A n \in DOMAIN h : n # i => f[n] = h[n]

LEMMA GatheredAdds ==
  ASSUME NEW h, NEW i, NEW v
  PROVE  AddedTo(Gathered(h, i, v), h, i, v)
BY DEF Gathered, AddedTo

LEMMA FlowsSearched ==
  ASSUME ForensicsInv, Hunting, NEW i \in DOMAIN job.ips, SearchFlows(i)
  PROVE  ForensicsInv'
<1> DEFINE h == job.flows
           held == FoundBy(i, FlowIds)
           f == Gathered(h, i, held)
           k == job'
<1>1. k = [job EXCEPT !.flows = f] /\ SameRows
  BY DEF SearchFlows, SameRows
<1> HIDE DEF h, held, k
<1>20. AddedTo(f, h, i, held)
  BY GatheredAdds
<1> HIDE DEF f
<1>2. /\ DOMAIN f = {i} \cup DOMAIN job.flows /\ f[i] = FoundBy(i, FlowIds)
      /\ \A n \in DOMAIN job.flows : n # i => f[n] = job.flows[n]
  BY <1>20 DEF h, held, AddedTo
<1>3. /\ HuntOK(job, storedRows, written) /\ job.done = FALSE
      /\ HuntForm(job) /\ HuntStart(job, written) /\ HuntFound(job, storedRows, written)
      /\ storedRows \subseteq written
  BY HuntRuns
<1>4. /\ HuntForm(k) /\ Others(job, k) /\ k.flows = f /\ k.threats = job.threats
      /\ k.done = job.done /\ k.verdict = job.verdict
  BY <1>1, <1>3, FlowsFound
<1>5. FoundOK(job, storedRows, written, FlowIds, i, FoundBy(i, FlowIds))
  BY <1>3, FoundNow
<1>6. \A n \in DOMAIN f : FoundOK(job, storedRows, written, FlowIds, n, f[n])
  BY <1>2, <1>3, <1>5 DEF HuntFound
<1>7. HuntFound(k, storedRows, written)
  BY <1>2, <1>3, <1>4, <1>6 DEF HuntFound, FoundOK, Others
<1>8. HuntOK(k, storedRows, written)
  BY <1>3, <1>4, <1>7, SearchKeeps DEF Others
<1> QED
  BY <1>1, <1>4, <1>8, HuntGoesOn DEF Others, k

LEMMA ThreatsSearched ==
  ASSUME ForensicsInv, Hunting, NEW i \in DOMAIN job.ips, SearchThreats(i)
  PROVE  ForensicsInv'
<1> DEFINE h == job.threats
           held == FoundBy(i, ThreatIds)
           f == Gathered(h, i, held)
           k == job'
<1>1. k = [job EXCEPT !.threats = f] /\ SameRows
  BY DEF SearchThreats, SameRows
<1> HIDE DEF h, held, k
<1>20. AddedTo(f, h, i, held)
  BY GatheredAdds
<1> HIDE DEF f
<1>2. /\ DOMAIN f = {i} \cup DOMAIN job.threats /\ f[i] = FoundBy(i, ThreatIds)
      /\ \A n \in DOMAIN job.threats : n # i => f[n] = job.threats[n]
  BY <1>20 DEF h, held, AddedTo
<1>3. /\ HuntOK(job, storedRows, written) /\ job.done = FALSE
      /\ HuntForm(job) /\ HuntStart(job, written) /\ HuntFound(job, storedRows, written)
      /\ storedRows \subseteq written
  BY HuntRuns
<1>4. /\ HuntForm(k) /\ Others(job, k) /\ k.threats = f /\ k.flows = job.flows
      /\ k.done = job.done /\ k.verdict = job.verdict
  BY <1>1, <1>3, ThreatsFound
<1>5. FoundOK(job, storedRows, written, ThreatIds, i, FoundBy(i, ThreatIds))
  BY <1>3, FoundNow
<1>6. \A n \in DOMAIN f : FoundOK(job, storedRows, written, ThreatIds, n, f[n])
  BY <1>2, <1>3, <1>5 DEF HuntFound
<1>7. HuntFound(k, storedRows, written)
  BY <1>2, <1>3, <1>4, <1>6 DEF HuntFound, FoundOK, Others
<1>8. HuntOK(k, storedRows, written)
  BY <1>3, <1>4, <1>7, SearchKeeps DEF Others
<1> QED
  BY <1>1, <1>4, <1>8, HuntGoesOn DEF Others, k

LEMMA SearchLost ==
  ASSUME ForensicsInv, Hunting, NEW i \in DOMAIN job.ips, SearchFails(i)
  PROVE  ForensicsInv'
<1> DEFINE f == job.failed \cup {i}
           k == job'
<1>1. k = [job EXCEPT !.failed = f] /\ SameRows
  BY DEF SearchFails, SameRows
<1> HIDE DEF f, k
<1>2. /\ HuntOK(job, storedRows, written) /\ job.done = FALSE
      /\ HuntForm(job) /\ HuntFound(job, storedRows, written)
  BY HuntRuns
<1>3. /\ HuntForm(k) /\ Others(job, k) /\ k.threats = job.threats /\ k.flows = job.flows
      /\ k.done = job.done /\ k.verdict = job.verdict
  BY <1>1, <1>2, FailureNoted
<1>4. HuntFound(k, storedRows, written)
  BY <1>2, <1>3 DEF HuntFound, FoundOK, Others
<1>5. HuntOK(k, storedRows, written)
  BY <1>2, <1>3, <1>4, SearchKeeps DEF Others
<1> QED
  BY <1>1, <1>3, <1>5, HuntGoesOn DEF Others, k

(* A hunt that is answered: the rows found, and the start, are as before.  *)
LEMMA HuntEnds ==
  ASSUME NEW j, NEW k, NEW held, NEW wr, HuntOK(j, held, wr), Ended(j, k), HuntAnswered(k, held, wr)
  PROVE  HuntOK(k, held, wr)
<1>1. HuntStart(k, wr)
  BY DEF HuntOK, HuntStart, Others, Ended
<1>2. HuntFound(k, held, wr)
  BY DEF HuntOK, HuntFound, FoundOK, Others, Ended
<1> QED
  BY <1>1, <1>2 DEF HuntOK, Ended

(* An answer 500 promises nothing.                                         *)
LEMMA HuntRefused ==
  ASSUME ForensicsInv, Hunting, SameRows, job' = [job EXCEPT !.done = TRUE, !.code = 500]
  PROVE  ForensicsInv'
<1> DEFINE k == job'
           c == 500
<1>1. Refused(job, k, c)
  BY DEF Refused
<1>10. c # 200
  OBVIOUS
<1> HIDE DEF k, c
<1>2. HuntOK(job, storedRows, written) /\ HuntForm(job) /\ job.verdict = "none"
  BY HuntRuns
<1>3. Ended(job, k) /\ k.code = c /\ k.verdict = job.verdict
  BY <1>1, <1>2, AnswerRefused
<1>4. HuntAnswered(k, storedRows, written)
  BY <1>2, <1>3, <1>10 DEF HuntAnswered
<1>5. HuntOK(k, storedRows, written)
  BY <1>2, <1>3, <1>4, HuntEnds
<1> QED
  BY <1>3, <1>5, HuntGoesOn DEF Ended, Others, k

LEMMA InvestigationEnds ==
  ASSUME ForensicsInv, Hunting, EndInvestigation
  PROVE  ForensicsInv'
<1>1. SameRows /\ job.kind = "ip" /\ Searched
  BY DEF EndInvestigation, SameRows
<1>2. CASE job.failed # {} \/ job.flows[1] = {}
  <2>1. job' = [job EXCEPT !.done = TRUE, !.code = 500]
    BY <1>2 DEF EndInvestigation
  <2> QED
    BY <1>1, <2>1, HuntRefused
<1>3. CASE ~(job.failed # {} \/ job.flows[1] = {})
  <2> DEFINE v == HostVerdict(job.flows[1], Cardinality(job.threats[1]))
             k == job'
  <2>1. Judged(job, k, v)
    BY <1>3 DEF EndInvestigation, Judged
  <2> HIDE DEF k
  <2>2. /\ HuntOK(job, storedRows, written) /\ HuntForm(job)
        /\ HuntStart(job, written) /\ HuntFound(job, storedRows, written)
    BY HuntRuns
  <2>3. ASSUME v = "CLEAN" PROVE CleanHasNone(job, storedRows)
    <3>1. 1 \in DOMAIN job.threats
      BY <1>1, <1>3, <2>2 DEF Searched, HuntStart
    <3>2. FoundOK(job, storedRows, written, ThreatIds, 1, job.threats[1])
      BY <2>2, <3>1 DEF HuntFound
    <3> DEFINE T == job.threats[1]
               W == OfAddress(written \cap ThreatIds, job.ips[1])
    <3>3. IsFiniteSet(W) /\ T \in SUBSET W
      BY <3>2, OfAddressFinite DEF FoundOK
    <3>4. IsFiniteSet(T) /\ Cardinality(T) \in Nat
      <4> HIDE DEF W, T
      <4> QED
        BY <3>3, FS_Subset, FS_CardinalityType
    <3>5. ~(Cardinality(T) >= 1)
      BY <2>3 DEF HostVerdict
    <3>6. T = {}
      <4> HIDE DEF W, T
      <4>1. Cardinality(T) = 0
        BY <3>4, <3>5
      <4> QED
        BY <3>4, <4>1, FS_EmptySet
    <3>7. OfAddress(job.base \cap storedRows \cap ThreatIds, job.ips[1]) = {}
      BY <3>2, <3>6 DEF FoundOK
    <3>8. \A t \in job.base \cap storedRows \cap ThreatIds : Threat[t].src # job.ips[1]
      <4>1. ASSUME NEW t \in job.base \cap storedRows \cap ThreatIds PROVE SourceOf(t) = Threat[t].src
        BY FlowTimes DEF SourceOf
      <4> QED
        BY <3>7, <4>1 DEF OfAddress
    <3> QED
      BY <3>8 DEF CleanHasNone
  <2> HIDE DEF v
  <2>4. Ended(job, k) /\ k.verdict = v
    BY <2>1, <2>2, VerdictSent
  <2>5. k.verdict = "CLEAN" => CleanHasNone(k, storedRows)
    BY <2>3, <2>4 DEF CleanHasNone, Ended, Others
  <2>6. k.kind = "ip"
    BY <1>1, <2>4 DEF Ended, Others
  <2>7. HuntAnswered(k, storedRows, written)
    BY <2>5, <2>6 DEF HuntAnswered
  <2>8. HuntOK(k, storedRows, written)
    BY <2>2, <2>4, <2>7, HuntEnds
  <2> QED
    BY <1>1, <2>4, <2>8, HuntGoesOn DEF Ended, Others, k
<1> QED
  BY <1>2, <1>3

(* The matches: each address that had rows is named, with what was found   *)
(* for it.                                                                 *)
AllSearched(j) == \A i \in DOMAIN j.ips \ j.failed : i \in DOMAIN j.flows /\ i \in DOMAIN j.threats
HitsOf(j, hits) == hits = {i \in DOMAIN j.ips \ j.failed : j.flows[i] # {} \/ j.threats[i] # {}}
MatchesAre(j, sorted, m) ==
  m = [n \in DOMAIN sorted |->
         [ioc |-> j.ips[sorted[n]], flows |-> Cardinality(j.flows[sorted[n]]),
          threats |-> Cardinality(j.threats[sorted[n]])]]

LEMMA MatchesComplete ==
  ASSUME NEW j, NEW held, NEW wr, HuntStart(j, wr), HuntFound(j, held, wr), AllSearched(j),
         NEW hits, HitsOf(j, hits), NEW sorted \in SetToSeqs(hits),
         NEW k, Ended(j, k), MatchesAre(j, sorted, k.matches)
  PROVE  NamesAll(k, held) /\ CountsWritten(k, wr)
<1>1. IsFiniteSet(hits)
  <2>1. hits \in SUBSET (DOMAIN j.ips) /\ IsFiniteSet(DOMAIN j.ips)
    BY DEF HuntStart, HitsOf
  <2> QED
    BY <2>1, FS_Subset
<1>2. sorted \in Seq(hits) /\ \A i \in hits : \E p \in 1..Len(sorted) : sorted[p] = i
  BY <1>1, ListingOfSet
<1>3. DOMAIN sorted = 1..Len(sorted) /\ \A n \in DOMAIN sorted : sorted[n] \in hits
  BY <1>2, LenProperties, ElementOfSeq
<1>4. /\ DOMAIN k.matches = DOMAIN sorted
      /\ \A n \in DOMAIN sorted :
            /\ k.matches[n].ioc = j.ips[sorted[n]]
            /\ k.matches[n].flows = Cardinality(j.flows[sorted[n]])
            /\ k.matches[n].threats = Cardinality(j.threats[sorted[n]])
  BY DEF MatchesAre
<1>5. \A i \in hits : /\ i \in DOMAIN j.flows /\ i \in DOMAIN j.threats
                      /\ FoundOK(j, held, wr, FlowIds, i, j.flows[i])
                      /\ FoundOK(j, held, wr, ThreatIds, i, j.threats[i])
  BY DEF HuntFound, HitsOf, AllSearched
<1>6. NamesAll(k, held)
  <2>1. SUFFICES ASSUME NEW i \in DOMAIN j.ips \ j.failed, NEW r \in j.base \cap held \cap FlowIds,
                        Flow[r].src = j.ips[i]
                 PROVE  \E n \in DOMAIN k.matches : k.matches[n].ioc = j.ips[i]
    BY DEF NamesAll, Others, Ended
  <2>2. FoundOK(j, held, wr, FlowIds, i, j.flows[i])
    BY DEF HuntFound, AllSearched
  <2>3. r \in j.flows[i]
    BY <2>1, <2>2 DEF FoundOK, OfAddress, SourceOf
  <2>4. i \in hits
    BY <2>3 DEF HitsOf
  <2> QED
    BY <1>2, <1>3, <1>4, <2>4
<1>7. CountsWritten(k, wr)
  <2>1. ASSUME NEW table \in {FlowIds, ThreatIds}, NEW i, NEW found, FoundOK(j, held, wr, table, i, found)
        PROVE  /\ Cardinality(found) \in Nat
               /\ Cardinality(found) <= Cardinality(OfAddress(wr \cap table, j.ips[i]))
    <3> DEFINE W == OfAddress(wr \cap table, j.ips[i])
    <3>1. IsFiniteSet(W) /\ found \in SUBSET W
      BY <2>1, OfAddressFinite DEF FoundOK
    <3> HIDE DEF W
    <3>2. Cardinality(found) \in Nat /\ Cardinality(found) <= Cardinality(W)
      BY <3>1, FS_Subset, FS_CardinalityType
    <3> QED
      BY <3>2 DEF W
  <2>2. ASSUME NEW n \in DOMAIN k.matches
        PROVE  /\ k.matches[n].flows <= Cardinality(OfAddress(wr \cap FlowIds, k.matches[n].ioc))
               /\ k.matches[n].threats <= Cardinality(OfAddress(wr \cap ThreatIds, k.matches[n].ioc))
               /\ k.matches[n].flows \in Nat /\ k.matches[n].threats \in Nat
    <3>1. sorted[n] \in hits
      BY <1>3, <1>4
    <3> DEFINE i == sorted[n]
    <3>2. /\ Cardinality(j.flows[i]) \in Nat /\ Cardinality(j.threats[i]) \in Nat
          /\ Cardinality(j.flows[i]) <= Cardinality(OfAddress(wr \cap FlowIds, j.ips[i]))
          /\ Cardinality(j.threats[i]) <= Cardinality(OfAddress(wr \cap ThreatIds, j.ips[i]))
      BY <1>5, <2>1, <3>1
    <3>3. /\ k.matches[n].ioc = j.ips[i] /\ k.matches[n].flows = Cardinality(j.flows[i])
          /\ k.matches[n].threats = Cardinality(j.threats[i])
      BY <1>4
    <3> HIDE DEF i
    <3> QED
      BY <3>2, <3>3
  <2> QED
    BY <2>2, AddressesAre DEF CountsWritten
<1> QED
  BY <1>6, <1>7

LEMMA HuntIsAnswered ==
  ASSUME ForensicsInv, Hunting, EndHunt
  PROVE  ForensicsInv'
<1> DEFINE hits == {i \in DOMAIN job.ips \ job.failed : job.flows[i] # {} \/ job.threats[i] # {}}
           k == job'
<1>1. SameRows /\ job.kind = "hunt" /\ Searched
  BY DEF EndHunt, SameRows
<1>2. CASE \E i \in hits : job.flows[i] = {}
  <2>1. job' = [job EXCEPT !.done = TRUE, !.code = 500]
    BY <1>2 DEF EndHunt
  <2> QED
    BY <1>1, <2>1, HuntRefused
<1>3. CASE ~\E i \in hits : job.flows[i] = {}
  <2>1. PICK sorted \in SetToSeqs(hits) :
          job' = [job EXCEPT !.done = TRUE,
                    !.matches = [n \in DOMAIN sorted |->
                       [ioc |-> job.ips[sorted[n]], flows |-> Cardinality(job.flows[sorted[n]]),
                        threats |-> Cardinality(job.threats[sorted[n]])]]]
    BY <1>3 DEF EndHunt, AddressOf
  <2> DEFINE m == [n \in DOMAIN sorted |->
                     [ioc |-> job.ips[sorted[n]], flows |-> Cardinality(job.flows[sorted[n]]),
                      threats |-> Cardinality(job.threats[sorted[n]])]]
  <2>2. Matched(job, k, m)
    BY <2>1 DEF Matched
  <2> HIDE DEF k, hits, m
  <2>3. /\ HuntOK(job, storedRows, written) /\ HuntForm(job)
        /\ HuntStart(job, written) /\ HuntFound(job, storedRows, written)
    BY HuntRuns
  <2>4. Ended(job, k) /\ k.matches = m
    BY <2>2, <2>3, MatchesSent
  <2>5. NamesAll(k, storedRows) /\ CountsWritten(k, written)
    <3>1. AllSearched(job)
      BY <1>1 DEF Searched, AllSearched
    <3>2. HitsOf(job, hits)
      BY DEF HitsOf, hits
    <3>3. MatchesAre(job, sorted, k.matches)
      BY <2>4 DEF MatchesAre, m
    <3> QED
      BY <2>1, <2>3, <2>4, <3>1, <3>2, <3>3, MatchesComplete
  <2>6. k.kind = "hunt"
    BY <1>1, <2>4 DEF Ended, Others
  <2>7. HuntAnswered(k, storedRows, written)
    BY <2>5, <2>6 DEF HuntAnswered
  <2>8. HuntOK(k, storedRows, written)
    BY <2>3, <2>4, <2>7, HuntEnds
  <2> QED
    BY <1>1, <2>4, <2>8, HuntGoesOn DEF Ended, Others, k
<1> QED
  BY <1>2, <1>3

LEMMA HuntStep == ForensicsInv /\ Hunt => ForensicsInv'
<1> SUFFICES ASSUME ForensicsInv, Hunt PROVE ForensicsInv'
  OBVIOUS
<1>1. Hunting
  BY DEF Hunt
<1>2. ASSUME NEW i \in DOMAIN job.ips, SearchFlows(i) PROVE ForensicsInv'
  BY <1>1, <1>2, FlowsSearched
<1>3. ASSUME NEW i \in DOMAIN job.ips, SearchThreats(i) PROVE ForensicsInv'
  BY <1>1, <1>3, ThreatsSearched
<1>4. ASSUME NEW i \in DOMAIN job.ips, SearchFails(i) PROVE ForensicsInv'
  BY <1>1, <1>4, SearchLost
<1>5. CASE EndHunt
  BY <1>1, <1>5, HuntIsAnswered
<1>6. CASE EndInvestigation
  BY <1>1, <1>6, InvestigationEnds
<1> QED
  BY <1>2, <1>3, <1>4, <1>5, <1>6 DEF Hunt

LEMMA ForensicsStep == ForensicsInv /\ [ForensicsNext]_forensicsVars => ForensicsInv'
<1> SUFFICES ASSUME ForensicsInv, [ForensicsNext]_forensicsVars PROVE ForensicsInv'
  OBVIOUS
<1>1. CASE UNCHANGED forensicsVars
  <2>1. UNCHANGED <<today, storedRows, written, statRows>> /\ job' = job
    BY <1>1 DEF forensicsVars
  <2>2. JobOK'
    BY <2>1 DEF ForensicsInv, JobOK
  <2> QED
    BY <2>1, <2>2, RequestSteps
<1>2. CASE NextDay
  BY <1>2, DayPasses
<1>3. ASSUME NEW block \in SUBSET ((FlowIds \cup ThreatIds) \ written), InsertRows(block) PROVE ForensicsInv'
  BY <1>3, RowsArrive
<1>4. ASSUME NEW held \in SUBSET storedRows, ExpireRows(held) PROVE ForensicsInv'
  BY <1>4, RowsLeave
<1>5. CASE MergeStats
  BY <1>5, SumsMerge
<1>15. CASE ExpireStats
  BY <1>15, SumsLeave
<1>6. ASSUME NEW q \in PageQueries, StartPages(q) PROVE ForensicsInv'
  BY <1>6, PagesBegin
<1>7. CASE ReadPage
  BY <1>7, PageRead
<1>8. ASSUME NEW sev, QueryThreats(sev, 1) PROVE ForensicsInv'
  <2>1. \E found : Answer("threats", found)
    BY <1>8 DEF QueryThreats
  <2> QED
    BY <2>1, AnsweredAtOnce
<1>9. ASSUME NEW by, TopTalkers(by) PROVE ForensicsInv'
  <2>1. \E found : Answer("talkers", found)
    BY <1>9, ZenonT(60) DEF TopTalkers
  <2> QED
    BY <2>1, AnsweredAtOnce
<1>10. CASE AttackHeatmap
  <2>1. \E found : Answer("heatmap", found)
    BY <1>10, ZenonT(60) DEF AttackHeatmap
  <2> QED
    BY <2>1, AnsweredAtOnce
<1>11. ASSUME NEW table, ExportCsv(table) PROVE ForensicsInv'
  <2>1. \E found : Answer("export", found)
    BY <1>11 DEF ExportCsv
  <2> QED
    BY <2>1, AnsweredAtOnce
<1>12. ASSUME NEW iocs \in HuntRequests, StartHunt("hunt", iocs) PROVE ForensicsInv'
  <2>1. iocs \in Seq(Range(iocs))
    BY ForensicsAssumption
  <2> DEFINE A == Range(iocs)
  <2>2. iocs \in Seq(A)
    BY <2>1
  <2> HIDE DEF A
  <2> QED
    BY <1>12, <2>2, HuntBegins
<1>13. ASSUME NEW h \in Hosts, StartHunt("ip", <<h>>) PROVE ForensicsInv'
  <2> DEFINE A == {h}
             iocs == <<h>>
  <2>1. iocs \in Seq(A) /\ StartHunt("ip", iocs) /\ \E g \in Hosts : iocs = <<g>>
    BY <1>13
  <2> HIDE DEF A, iocs
  <2> QED
    BY <2>1, HuntBegins
<1>14. CASE Hunt
  BY <1>14, HuntStep
<1> QED
  BY <1>1, <1>2, <1>3, <1>4, <1>5, <1>6, <1>7, <1>8, <1>9, <1>10, <1>11, <1>12, <1>13, <1>14,
     <1>15
  DEF ForensicsNext

(* What the invariant says of the properties.                              *)
LEMMA SumIsOver == ASSUME NEW f PROVE SumFunction(f) = SumOver(f, DOMAIN f)
BY DEF SumFunction, SumFunctionOnSet, FoldFunctionOnSet, SumOver

LEMMA ForensicsHolds == ForensicsInv => ForensicsSound
<1> SUFFICES ASSUME ForensicsInv PROVE ForensicsSound
  OBVIOUS
<1>1. RowsOK /\ JobOK /\ StatsAgree
  BY DEF ForensicsInv
<1>2. BagToSet(statRows) = DOMAIN statRows
  BY DEF BagToSet
<1>3. ForensicsTypeOK
  <2>1. \A x \in DOMAIN statRows : x.blocked <= x.flows
    BY <1>1 DEF StatsAgree, StatsOK, RowOK
  <2> QED
    BY <1>1, <1>2, <2>1 DEF ForensicsTypeOK, RowsOK, JobOK
<1>4. PagesMissNothing
  BY <1>1 DEF PagesMissNothing, JobOK, PagesOK, ReadAll
<1>5. HuntIsComplete
  <2>1. SUFFICES ASSUME job.kind = "hunt", job.done, job.code = 200
                 PROVE  NamesAll(job, storedRows) /\ CountsWritten(job, written)
    BY DEF HuntIsComplete, NamesAll, CountsWritten
  <2> QED
    BY <1>1, <2>1 DEF JobOK, HuntOK, HuntAnswered
<1>6. NoThreatCalledClean
  <2>1. SUFFICES ASSUME job.kind = "ip", job.done, job.verdict = "CLEAN"
                 PROVE  CleanHasNone(job, storedRows)
    BY DEF NoThreatCalledClean, CleanHasNone
  <2> QED
    BY <1>1, <2>1 DEF JobOK, HuntOK, HuntAnswered
<1>7. StatsAddUp
  <2>1. ASSUME NEW d \in Nat PROVE StatsOfDay(d) = Total(statRows, d)
    <3> DEFINE B == statRows
               T == {y \in DOMAIN B : y.day = d}
               f == [x \in T |-> x.flows * B[x]]
               w == Weights(B, d)
    <3>1. StatsOfDay(d) = SumFunction(f) /\ DOMAIN f = T
      BY <1>2 DEF StatsOfDay
    <3>2. StatsOK(B) /\ IsFiniteSet(DOMAIN B) /\ T \in SUBSET DOMAIN B
      BY <1>1 DEF StatsAgree, StatsOK
    <3>3. \A x \in DOMAIN B : w[x] \in Nat
      BY <3>2, TotalType
    <3>4. \A x \in DOMAIN B : w[x] = FlowsOf(x, d) * B[x]
      BY DEF Weights
    <3>5. \A x \in T : f[x] = w[x]
      BY <3>4 DEF FlowsOf
    <3>6. \A x \in DOMAIN B : x \notin T => w[x] = 0
      <4>1. \A x \in DOMAIN B : B[x] \in Nat
        BY <3>2 DEF StatsOK
      <4>2. \A x \in DOMAIN B : x \notin T => FlowsOf(x, d) = 0
        BY DEF FlowsOf
      <4>3. \A n \in Nat : 0 * n = 0
        OBVIOUS
      <4> HIDE DEF T, w, B, f
      <4> QED
        BY <3>4, <4>1, <4>2, <4>3
    <3> HIDE DEF T, f, w
    <3>7. SumFunction(f) = SumOver(f, T)
      BY <3>1, SumIsOver
    <3>8. IsFiniteSet(T)
      BY <3>2, FS_Subset
    <3>9. SumOver(f, T) = SumOver(w, T)
      <4>1. \A x \in T : f[x] \in Int /\ w[x] \in Int /\ f[x] = w[x]
        BY <3>2, <3>3, <3>5
      <4> QED
        BY <3>8, <4>1, SumAgrees
    <3>10. SumOver(w, DOMAIN B) = SumOver(w, T)
      <4>1. \A x \in DOMAIN B : w[x] \in Int /\ (x \notin T => w[x] = 0)
        BY <3>3, <3>6
      <4> DEFINE D == DOMAIN B
      <4>2. IsFiniteSet(D) /\ T \in SUBSET D /\ \A x \in D : w[x] \in Int /\ (x \notin T => w[x] = 0)
        BY <3>2, <4>1
      <4> HIDE DEF D
      <4>3. SumOver(w, D) = SumOver(w, T)
        BY <4>2, SumOfPositive
      <4> QED
        BY <4>3 DEF D
    <3>11. Total(B, d) = SumOver(w, DOMAIN B)
      BY DEF Total, w
    <3>12. StatsOfDay(d) = Total(B, d)
      BY <3>1, <3>7, <3>9, <3>10, <3>11
    <3> QED
      BY <3>12
  <2>2. \A d : OnDay(written \cap FlowIds, d) = {f \in written \cap FlowIds : Flow[f].seen = d}
    BY DEF OnDay
  <2>3. \A d \in 0..today : d \in Nat
    BY <1>1, FlowTimes DEF RowsOK
  <2> QED
    BY <1>1, <2>1, <2>2, <2>3 DEF StatsAddUp, StatsAgree, DaysAgree
<1> QED
  BY <1>3, <1>4, <1>5, <1>6, <1>7 DEF ForensicsSound

-----------------------------------------------------------------------------
(* ThorQL.                                                                 *)

Asked(q) == ClausesOK(q) /\ q.source \in QuerySources

LEMMA SavedHuntsOK == \A h \in DOMAIN Hunts : ClausesOK(Hunts[h])
<1>1. ASSUME NEW source, NEW cols, NEW n \in Nat, NEW unit \in {"m", "h", "d", "w"}, NEW group, NEW sort,
             NEW limit \in Nat
      PROVE  ClausesOK(HuntOf(source, cols, n, unit, group, sort, limit))
  BY DEF ClausesOK, HuntOf, AtMostOne
<1> HIDE DEF ClausesOK, HuntOf
<1>2. DOMAIN Hunts = {"dns_tunneling", "c2_beaconing", "lateral_movement", "data_exfiltration", "brute_force", "crypto_mining",
                      "port_scan", "privilege_escalation", "web_attacks", "insider_threat", "new_admin_tools", "tor_traffic"}
  BY DEF Hunts
<1>3. ClausesOK(Hunts.dns_tunneling)
  <2>1. Hunts.dns_tunneling = HuntOf("flows", Ports \cup {"protocol"}, 4, "h", BySource, "count", 50)
    BY DEF Hunts
  <2> QED
    BY <1>1, <2>1
<1>4. ClausesOK(Hunts.c2_beaconing)
  <2>1. Hunts.c2_beaconing = HuntOf("threats", Types, 24, "h", {}, "risk_score", 100)
    BY DEF Hunts
  <2> QED
    BY <1>1, <2>1
<1>5. ClausesOK(Hunts.lateral_movement)
  <2>1. Hunts.lateral_movement = HuntOf("flows", Ports, 1, "h", BySource, "count", 50)
    BY DEF Hunts
  <2> QED
    BY <1>1, <2>1
<1>6. ClausesOK(Hunts.data_exfiltration)
  <2>1. Hunts.data_exfiltration = HuntOf("flows", {"bytes", "dst_port"}, 24, "h", BySource, "sum", 30)
    BY DEF Hunts
  <2> QED
    BY <1>1, <2>1
<1>7. ClausesOK(Hunts.brute_force)
  <2>1. Hunts.brute_force = HuntOf("flows", Ports, 15, "m", BySource, "count", 50)
    BY DEF Hunts
  <2> QED
    BY <1>1, <2>1
<1>8. ClausesOK(Hunts.crypto_mining)
  <2>1. Hunts.crypto_mining = HuntOf("flows", Ports, 1, "h", {{"dst_ip"}}, "count", 30)
    BY DEF Hunts
  <2> QED
    BY <1>1, <2>1
<1>9. ClausesOK(Hunts.port_scan)
  <2>1. Hunts.port_scan = HuntOf("threats", Types, 1, "h", BySource, "count", 50)
    BY DEF Hunts
  <2> QED
    BY <1>1, <2>1
<1>10. ClausesOK(Hunts.privilege_escalation)
  <2>1. Hunts.privilege_escalation = HuntOf("threats", {"threat_type", "severity"}, 4, "h", {}, "risk_score", 50)
    BY DEF Hunts
  <2> QED
    BY <1>1, <2>1
<1>11. ClausesOK(Hunts.web_attacks)
  <2>1. Hunts.web_attacks = HuntOf("threats", Types, 24, "h", {}, "risk_score", 100)
    BY DEF Hunts
  <2> QED
    BY <1>1, <2>1
<1>12. ClausesOK(Hunts.insider_threat)
  <2>1. Hunts.insider_threat = HuntOf("ueba_events", {"risk_delta", "severity"}, 24, "h", {}, "risk_delta", 50)
    BY DEF Hunts
  <2> QED
    BY <1>1, <2>1
<1>13. ClausesOK(Hunts.new_admin_tools)
  <2>1. Hunts.new_admin_tools = HuntOf("flows", Ports, 6, "h", {{"src_ip", "dst_ip"}}, "risk_score", 50)
    BY DEF Hunts
  <2> QED
    BY <1>1, <2>1
<1>14. ClausesOK(Hunts.tor_traffic)
  <2>1. Hunts.tor_traffic = HuntOf("threats", Types, 24, "h", {}, "risk_score", 50)
    BY DEF Hunts
  <2> QED
    BY <1>1, <2>1
<1> QED
  BY <1>2, <1>3, <1>4, <1>5, <1>6, <1>7, <1>8, <1>9, <1>10, <1>11, <1>12, <1>13, <1>14

LEMMA OnlyOf ==
  ASSUME NEW S \in SUBSET Nat, AtMostOne(S), NEW x \in S
  PROVE  Max(S) = x
<1>1. S = {x}
  BY DEF AtMostOne
<1> QED
  BY <1>1 DEF Max

LEMMA LessOf ==
  ASSUME NEW x \in Nat, NEW y \in Nat
  PROVE  /\ Min({x, y}) \in Nat /\ Min({x, y}) <= x /\ Min({x, y}) <= y
         /\ Min({x, y}) = x \/ Min({x, y}) = y
<1> DEFINE m == Min({x, y})
<1>1. m \in {x, y} /\ \A z \in {x, y} : m <= z
  <2>1. {x, y} \in SUBSET Nat /\ {x, y} # {}
    OBVIOUS
  <2> QED
    BY <2>1, SmallestOf
<1> HIDE DEF m
<1>2. m \in Nat /\ m <= x /\ m <= y /\ (m = x \/ m = y)
  BY <1>1
<1> QED
  BY <1>2 DEF m

LEMMA MinutesAre ==
  ASSUME NEW l \in Nat \X {"m", "h", "d", "w"}
  PROVE  Minutes(l[1], l[2]) \in Nat
<1>1. l[1] \in Nat /\ l[2] \in {"m", "h", "d", "w"}
  OBVIOUS
<1> DEFINE u == CASE l[2] = "m" -> 1 [] l[2] = "h" -> 60 [] l[2] = "d" -> 1440 [] l[2] = "w" -> 10080
<1>2. u \in Nat
  BY <1>1
<1> HIDE DEF u
<1>3. l[1] * u \in Nat
  BY <1>1, <1>2
<1> QED
  BY <1>3 DEF Minutes, u

(* What the parse keeps of a query that runs.                              *)
LEMMA ParseIs ==
  ASSUME NEW q, Asked(q)
  PROVE  /\ Parse(q).table = TableOf(q.source) /\ Parse(q).limit \in Nat
         /\ Parse(q).where \subseteq q.where
         /\ \A l \in q.last : Minutes(l[1], l[2]) \in Nat
         /\ \A l \in q.last : Max(Parse(q).last) = Minutes(l[1], l[2])
         /\ q.last = {} => Parse(q).last = {}
<1>1. /\ AtMostOne(q.last) /\ q.last \subseteq Nat \X {"m", "h", "d", "w"}
      /\ AtMostOne(q.limit) /\ q.limit \subseteq Nat /\ q.source \in QuerySources
  BY DEF Asked, ClausesOK
<1>2. Parse(q).table = TableOf(q.source) /\ Parse(q).where \subseteq q.where
  BY <1>1 DEF Parse, Accepted
<1>3. Parse(q).limit \in Nat
  <2>1. Parse(q).limit = IF q.limit = {} THEN 100 ELSE Min({Max(q.limit), MaxLimit})
    BY DEF Parse
  <2>2. CASE q.limit = {}
    BY <2>1, <2>2
  <2>3. CASE q.limit # {}
    <3>1. PICK x \in q.limit : x \in Nat
      BY <1>1, <2>3
    <3>2. Max(q.limit) = x
      BY <1>1, <3>1, OnlyOf
    <3>3. Min({x, MaxLimit}) \in Nat
      BY <3>1, LessOf, ThorQLAssumption DEF ThorQLAssumption
    <3> QED
      BY <2>1, <2>3, <3>2, <3>3
  <2> QED
    BY <2>2, <2>3
<1>4. \A l \in q.last : Minutes(l[1], l[2]) \in Nat
  BY <1>1, MinutesAre
<1> DEFINE T == {Minutes(l[1], l[2]) : l \in q.last}
<1>5. Parse(q).last = T
  BY DEF Parse
<1>6. T \in SUBSET Nat /\ AtMostOne(T)
  <2>1. \A l, m \in q.last : l = m
    BY <1>1 DEF AtMostOne
  <2>2. \A x, y \in T : x = y
    BY <2>1
  <2> QED
    BY <1>4, <2>2 DEF AtMostOne
<1>7. \A l \in q.last : Max(T) = Minutes(l[1], l[2])
  <2>1. SUFFICES ASSUME NEW l \in q.last PROVE Max(T) = Minutes(l[1], l[2])
    OBVIOUS
  <2>2. Minutes(l[1], l[2]) \in T
    OBVIOUS
  <2> HIDE DEF T
  <2> QED
    BY <1>6, <2>2, OnlyOf
<1>8. q.last = {} => T = {}
  OBVIOUS
<1> HIDE DEF T
<1> QED
  BY <1>2, <1>3, <1>4, <1>5, <1>7, <1>8

LEMMA LinesAre ==
  ASSUME rows \subseteq RowIds, NEW p
  PROVE  /\ IsFiniteSet(Lines(p)) /\ \A s \in Lines(p) : s # {}
         /\ UNION Lines(p) = Selected(p)
<1> DEFINE S == Selected(p)
           keys == {Row[r].key : r \in S}
           line(k) == {r \in S : Row[r].key = k}
<1>1. IsFiniteSet(S)
  <2>1. S \in SUBSET RowIds
    BY DEF Selected
  <2> HIDE DEF S
  <2> QED
    BY <2>1, FS_Subset, ThorQLAssumption DEF ThorQLAssumption
<1>2. Lines(p) = IF p.group = {} THEN {{r} : r \in S} ELSE {line(k) : k \in keys}
  BY DEF Lines
<1> HIDE DEF S
<1>3. CASE p.group = {}
  <2>1. Lines(p) = {{r} : r \in S}
    BY <1>2, <1>3
  <2> DEFINE f == [r \in S |-> {r}]
  <2>2. f \in Surjection(S, {{r} : r \in S})
    BY DEF Surjection
  <2> HIDE DEF f
  <2>3. IsFiniteSet({{r} : r \in S})
    BY <1>1, <2>2, FS_Surjection
  <2> QED
    BY <2>1, <2>3 DEF S
<1>4. CASE p.group # {}
  <2>1. Lines(p) = {line(k) : k \in keys}
    BY <1>2, <1>4
  <2>2. {line(k) : k \in keys} = {line(Row[r].key) : r \in S}
    OBVIOUS
  <2> DEFINE f == [r \in S |-> line(Row[r].key)]
  <2>3. f \in Surjection(S, {line(Row[r].key) : r \in S})
    BY DEF Surjection
  <2> HIDE DEF f
  <2>4. IsFiniteSet({line(Row[r].key) : r \in S})
    BY <1>1, <2>3, FS_Surjection
  <2>5. \A r \in S : r \in line(Row[r].key)
    OBVIOUS
  <2>6. \A s \in Lines(p) : s # {} /\ s \subseteq S
    BY <2>1, <2>2, <2>5
  <2>7. \A r \in S : r \in UNION Lines(p)
    BY <2>1, <2>2, <2>5
  <2>8. UNION Lines(p) = S
    BY <2>6, <2>7
  <2> QED
    BY <2>1, <2>2, <2>4, <2>6, <2>8 DEF S
<1> QED
  BY <1>3, <1>4

-----------------------------------------------------------------------------
(* A query that runs was parsed as it was asked, and the rows it found     *)
(* stored stay stored.                                                     *)
RunningOK ==
  request.phase = "running" =>
    Asked(request.asked) /\ request.parsed = Parse(request.asked) /\ request.base \subseteq rows

(* What a row must meet for the query q, at the minute now.                *)
Wanted(r, q, now) ==
  /\ Row[r].table = TableOf(q.source)
  /\ \A l \in q.last : now - Row[r].ts <= Minutes(l[1], l[2])
  /\ \A c \in q.where : r \in c.holds

AnsweredOK ==
  request.phase = "answered" /\ request.code = 200 =>
    /\ Asked(request.asked) /\ request.base \subseteq RowIds
    /\ Cardinality(request.lines) <= request.parsed.limit
    /\ request.alert => UNION request.lines # {}
    /\ client /\ Cardinality(request.lines) < request.parsed.limit =>
         \A r \in request.base : Wanted(r, request.asked, queryMinute) => r \in UNION request.lines

ThorQLInv == ThorQLTypeOK /\ RunningOK /\ AnsweredOK

LEMMA HuntNumbers ==
  /\ IsFiniteSet(RowIds) /\ \A r \in RowIds : Row[r].ts \in Nat
  /\ LastQueryMinute \in Nat
  BY ThorQLAssumption DEF ThorQLAssumption

LEMMA WantedEarlier ==
  ASSUME NEW q, Asked(q), NEW r \in RowIds, NEW now \in Nat, Wanted(r, q, now + 1)
  PROVE  Wanted(r, q, now)
<1>1. ASSUME NEW l \in q.last PROVE now - Row[r].ts <= Minutes(l[1], l[2])
  <2> DEFINE m == Minutes(l[1], l[2])
             t == Row[r].ts
  <2>1. m \in Nat /\ t \in Nat /\ now + 1 - t <= m
    BY ParseIs, HuntNumbers DEF Wanted
  <2> HIDE DEF m, t
  <2>2. now - t <= m
    BY <2>1
  <2> QED
    BY <2>2 DEF m, t
<1> QED
  BY <1>1 DEF Wanted

(* The read itself.                                                        *)
LEMMA ReadCovers ==
  ASSUME ThorQLInv, request.phase = "running", client, NEW p, p = request.parsed,
         NEW lines, lines \in kSubset(Min({p.limit, Cardinality(Lines(p))}), Lines(p))
  PROVE  /\ Cardinality(lines) <= p.limit /\ (lines # {} => UNION lines # {})
         /\ Cardinality(lines) < p.limit =>
              \A r \in request.base : Wanted(r, request.asked, queryMinute) => r \in UNION lines
<1> DEFINE q == request.asked
           all == Lines(p)
           n == Min({p.limit, Cardinality(all)})
<1>1. Asked(q) /\ p = Parse(q) /\ request.base \subseteq rows /\ rows \subseteq RowIds /\ queryMinute \in Nat
  BY HuntNumbers DEF ThorQLInv, RunningOK, ThorQLTypeOK
<1>2. IsFiniteSet(all) /\ (\A s \in all : s # {}) /\ UNION all = Selected(p)
  BY <1>1, LinesAre
<1>3. p.limit \in Nat /\ Cardinality(all) \in Nat
  <2>1. p.limit \in Nat
    BY <1>1, ParseIs
  <2> HIDE DEF all
  <2> QED
    BY <1>2, <2>1, FS_CardinalityType
<1>4. lines \subseteq all /\ Cardinality(lines) = n
  BY DEF kSubset
<1> HIDE DEF all
<1>5. n \in Nat /\ n <= p.limit /\ (n = p.limit \/ n = Cardinality(all))
  BY <1>3, LessOf
<1> HIDE DEF n
<1>6. lines # {} => UNION lines # {}
  BY <1>2, <1>4
<1>7. ASSUME Cardinality(lines) < p.limit, NEW r \in request.base, Wanted(r, q, queryMinute)
      PROVE  r \in UNION lines
  <2>1. Cardinality(lines) = Cardinality(all)
    BY <1>3, <1>4, <1>5, <1>7
  <2>2. lines = all
    BY <1>2, <1>4, <2>1, FS_Subset
  <2>3. r \in rows /\ r \in RowIds
    BY <1>1
  <2>4. Row[r].table = p.table /\ \A c \in p.where : r \in c.holds
    BY <1>1, <1>7, ParseIs DEF Wanted
  <2>5. InLast(r, p)
    <3>1. CASE q.last = {}
      <4>1. p.last = {}
        BY <1>1, <3>1, ParseIs
      <4> QED
        BY <4>1 DEF InLast
    <3>2. CASE q.last # {}
      <4>1. PICK l \in q.last : TRUE
        BY <3>2
      <4>2. queryMinute - Row[r].ts <= Minutes(l[1], l[2])
        BY <1>7, <4>1 DEF Wanted
      <4>3. Max(p.last) = Minutes(l[1], l[2])
        BY <1>1, <4>1, ParseIs
      <4> QED
        BY <4>2, <4>3 DEF InLast
    <3> QED
      BY <3>1, <3>2
  <2>6. r \in Selected(p)
    BY <2>3, <2>4, <2>5 DEF Selected
  <2> QED
    BY <1>2, <2>2, <2>6
<1>8. Cardinality(lines) <= p.limit
  BY <1>4, <1>5
<1> QED
  BY <1>6, <1>7, <1>8

LEMMA AnswerKept ==
  ASSUME ThorQLInv, request' = request, client' = client,
         rows \subseteq rows', queryMinute' \in {queryMinute, queryMinute + 1}
  PROVE  RunningOK' /\ AnsweredOK'
<1>1. RunningOK'
  BY DEF ThorQLInv, RunningOK
<1>2. queryMinute \in Nat
  BY HuntNumbers DEF ThorQLInv, ThorQLTypeOK
<1>3. AnsweredOK'
  <2>1. SUFFICES ASSUME request.phase = "answered", request.code = 200
                 PROVE  /\ Asked(request.asked) /\ request.base \subseteq RowIds
                        /\ Cardinality(request.lines) <= request.parsed.limit
                        /\ request.alert => UNION request.lines # {}
                        /\ client /\ Cardinality(request.lines) < request.parsed.limit =>
                             \A r \in request.base : Wanted(r, request.asked, queryMinute') => r \in UNION request.lines
    BY DEF AnsweredOK
  <2>2. /\ Asked(request.asked) /\ request.base \subseteq RowIds
        /\ Cardinality(request.lines) <= request.parsed.limit
        /\ request.alert => UNION request.lines # {}
        /\ client /\ Cardinality(request.lines) < request.parsed.limit =>
             \A r \in request.base : Wanted(r, request.asked, queryMinute) => r \in UNION request.lines
    BY <2>1 DEF ThorQLInv, AnsweredOK
  <2>3. \A r \in request.base : Wanted(r, request.asked, queryMinute') => Wanted(r, request.asked, queryMinute)
    BY <1>2, <2>2, WantedEarlier
  <2> QED
    BY <2>2, <2>3
<1> QED
  BY <1>1, <1>3

LEMMA QueryKeeps ==
  ASSUME ThorQLInv, NEW q, ClausesOK(q), ExecuteQuery(q)
  PROVE  ThorQLInv'
<1>1. /\ queryMinute' = queryMinute /\ client' = client /\ rows' = rows
      /\ request' = IF q.source \notin QuerySources \/ Forbidden(q)
                    THEN [phase |-> "answered", code |-> 400, asked |-> q]
                    ELSE [phase |-> "running", asked |-> q, parsed |-> Parse(q), base |-> rows]
  BY DEF ExecuteQuery
<1>2. CASE q.source \notin QuerySources \/ Forbidden(q)
  BY <1>1, <1>2 DEF ThorQLInv, ThorQLTypeOK, RunningOK, AnsweredOK
<1>3. CASE ~(q.source \notin QuerySources \/ Forbidden(q))
  <2>1. request' = [phase |-> "running", asked |-> q, parsed |-> Parse(q), base |-> rows] /\ Asked(q)
    BY <1>1, <1>3 DEF Asked
  <2> QED
    BY <1>1, <2>1 DEF ThorQLInv, ThorQLTypeOK, RunningOK, AnsweredOK
<1> QED
  BY <1>2, <1>3

LEMMA ReadKeeps ==
  ASSUME ThorQLInv, Read
  PROVE  ThorQLInv'
<1> DEFINE p == request.parsed
           done(lines) == [phase |-> "answered", code |-> 200, asked |-> request.asked,
                           parsed |-> p, base |-> request.base, lines |-> lines,
                           alert |-> p.alert # {} /\ lines # {}]
<1>1. /\ request.phase = "running" /\ queryMinute' = queryMinute /\ client' = client /\ rows' = rows
      /\ \/ ~client /\ Respond({})
         \/ request' = [phase |-> "answered", code |-> 500, asked |-> request.asked]
         \/ client /\ \E lines \in kSubset(Min({p.limit, Cardinality(Lines(p))}), Lines(p)) : Respond(lines)
  BY DEF Read
<1>2. Asked(request.asked) /\ p = Parse(request.asked) /\ request.base \subseteq RowIds
  BY <1>1 DEF ThorQLInv, RunningOK, ThorQLTypeOK
<1>3. CASE request' = [phase |-> "answered", code |-> 500, asked |-> request.asked]
  BY <1>1, <1>3 DEF ThorQLInv, ThorQLTypeOK, RunningOK, AnsweredOK
<1>4. CASE ~client /\ Respond({})
  <2>1. request' = done({})
    BY <1>4 DEF Respond
  <2>2. Cardinality({}) = 0 /\ p.limit \in Nat
    BY <1>2, ParseIs, FS_EmptySet
  <2> QED
    BY <1>1, <1>2, <1>4, <2>1, <2>2 DEF ThorQLInv, ThorQLTypeOK, RunningOK, AnsweredOK
<1>5. CASE client /\ \E lines \in kSubset(Min({p.limit, Cardinality(Lines(p))}), Lines(p)) : Respond(lines)
  <2>1. PICK lines \in kSubset(Min({p.limit, Cardinality(Lines(p))}), Lines(p)) : Respond(lines)
    BY <1>5
  <2>2. request' = done(lines)
    BY <2>1 DEF Respond
  <2>3. /\ Cardinality(lines) <= p.limit /\ (lines # {} => UNION lines # {})
        /\ Cardinality(lines) < p.limit =>
             \A r \in request.base : Wanted(r, request.asked, queryMinute) => r \in UNION lines
    BY <1>1, <1>5, ReadCovers
  <2>4. /\ request'.phase = "answered" /\ request'.asked = request.asked /\ request'.parsed = p
        /\ request'.base = request.base /\ request'.lines = lines /\ (request'.alert => lines # {})
    BY <2>2
  <2>5. RunningOK'
    BY <2>4 DEF RunningOK
  <2>6. AnsweredOK'
    BY <1>1, <1>2, <2>3, <2>4 DEF AnsweredOK
  <2> QED
    BY <1>1, <2>4, <2>5, <2>6 DEF ThorQLInv, ThorQLTypeOK
<1> QED
  BY <1>1, <1>3, <1>4, <1>5

LEMMA ThorQLStep == ThorQLInv /\ [ThorQLNext]_thorqlVars => ThorQLInv'
<1> SUFFICES ASSUME ThorQLInv, [ThorQLNext]_thorqlVars
             PROVE  ThorQLInv'
  OBVIOUS
<1>1. ASSUME NEW got \in SUBSET (RowIds \ rows), AddRows(got) PROVE ThorQLInv'
  <2>1. /\ rows' = rows \cup got /\ got \subseteq RowIds
        /\ queryMinute' = queryMinute /\ client' = client /\ request' = request
    BY <1>1 DEF AddRows
  <2>2. RunningOK' /\ AnsweredOK'
    BY <2>1, AnswerKept
  <2> QED
    BY <2>1, <2>2 DEF ThorQLInv, ThorQLTypeOK
<1>2. CASE NextQueryMinute
  <2>1. /\ queryMinute' = queryMinute + 1 /\ queryMinute < LastQueryMinute
        /\ rows' = rows /\ client' = client /\ request' = request
    BY <1>2 DEF NextQueryMinute
  <2>2. RunningOK' /\ AnsweredOK'
    BY <2>1, AnswerKept
  <2> QED
    BY <2>1, <2>2, HuntNumbers DEF ThorQLInv, ThorQLTypeOK
<1>3. ASSUME NEW q \in Queries, ExecuteQuery(q) PROVE ThorQLInv'
  BY <1>3, QueryKeeps, ThorQLAssumption DEF ThorQLAssumption
<1>4. ASSUME NEW h \in DOMAIN Hunts, ExecuteHunt(h) PROVE ThorQLInv'
  BY <1>4, QueryKeeps, SavedHuntsOK DEF ExecuteHunt
<1>5. CASE Read
  BY <1>5, ReadKeeps
<1>6. CASE Sent
  BY <1>6 DEF Sent, QueryIdle, ThorQLInv, ThorQLTypeOK, RunningOK, AnsweredOK
<1>7. CASE UNCHANGED thorqlVars
  BY <1>7 DEF thorqlVars, ThorQLInv, ThorQLTypeOK, RunningOK, AnsweredOK
<1> QED
  BY <1>1, <1>2, <1>3, <1>4, <1>5, <1>6, <1>7 DEF ThorQLNext

LEMMA ThorQLStarts == ThorQLInit => ThorQLInv
  BY ThorQLAssumption DEF ThorQLAssumption, ThorQLInit, QueryIdle, ThorQLInv, ThorQLTypeOK, RunningOK, AnsweredOK

LEMMA ThorQLHolds == ThorQLInv => HuntingSound
  BY DEF ThorQLInv, HuntingSound, AnsweredOK, AnswerCoversQuestion, Wanted

-----------------------------------------------------------------------------
(* What the API serves: no client gets more requests through than its      *)
(* limit says or is told a false time to wait; pages, hunts, investigations *)
(* and sums of minutes miss nothing; the answer to a query covers its      *)
(* question (rate_limit.py, rate_limiter.py, routes/forensics.py,          *)
(* thorql/executor.py).                                                    *)
THEOREM RequestsAreAlwaysSound == RequestsSpec => []RequestsSound
<1>1. LimiterSpec => []LimiterInv
  BY LimiterStarts, LimiterStep, PTL DEF LimiterSpec
<1>2. ForensicsSpec => []ForensicsInv
  BY ForensicsStarts, ForensicsStep, PTL DEF ForensicsSpec
<1>3. ThorQLSpec => []ThorQLInv
  BY ThorQLStarts, ThorQLStep, PTL DEF ThorQLSpec
<1>4. LimiterInv /\ ForensicsInv /\ ThorQLInv => RequestsSound
  BY LimiterHolds, ForensicsHolds, ThorQLHolds DEF RequestsSound
<1> QED
  BY <1>1, <1>2, <1>3, <1>4, PTL DEF RequestsSpec
=============================================================================
