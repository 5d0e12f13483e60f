---------------------------- MODULE DriftMonitor ----------------------------
(***************************************************************************)
(* Drift detection: ADWINDetector, DDMDetector and DriftMonitor of         *)
(* ml/online/drift_detector.py.  Risks are whole numbers, error rates are  *)
(* in thousandths.  The Page-Hinkley test is left out: process_flow()      *)
(* computes its verdict and uses it nowhere.                               *)
(***************************************************************************)
EXTENDS Naturals, Integers, Sequences, SequencesExt, FiniteSetsExt

CONSTANTS
  RiskValues,
  AdwinMin,    \* elements below which ADWIN says nothing (30)
  AdwinCut,    \* ln(2 / delta) / 2 in thousandths (3454)
  DdmMin,      \* elements below which DDM says nothing (30)
  MaxFlows     \* bound of this model: flows processed

ASSUME DriftAssumption == RiskValues \subseteq Int /\ MaxFlows \in Nat

VARIABLES
  buckets,   \* ADWINDetector._buckets: [n, total], oldest first
  ddm,       \* DDMDetector: [n, errors, pMin, sMin]
  alerts,    \* DriftMonitor._alerts: detector and status
  flowsSeen, \* _n_flows
  values     \* history: the risks that were processed

driftVars == <<buckets, ddm, alerts, flowsSeen, values>>

-----------------------------------------------------------------------------
Infinite == 100000

(* The largest whole number whose square is at most x.                     *)
Root(x) == CHOOSE k \in 0..500 : k * k <= x /\ x < (k + 1) * (k + 1)

DriftInit ==
  /\ buckets = <<>>
  /\ ddm = [n |-> 0, errors |-> 0, pMin |-> Infinite, sMin |-> Infinite]
  /\ alerts = <<>>
  /\ flowsSeen = 0
  /\ values = <<>>

SumOf(s) == FoldLeft(LAMBDA t, x : t + x, 0, s)
Elements(bs) == SumOf([k \in DOMAIN bs |-> bs[k].n])
Total(bs) == SumOf([k \in DOMAIN bs |-> bs[k].total])

(* Mutant: only the two newest buckets are compared, once.                 *)
MergedOnce(bs) ==
  LET k == Len(bs)
  IN IF k > 1 /\ bs[k].n = bs[k - 1].n
     THEN Append(SubSeq(bs, 1, k - 2),
                 [n |-> bs[k - 1].n + bs[k].n, total |-> bs[k - 1].total + bs[k].total])
     ELSE bs

(* _update_buckets(): from the newest on, as long as two neighbours are of *)
(* one size; further up no two are.                                        *)
Joined(b, done) ==
  IF done # <<>> /\ done[1].n = b.n
  THEN <<[n |-> b.n + done[1].n, total |-> b.total + done[1].total]>> \o Tail(done)
  ELSE <<b>> \o done
Merged(bs) == FoldRight(Joined, bs, <<>>)

(* _detect_change(): |m0 - m1| >= sqrt(cut * (1/n0 + 1/n1)) for some cut   *)
(* of the window; the older half of the buckets goes then.                 *)
Differs(bs, k) ==
  LET n0 == Elements(SubSeq(bs, 1, k))
      n1 == Elements(bs) - n0
      t0 == Total(SubSeq(bs, 1, k))
      t1 == Total(bs) - t0
      d == t0 * n1 - t1 * n0
  IN n1 > 0 /\ d * d * 1000 >= AdwinCut * (n0 + n1) * n0 * n1
Changed(bs) == Elements(bs) >= AdwinMin /\ \E k \in DOMAIN bs : Differs(bs, k)
Trimmed(bs) == SubSeq(bs, Len(bs) \div 2 + 1, Len(bs))

(* DDMDetector.add_element(): rate and deviation, their least sum so far,  *)
(* and the verdict; on a drift it starts anew.                             *)
DdmStep(isError) ==
  LET n == ddm.n + 1
      errors == ddm.errors + (IF isError THEN 1 ELSE 0)
      p == (errors * 1000) \div n
      s == IF n = 1 THEN 0 ELSE Root((p * (1000 - p)) \div n)
      least == p + s < ddm.pMin + ddm.sMin
      pMin == IF least THEN p ELSE ddm.pMin
      sMin == IF least THEN s ELSE ddm.sMin
      status == IF n < DdmMin THEN "stable"
                ELSE IF p + s > pMin + 3 * sMin THEN "drift"
                ELSE IF p + s > pMin + 2 * sMin THEN "warning" ELSE "stable"
  IN [status |-> status,
      next |-> IF status = "drift"
               THEN [n |-> 0, errors |-> 0, pMin |-> Infinite, sMin |-> Infinite]
               ELSE [n |-> n, errors |-> errors, pMin |-> pMin, sMin |-> sMin]]

(* process_flow(): ADWIN's verdict comes before DDM's.  Its logger takes   *)
(* no keywords: where INFO is logged, ADWIN's change raises before DDM or  *)
(* an alert is reached.  (An alert of a drift raises when it is appended,  *)
(* and is not returned.)                                                   *)
ProcessFlow(risk, isError, infoLogged) ==
  LET grown == Merged(Append(buckets, [n |-> 1, total |-> risk]))
      adwin == Changed(grown)
      d == DdmStep(isError)
  IN /\ flowsSeen < MaxFlows
     /\ flowsSeen' = flowsSeen + 1
     /\ values' = Append(values, risk)
     /\ buckets' = IF adwin THEN Trimmed(grown) ELSE grown
     /\ IF adwin /\ infoLogged THEN UNCHANGED <<ddm, alerts>>
        ELSE /\ ddm' = d.next
             /\ alerts' = IF adwin THEN Append(alerts, <<"adwin", "drift">>)
                          ELSE IF d.status = "stable" THEN alerts
                          ELSE Append(alerts, <<"ddm", d.status>>)

DriftNext ==
  \E risk \in RiskValues, isError, infoLogged \in BOOLEAN : ProcessFlow(risk, isError, infoLogged)

DriftSpec == DriftInit /\ [][DriftNext]_driftVars

-----------------------------------------------------------------------------
(* The variables keep their types.                                         *)
DriftTypeOK ==
  /\ flowsSeen \in 0..MaxFlows /\ ddm.errors \in 0..ddm.n
  /\ \A k \in DOMAIN alerts : alerts[k] \in {"adwin", "ddm"} \X {"drift", "warning"}

(* Merged and trimmed as they are, the buckets describe exactly the last   *)
(* so many risks, in their order, and their sizes fall strictly: a window  *)
(* of n elements takes no more than log2(n) + 1 buckets.                   *)
WindowIsSuffix ==
  LET n == Elements(buckets)
      window == SubSeq(values, Len(values) - n + 1, Len(values))
  IN /\ n <= Len(values)
     /\ \A k \in DOMAIN buckets :
          LET from == Elements(SubSeq(buckets, 1, k - 1))
          IN buckets[k].total = SumOf(SubSeq(window, from + 1, from + buckets[k].n))
     /\ \A k \in 2..Len(buckets) : 2 * buckets[k].n <= buckets[k - 1].n
=============================================================================
