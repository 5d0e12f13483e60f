------------------------------ MODULE RowLedger ------------------------------
(***************************************************************************)
(* What a buffering ClickHouse writer promises about the rows it accepts,  *)
(* without its buffers, lock and tasks.                                    *)
(*                                                                         *)
(* Each table has the rows accepted and not yet settled, in the order they *)
(* were accepted.  The writer settles a run of oldest rows at once: either *)
(* the whole run goes to the table or the whole run is lost.  A row is     *)
(* therefore settled once, never both stored and lost, and never after a   *)
(* later row of its table.                                                 *)
(*                                                                         *)
(* Row identities are finite: a settled row's identity may be reused for a *)
(* later row (Forget), so behaviours are unbounded and states are not.     *)
(***************************************************************************)
EXTENDS Naturals, Sequences, SequencesExt

CONSTANTS
  Tables,   \* table names
  Rows,     \* row identities
  TableOf   \* TableOf[r]: the table row r belongs to

VARIABLES
  pending,  \* pending[t]: rows accepted for t and not settled, oldest first
  stored,   \* rows in the database
  lost      \* rows the writer dropped

ledger == <<pending, stored, lost>>

Settled == stored \cup lost
Live == Settled \cup UNION {ToSet(pending[t]) : t \in Tables}

LedgerInit ==
  /\ pending = [t \in Tables |-> <<>>]
  /\ stored = {}
  /\ lost = {}

Accept(r) ==
  /\ r \notin Live
  /\ pending' = [pending EXCEPT ![TableOf[r]] = Append(@, r)]
  /\ UNCHANGED <<stored, lost>>

Oldest(t, n) == ToSet(SubSeq(pending[t], 1, n))
Drop(t, n) == pending' = [pending EXCEPT ![t] = SubSeq(@, n + 1, Len(@))]

Store(t, n) ==
  /\ stored' = stored \cup Oldest(t, n)
  /\ Drop(t, n)
  /\ UNCHANGED lost

Lose(t, n) ==
  /\ lost' = lost \cup Oldest(t, n)
  /\ Drop(t, n)
  /\ UNCHANGED stored

Forget(r) ==
  /\ r \in Settled
  /\ stored' = stored \ {r}
  /\ lost' = lost \ {r}
  /\ UNCHANGED pending

LedgerNext ==
  \/ \E r \in Rows : Accept(r) \/ Forget(r)
  \/ \E t \in Tables : \E n \in 1..Len(pending[t]) : Store(t, n) \/ Lose(t, n)

LedgerSpec == LedgerInit /\ [][LedgerNext]_ledger
=============================================================================
