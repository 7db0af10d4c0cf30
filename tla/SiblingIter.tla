----------------------------- MODULE SiblingIter -----------------------------
(***************************************************************************)
(* SiblingSet.CanPurge of src/siblingSet.go consuming SiblingSet.Iter.     *)
(*                                                                         *)
(* Iter makes an unbuffered channel and starts a goroutine that ranges     *)
(* over the set's map, sending each sibling, and closes the channel after  *)
(* the last one.  CanPurge ranges over that channel and returns false at   *)
(* the first sibling that is not a tombstone older than the cutoff.  A     *)
(* send on an unbuffered channel completes only when a receiver takes it,  *)
(* so the two goroutines meet at every sibling.  Go's map iteration order  *)
(* is unspecified: the producer picks the next unvisited sibling freely.  *)
(* A sibling is a model value; what CanPurge reads of it is whether it is  *)
(* a tombstone and whether its timestamp is below the cutoff.              *)
(***************************************************************************)

CONSTANTS Sib,     \* the siblings a set may hold
          NoSib    \* no sibling

VARIABLES set,       \* the siblings of the set CanPurge is called on
          tomb,      \* tomb[s]: s.IsTombstone()
          old,       \* old[s]: s.Timestamp() < timestampCutoff
          sent,      \* the siblings the map range of Iter has reached
          pending,   \* the sibling Iter's goroutine is blocked sending
          chClosed,  \* Iter's goroutine closed the channel
          prod,      \* Iter's goroutine: "range", "send" or "exited"
          cons,      \* CanPurge: "recv", "check" or "returned"
          got,       \* the sibling CanPurge received last
          result     \* CanPurge's return value once it returned

vars == <<set, tomb, old, sent, pending, chClosed, prod, cons, got, result>>

\* A set held for a key is never empty (spec.md section 2, invariant ii).
Init ==
    /\ set \in SUBSET Sib \ {{}}
    /\ tomb \in [Sib -> BOOLEAN]
    /\ old \in [Sib -> BOOLEAN]
    /\ sent = {}
    /\ pending = NoSib
    /\ chClosed = FALSE
    /\ prod = "range"
    /\ cons = "recv"
    /\ got = NoSib
    /\ result = FALSE

\* The map range of Iter's goroutine reaches a sibling it has not visited
\* and the goroutine blocks in `ch <- sibling`.
NextSibling ==
    /\ prod = "range"
    /\ \E s \in set \ sent :
          /\ pending' = s
          /\ sent' = sent \cup {s}
    /\ prod' = "send"
    /\ UNCHANGED <<set, tomb, old, chClosed, cons, got, result>>

\* The map range is over: close(ch), and the goroutine returns.
CloseCh ==
    /\ prod = "range"
    /\ sent = set
    /\ chClosed' = TRUE
    /\ prod' = "exited"
    /\ UNCHANGED <<set, tomb, old, sent, pending, cons, got, result>>

\* The send and CanPurge's receive in `range siblingSet.Iter()` meet.
Handoff ==
    /\ prod = "send"
    /\ cons = "recv"
    /\ got' = pending
    /\ pending' = NoSib
    /\ prod' = "range"
    /\ cons' = "check"
    /\ UNCHANGED <<set, tomb, old, sent, chClosed, result>>

\* The channel is closed and drained: CanPurge's loop ends, return true.
RangeEnds ==
    /\ cons = "recv"
    /\ chClosed
    /\ cons' = "returned"
    /\ result' = TRUE
    /\ UNCHANGED <<set, tomb, old, sent, pending, chClosed, prod, got>>

\* The loop body of CanPurge: a sibling that is not a tombstone, or whose
\* timestamp is not below the cutoff, makes it return false at once.
Check ==
    /\ cons = "check"
    /\ IF ~tomb[got] \/ ~old[got]
       THEN cons' = "returned" /\ result' = FALSE
       ELSE cons' = "recv" /\ UNCHANGED result
    /\ UNCHANGED <<set, tomb, old, sent, pending, chClosed, prod, got>>

\* CanPurge has returned to its caller; nothing else can happen to the
\* consumer, and a producer blocked in its send stays blocked.
Returned ==
    /\ cons = "returned"
    /\ UNCHANGED vars

Next == NextSibling \/ CloseCh \/ Handoff \/ RangeEnds \/ Check \/ Returned

\* Both goroutines are scheduled whenever they can run.
Spec ==
    /\ Init /\ [][Next]_vars
    /\ WF_vars(NextSibling) /\ WF_vars(CloseCh) /\ WF_vars(Handoff)
    /\ WF_vars(RangeEnds) /\ WF_vars(Check)

-----------------------------------------------------------------------------

\* Every goroutine Iter starts eventually returns, so a sweep that calls
\* CanPurge on every key does not leave goroutines behind.
IterExits == <>(prod = "exited")

=============================================================================
