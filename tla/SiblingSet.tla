----------------------------- MODULE SiblingSet -----------------------------
(***************************************************************************)
(* Causal versioning of one key: dotted version vectors (DVV) and the     *)
(* sibling-set operations of src/siblingSet.go.                            *)
(*                                                                         *)
(* The DVV type itself (Dot, HappenedBefore, Equals, MaxDot) lives in      *)
(* code outside src/ and is modelled from spec.md section 3.  A context    *)
(* map is a total function ReplicaID -> Nat in which an absent replica is  *)
(* 0, which is how spec.md compares contexts.                              *)
(*                                                                         *)
(* A sibling is a record with the fields of the Go Sibling (clock, value,  *)
(* timestamp) and two ghost fields that the code does not have: eid, the   *)
(* identity of the write that created it, and past, the writes the writer  *)
(* had really observed.  No operator below reads the ghost fields.         *)
(***************************************************************************)
EXTENDS Naturals, FiniteSets

CONSTANTS ReplicaID,     \* node IDs that issue dots
          Value,         \* non-tombstone values a client can write
          Tombstone      \* model value: the value of a deleted key

ASSUME Tombstone \notin Value

\* NewDVV(NewDot(replica, count), context)
NewDVV(replica, count, ctx) == [node |-> replica, count |-> count, context |-> ctx]

\* spec.md section 3: A happened before B iff every context entry of A is
\* at most B's, A's dot is covered by B's context, and one of these is strict.
HappenedBefore(a, b) ==
    /\ \A r \in ReplicaID : a.context[r] <= b.context[r]
    /\ a.count <= b.context[a.node]
    /\ \/ \E r \in ReplicaID : a.context[r] < b.context[r]
       \/ a.count < b.context[a.node]

ClockEquals(a, b) ==
    a.node = b.node /\ a.count = b.count /\ a.context = b.context

\* The largest counter of replica r that clock c mentions.
MaxDot(c, r) ==
    IF c.node = r /\ c.count > c.context[r] THEN c.count ELSE c.context[r]

IsTombstone(s) == s.value = Tombstone

-----------------------------------------------------------------------------
(* The operations of SiblingSet (src/siblingSet.go).                      *)

\* Mutation of Sync: the second loop tests the happened-before relation
\* with its arguments swapped.
SyncSwapped(mine, theirs) ==
    { m \in mine : ~\E t \in theirs : HappenedBefore(m.clock, t.clock)
                                      \/ ClockEquals(m.clock, t.clock) }
    \cup
    { t \in theirs : ~\E m \in mine : HappenedBefore(m.clock, t.clock) }

\* Sync: my siblings survive unless one of theirs happened after or equals
\* them; their siblings survive unless one of mine happened after them.
Sync(mine, theirs) ==
    { m \in mine : ~\E t \in theirs : HappenedBefore(m.clock, t.clock)
                                      \/ ClockEquals(m.clock, t.clock) }
    \cup
    { t \in theirs : ~\E m \in mine : HappenedBefore(t.clock, m.clock) }

\* Mutation of Join: every entry one too large.
JoinOffByOne(S) ==
    [r \in ReplicaID |->
        IF S = {} THEN 1
        ELSE LET dots == { MaxDot(s.clock, r) + 1 : s \in S }
             IN CHOOSE d \in dots : \A e \in dots : e <= d]

\* Join: per replica, the largest dot any sibling's clock mentions.
Join(S) ==
    [r \in ReplicaID |->
        IF S = {} THEN 0
        ELSE LET dots == { MaxDot(s.clock, r) : s \in S }
             IN CHOOSE d \in dots : \A e \in dots : e <= d]

\* Discard: keep the siblings that did not happen before clock.
Discard(S, clock) == { s \in S : ~HappenedBefore(s.clock, clock) }

\* Mutation of EventCount: the loop over the siblings' clocks is left out.
EventCountContextOnly(S, ctx, replica) == 1 + ctx[replica]

\* Event: the next dot of replica is one more than the largest counter of
\* replica in the context or in any sibling's clock.
EventCount(S, ctx, replica) ==
    LET counts == {ctx[replica]} \cup { MaxDot(s.clock, replica) : s \in S }
    IN 1 + (CHOOSE c \in counts : \A d \in counts : d <= c)

Event(S, ctx, replica) == NewDVV(replica, EventCount(S, ctx, replica), ctx)

IsTombstoneSet(S) == \A s \in S : IsTombstone(s)

CanPurge(S, timestampCutoff) ==
    \A s \in S : IsTombstone(s) /\ s.timestamp < timestampCutoff

\* Value: the single live value, or NoValue for a conflict or a tombstone.
SetValue(S, NoValue) ==
    IF Cardinality(S) # 1 \/ IsTombstoneSet(S) THEN NoValue
    ELSE (CHOOSE s \in S : TRUE).value

=============================================================================
