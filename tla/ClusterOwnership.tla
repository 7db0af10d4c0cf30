--------------------------- MODULE ClusterOwnership ---------------------------
(***************************************************************************)
(* What the cluster state promises its readers (spec.md section 2, "Cluster *)
(* state"): a set of ring members, and for every token exactly one owner   *)
(* and for every partition replica exactly one holder, 0 meaning nobody.  *)
(* Ownership is a function, so "exactly one" holds by construction; what   *)
(* the abstraction says is how it may change: a node joins with nothing, a  *)
(* member takes a token or a replica from whoever had it, and a member     *)
(* that leaves gives up everything it had.  Only members own anything.     *)
(***************************************************************************)
CONSTANTS NodeID,            \* non-zero node IDs
          Token,             \* the tokens of the ring
          PartitionReplica   \* the <<partition, replica>> pairs

VARIABLES members, owner, holder

vars == <<members, owner, holder>>

Nobody == 0

Init ==
    /\ members = {}
    /\ owner = [t \in Token |-> Nobody]
    /\ holder = [pr \in PartitionReplica |-> Nobody]

Join(n) ==
    /\ n \notin members
    /\ members' = members \cup {n}
    /\ UNCHANGED <<owner, holder>>

\* Everything a leaving member owned or held goes to nobody.
Leave(n) ==
    /\ n \in members
    /\ members' = members \ {n}
    /\ owner' = [t \in Token |-> IF owner[t] = n THEN Nobody ELSE owner[t]]
    /\ holder' = [pr \in PartitionReplica |-> IF holder[pr] = n THEN Nobody ELSE holder[pr]]

TakeToken(n, t) ==
    /\ n \in members
    /\ owner' = [owner EXCEPT ![t] = n]
    /\ UNCHANGED <<members, holder>>

TakeReplica(n, pr) ==
    /\ n \in members
    /\ holder' = [holder EXCEPT ![pr] = n]
    /\ UNCHANGED <<members, owner>>

Next ==
    \E n \in NodeID :
        \/ Join(n) \/ Leave(n)
        \/ \E t \in Token : TakeToken(n, t)
        \/ \E pr \in PartitionReplica : TakeReplica(n, pr)

Spec == Init /\ [][Next]_vars

=============================================================================
