---------------------------- MODULE ClusterState ----------------------------
(***************************************************************************)
(* The cluster state of src/cloud/cluster/state.go: ring members, token   *)
(* owners and partition-replica holders, changed by the commands the      *)
(* consensus apply loop executes one at a time.                            *)
(*                                                                         *)
(* The ownership is kept twice: Tokens[t] and Partitions[p][r].Holder on  *)
(* the one hand, each member's Tokens and PartitionReplicas sets on the    *)
(* other; every command must change both sides together.                   *)
(***************************************************************************)
EXTENDS Naturals, FiniteSets

CONSTANTS NodeID,            \* non-zero node IDs that may join
          Partitions,        \* ClusterSettings.Partitions
          ReplicationFactor  \* ClusterSettings.ReplicationFactor

ASSUME 0 \notin NodeID /\ Partitions > 0 /\ ReplicationFactor > 0

\* The state is built by Initialize once the settings are initialized, so
\* the token and partition indices are fixed.
Token == 0..Partitions - 1
PartitionReplica == (0..Partitions - 1) \X (0..ReplicationFactor - 1)

VARIABLES members,           \* the keys of clusterState.Nodes
          nodeTokens,        \* nodeTokens[n]: Nodes[n].Tokens
          nodeReplicas,      \* nodeReplicas[n]: Nodes[n].PartitionReplicas
          tokens,            \* tokens[t]: clusterState.Tokens[t], 0 = nobody
          holder             \* holder[<<p, r>>]: Partitions[p][r].Holder, 0 = nobody

vars == <<members, nodeTokens, nodeReplicas, tokens, holder>>

\* Initialize: every token and every partition replica unassigned.
Init ==
    /\ members = {}
    /\ nodeTokens = [n \in NodeID |-> {}]
    /\ nodeReplicas = [n \in NodeID |-> {}]
    /\ tokens = [t \in Token |-> 0]
    /\ holder = [pr \in PartitionReplica |-> 0]

\* Mutation of AddNode: the check for node ID 0 is left out.
AddNodeAnyID(n) ==
    /\ n \notin members
    /\ members' = members \cup {n}
    /\ nodeTokens' = [nodeTokens EXCEPT ![n] = {}]
    /\ nodeReplicas' = [nodeReplicas EXCEPT ![n] = {}]
    /\ UNCHANGED <<tokens, holder>>

\* AddNode: a node ID of 0, or one already a member, is ignored.  The new
\* member's configuration arrives with no tokens and no replicas.
AddNode(n) ==
    /\ n # 0 /\ n \notin members
    /\ members' = members \cup {n}
    /\ nodeTokens' = [nodeTokens EXCEPT ![n] = {}]
    /\ nodeReplicas' = [nodeReplicas EXCEPT ![n] = {}]
    /\ UNCHANGED <<tokens, holder>>

\* Mutation of RemoveNode: the loop over the node's tokens is left out.
RemoveNodeKeepTokens(n) ==
    /\ n \in members
    /\ holder' = [pr \in PartitionReplica |->
                    IF pr \in nodeReplicas[n] THEN 0 ELSE holder[pr]]
    /\ nodeReplicas' = [nodeReplicas EXCEPT ![n] = {}]
    /\ members' = members \ {n}
    /\ UNCHANGED <<tokens, nodeTokens>>

\* RemoveNode: every replica it held and every token it owned goes to
\* nobody, then the member is deleted.
RemoveNode(n) ==
    /\ n \in members
    /\ holder' = [pr \in PartitionReplica |->
                    IF pr \in nodeReplicas[n] THEN 0 ELSE holder[pr]]
    /\ tokens' = [t \in Token |-> IF t \in nodeTokens[n] THEN 0 ELSE tokens[t]]
    /\ nodeReplicas' = [nodeReplicas EXCEPT ![n] = {}]
    /\ nodeTokens' = [nodeTokens EXCEPT ![n] = {}]
    /\ members' = members \ {n}

\* Mutation of AssignToken: the current owner does not relinquish the token.
AssignTokenKeepOwner(n, t) ==
    /\ t \in Token
    /\ n \in members
    /\ nodeTokens' = [nodeTokens EXCEPT ![n] = @ \cup {t}]
    /\ tokens' = [tokens EXCEPT ![t] = n]
    /\ UNCHANGED <<members, nodeReplicas, holder>>

\* NodeConfig.takeToken / relinquishToken on the member's token set.
takeToken(nt, n, t) == [nt EXCEPT ![n] = @ \cup {t}]
relinquishToken(nt, n, t) == [nt EXCEPT ![n] = @ \ {t}]

\* NodeConfig.takePartitionReplica / relinquishPartitionReplica; Go also
\* deletes the emptied inner map, which is not observable.
takePartitionReplica(nr, n, pr) == [nr EXCEPT ![n] = @ \cup {pr}]
relinquishPartitionReplica(nr, n, pr) == [nr EXCEPT ![n] = @ \ {pr}]

\* AssignToken: ENoSuchToken for a token past the end, ENoSuchNode for a
\* non-member; otherwise the current owner, if any, relinquishes it.
AssignToken(n, t) ==
    /\ t \in Token
    /\ n \in members
    /\ LET owner == tokens[t]
           released == IF owner # 0 THEN relinquishToken(nodeTokens, owner, t)
                       ELSE nodeTokens
       IN nodeTokens' = takeToken(released, n, t)
    /\ tokens' = [tokens EXCEPT ![t] = n]
    /\ UNCHANGED <<members, nodeReplicas, holder>>

\* AssignPartitionReplica: ENoSuchPartition, ENoSuchNode and ENoSuchReplica
\* in that order; otherwise the current holder relinquishes the replica.
AssignPartitionReplica(p, r, n) ==
    /\ p < Partitions
    /\ n \in members
    /\ r < ReplicationFactor
    /\ LET cur == holder[<<p, r>>]
           released == IF cur # 0
                       THEN relinquishPartitionReplica(nodeReplicas, cur, <<p, r>>)
                       ELSE nodeReplicas
       IN nodeReplicas' = takePartitionReplica(released, n, <<p, r>>)
    /\ holder' = [holder EXCEPT ![<<p, r>>] = n]
    /\ UNCHANGED <<members, nodeTokens, tokens>>

\* The commands, with arguments that include the ones each error path
\* rejects (node 0, a token, partition or replica one past the end).
Next ==
    \/ \E n \in NodeID \cup {0} : AddNode(n) \/ RemoveNode(n)
    \/ \E n \in NodeID \cup {0}, t \in 0..Partitions : AssignToken(n, t)
    \/ \E n \in NodeID \cup {0}, p \in 0..Partitions, r \in 0..ReplicationFactor :
          AssignPartitionReplica(p, r, n)

Spec == Init /\ [][Next]_vars

-----------------------------------------------------------------------------

TypeOK ==
    /\ members \subseteq NodeID
    /\ nodeTokens \in [NodeID -> SUBSET Token]
    /\ nodeReplicas \in [NodeID -> SUBSET PartitionReplica]
    /\ tokens \in [Token -> NodeID \cup {0}]
    /\ holder \in [PartitionReplica -> NodeID \cup {0}]

\* "A token is owned by exactly one node at a time" (state.go): the token
\* table and the members' token sets describe the same ownership, and only
\* members own anything.  The same holds for partition-replica holders.
OwnershipConsistent ==
    /\ \A t \in Token, n \in NodeID :
          (tokens[t] = n) <=> (n \in members /\ t \in nodeTokens[n])
    /\ \A pr \in PartitionReplica, n \in NodeID :
          (holder[pr] = n) <=> (n \in members /\ pr \in nodeReplicas[n])

\* The ownership tables that readers consume (Tokens, Partitions[p][r].
\* Holder) implement the abstract ownership of spec.md section 2.  RemoveNode
\* finds what to clear through the leaving member's own sets, so this
\* holds only if those sets name exactly what the tables give it.
Ownership == INSTANCE ClusterOwnership WITH owner <- tokens

\* Every command changes the tables and the members the way the abstract
\* ownership allows: a join, a take from the previous owner, or a leave
\* that clears everything the member had, and nothing else.
OwnershipRefined == Ownership!Spec

=============================================================================
