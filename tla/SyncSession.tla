----------------------------- MODULE SyncSession -----------------------------
(***************************************************************************)
(* Merkle-guided anti-entropy between the nodes of one bucket (spec.md     *)
(* sections 4.B, 4.G and 4.H), together with the writes of the /batch      *)
(* handler of src/io/server.go and their best-effort broadcast, under the  *)
(* replication policies Shared and Cloud of src/io/server.go.             *)
(*                                                                         *)
(* Every node may run one outgoing session at a time (its initiator) and   *)
(* answers the sessions others start with it; the responder half of the    *)
(* session that i initiates is kept with i's session.  The protocol is     *)
(* half duplex: at most one request from i and one reply to i are in      *)
(* flight.                                                                 *)
(*                                                                         *)
(* The Merkle tree is the complete binary tree of depth Depth numbered     *)
(* from the root 1 (left(x) = 2x, right(x) = 2x + 1); key k lives under    *)
(* leaf LeafOf[k].  A node hash is the XOR of the hashes of the siblings   *)
(* below it; here it is the content below the node itself, so two hashes  *)
(* are equal exactly when the contents are (a collision of the 128-bit    *)
(* hash is not modelled).  A key's sibling set is abstracted to the set of *)
(* writes it has seen, and merging two sets is their union: what the      *)
(* properties ask is which writes have reached which node.  Both peers    *)
(* use the same depth, so depth translation is the identity.              *)
(***************************************************************************)
EXTENDS Naturals, FiniteSets

CONSTANTS Node,           \* the nodes replicating the bucket
          Key,            \* the keys written
          LeafOf,         \* LeafOf[k]: the Merkle leaf of key k
          Depth,          \* depth of the Merkle tree
          Policy,         \* Policy[n]: "shared" or "cloud", n's policy for the bucket
          CloudPeer,      \* the node whose peer ID is "cloud"
          MaxWrites,      \* bound on writes
          MaxDisconnects, \* bound on connections lost mid-session
          NoMsg,          \* no message in flight
          NoCursor        \* the responder has not opened its leaf cursor

VARIABLES db,        \* db[n][k]: the writes n holds for key k
          nextW,     \* the id of the next write
          bcast,     \* broadcast updates in flight
          st,        \* st[i]: state of i's initiator session, "idle" when none
          peer,      \* peer[i]: the responder of i's session
          cur,       \* cur[i]: the session's currentNode
          req,       \* req[i]: the request from i to its responder in flight
          rep,       \* rep[i]: the reply to i in flight
          rcur,      \* rcur[i]: the responder's cursor over the keys of a leaf
          drops      \* connections lost so far

vars == <<db, nextW, bcast, st, peer, cur, req, rep, rcur, drops>>

Root == 1
IsLeaf(x) == x >= 2 ^ (Depth - 1)

\* The keys whose leaf is x or lies below x.
KeysUnder(x) == {k \in Key : \E j \in 0..Depth - 1 : LeafOf[k] \div (2 ^ j) = x}

\* What NodeHash(x) of n's tree stands for.
Content(n, x) == [k \in KeysUnder(x) |-> db[n][k]]

\* Shared.ShouldReplicateOutgoing and Cloud.ShouldReplicateOutgoing
ShouldReplicateOutgoing(n, p) == Policy[n] = "shared"

\* Shared.ShouldReplicateIncoming and Cloud.ShouldReplicateIncoming
ShouldReplicateIncoming(n, p) == Policy[n] = "shared" \/ p = CloudPeer

Init ==
    /\ db = [n \in Node |-> [k \in Key |-> {}]]
    /\ nextW = 1
    /\ bcast = {}
    /\ st = [i \in Node |-> "idle"]
    /\ peer = [i \in Node |-> i]
    /\ cur = [i \in Node |-> Root]
    /\ req = [i \in Node |-> NoMsg]
    /\ rep = [i \in Node |-> NoMsg]
    /\ rcur = [i \in Node |-> NoCursor]
    /\ drops = 0

-----------------------------------------------------------------------------
(* Writes and broadcast                                                    *)

\* POST /{bucket}/batch: Node.Batch applies the update, and every updated
\* key's sibling set is handed to BroadcastUpdate, which sends it to the
\* peers the bucket's policy replicates to.  A failing batch changes
\* nothing and broadcasts nothing.
Write(n, k) ==
    /\ nextW <= MaxWrites
    /\ db' = [db EXCEPT ![n][k] = @ \cup {nextW}]
    /\ nextW' = nextW + 1
    /\ bcast' = bcast \cup {[from |-> n, to |-> p, key |-> k, val |-> db'[n][k]] :
                              p \in {q \in Node \ {n} : ShouldReplicateOutgoing(n, q)}}
    /\ UNCHANGED <<st, peer, cur, req, rep, rcur, drops>>

\* A broadcast SYNC_PUSH_MESSAGE arrives; it is merged if the receiver
\* replicates incoming data from the sender.
DeliverBroadcast(m) ==
    /\ m \in bcast
    /\ bcast' = bcast \ {m}
    /\ db' = IF ShouldReplicateIncoming(m.to, m.from)
             THEN [db EXCEPT ![m.to][m.key] = @ \cup m.val]
             ELSE db
    /\ UNCHANGED <<nextW, st, peer, cur, req, rep, rcur, drops>>

\* Broadcasts are best effort: one may be lost.
LoseBroadcast(m) ==
    /\ m \in bcast
    /\ bcast' = bcast \ {m}
    /\ UNCHANGED <<db, nextW, st, peer, cur, req, rep, rcur, drops>>

-----------------------------------------------------------------------------
(* Initiator                                                               *)

\* END: the session slot is given back and the session object, with its
\* currentNode and the responder's cursor, is dropped.
End(i) ==
    /\ st' = [st EXCEPT ![i] = "idle"]
    /\ req' = [req EXCEPT ![i] = NoMsg]
    /\ cur' = [cur EXCEPT ![i] = Root]
    /\ peer' = [peer EXCEPT ![i] = i]
    /\ rcur' = [rcur EXCEPT ![i] = NoCursor]

\* The hash at x differs: descend into x, towards its left child, or ask
\* for the objects of x if it is a leaf.
Descend(i, x) ==
    /\ cur' = [cur EXCEPT ![i] = x]
    /\ IF IsLeaf(x)
       THEN /\ st' = [st EXCEPT ![i] = "PUSH"]
            /\ req' = [req EXCEPT ![i] = [type |-> "NEXT", node |-> x]]
       ELSE /\ st' = [st EXCEPT ![i] = "LEFT"]
            /\ req' = [req EXCEPT ![i] = [type |-> "HASH", node |-> 2 * x]]

\* The sync controller starts a session with a peer its policy lets it
\* pull from: START -> HANDSHAKE, emitting SYNC_START.
Initiate(i, q) ==
    /\ st[i] = "idle"
    /\ q # i
    /\ ShouldReplicateIncoming(i, q)
    /\ st' = [st EXCEPT ![i] = "HANDSHAKE"]
    /\ peer' = [peer EXCEPT ![i] = q]
    /\ cur' = [cur EXCEPT ![i] = Root]
    /\ req' = [req EXCEPT ![i] = [type |-> "START"]]
    /\ rcur' = [rcur EXCEPT ![i] = NoCursor]
    /\ UNCHANGED <<db, nextW, bcast, rep, drops>>

\* HANDSHAKE: a SYNC_START reply moves to ROOT_HASH_COMPARE and sends the
\* root's hash; anything else ends the session.
Handshake(i) ==
    /\ st[i] = "HANDSHAKE"
    /\ rep[i] # NoMsg
    /\ IF rep[i].type = "START"
       THEN /\ st' = [st EXCEPT ![i] = "ROOT"]
            /\ req' = [req EXCEPT ![i] = [type |-> "HASH", node |-> Root]]
            /\ UNCHANGED <<cur, peer, rcur>>
       ELSE End(i)
    /\ rep' = [rep EXCEPT ![i] = NoMsg]
    /\ UNCHANGED <<db, nextW, bcast, drops>>

\* The reply carries the hash the responder has at the node asked for.
Matches(i) == rep[i].type = "HASH" /\ rep[i].content = Content(i, rep[i].node)

\* ROOT_HASH_COMPARE: equal roots, or a reply that is not a hash, end the
\* session; a differing root is descended into.
RootCompare(i) ==
    /\ st[i] = "ROOT"
    /\ rep[i] # NoMsg
    /\ IF rep[i].type # "HASH" \/ Matches(i)
       THEN End(i)
       ELSE Descend(i, Root) /\ UNCHANGED <<peer, rcur>>
    /\ rep' = [rep EXCEPT ![i] = NoMsg]
    /\ UNCHANGED <<db, nextW, bcast, drops>>

\* Mutation of LeftCompare: a matching left child ends the session.
LeftCompareMatchEnds(i) ==
    /\ st[i] = "LEFT"
    /\ rep[i] # NoMsg
    /\ IF rep[i].type # "HASH" \/ Matches(i)
       THEN End(i)
       ELSE Descend(i, 2 * cur[i]) /\ UNCHANGED <<peer, rcur>>
    /\ rep' = [rep EXCEPT ![i] = NoMsg]
    /\ UNCHANGED <<db, nextW, bcast, drops>>

\* LEFT_HASH_COMPARE at currentNode x, comparing left(x): equal moves on
\* to right(x) with currentNode unchanged, differing descends into left(x).
LeftCompare(i) ==
    /\ st[i] = "LEFT"
    /\ rep[i] # NoMsg
    /\ CASE rep[i].type # "HASH" -> End(i)
         [] Matches(i) -> /\ st' = [st EXCEPT ![i] = "RIGHT"]
                          /\ req' = [req EXCEPT ![i] = [type |-> "HASH", node |-> 2 * cur[i] + 1]]
                          /\ UNCHANGED <<cur, peer, rcur>>
         [] OTHER -> Descend(i, 2 * cur[i]) /\ UNCHANGED <<peer, rcur>>
    /\ rep' = [rep EXCEPT ![i] = NoMsg]
    /\ UNCHANGED <<db, nextW, bcast, drops>>

\* RIGHT_HASH_COMPARE at currentNode x, comparing right(x): equal ends the
\* session, differing descends into right(x).
RightCompare(i) ==
    /\ st[i] = "RIGHT"
    /\ rep[i] # NoMsg
    /\ IF rep[i].type # "HASH" \/ Matches(i)
       THEN End(i)
       ELSE Descend(i, 2 * cur[i] + 1) /\ UNCHANGED <<peer, rcur>>
    /\ rep' = [rep EXCEPT ![i] = NoMsg]
    /\ UNCHANGED <<db, nextW, bcast, drops>>

\* DB_OBJECT_PUSH: a pushed key is merged into the local bucket and the next
\* object is asked for; SYNC_ABORT ends the session.
ObjectPush(i) ==
    /\ st[i] = "PUSH"
    /\ rep[i] # NoMsg
    /\ IF rep[i].type = "PUSH"
       THEN /\ db' = [db EXCEPT ![i][rep[i].key] = @ \cup rep[i].val]
            /\ req' = [req EXCEPT ![i] = [type |-> "NEXT", node |-> cur[i]]]
            /\ UNCHANGED <<st, cur, peer, rcur>>
       ELSE /\ End(i)
            /\ UNCHANGED db
    /\ rep' = [rep EXCEPT ![i] = NoMsg]
    /\ UNCHANGED <<nextW, bcast, drops>>

-----------------------------------------------------------------------------
(* Responder: the session i started is answered by peer[i].                *)

\* SYNC_START: the session is accepted if the responder's policy
\* replicates its data to the initiator, and refused with SYNC_ABORT if not.
RespondStart(i) ==
    /\ req[i] # NoMsg
    /\ req[i].type = "START"
    /\ rep' = [rep EXCEPT ![i] = IF ShouldReplicateOutgoing(peer[i], i)
                                 THEN [type |-> "START"]
                                 ELSE [type |-> "ABORT"]]
    /\ req' = [req EXCEPT ![i] = NoMsg]
    /\ UNCHANGED <<db, nextW, bcast, st, peer, cur, rcur, drops>>

\* SYNC_NODE_HASH: reply with the local hash at the node, as it is now.
RespondHash(i) ==
    /\ req[i] # NoMsg
    /\ req[i].type = "HASH"
    /\ rep' = [rep EXCEPT ![i] = [type |-> "HASH", node |-> req[i].node,
                                  content |-> Content(peer[i], req[i].node)]]
    /\ req' = [req EXCEPT ![i] = NoMsg]
    /\ UNCHANGED <<db, nextW, bcast, st, peer, cur, rcur, drops>>

\* Mutation of RespondNext: the cursor is not advanced past the key pushed.
RespondNextNoAdvance(i) ==
    /\ req[i] # NoMsg
    /\ req[i].type = "NEXT"
    /\ LET q == peer[i]
           c == IF rcur[i] = NoCursor
                THEN {k \in KeysUnder(req[i].node) : db[q][k] # {}}
                ELSE rcur[i]
       IN IF c = {}
          THEN /\ rep' = [rep EXCEPT ![i] = [type |-> "ABORT"]]
               /\ rcur' = [rcur EXCEPT ![i] = {}]
          ELSE \E k \in c :
                  /\ rep' = [rep EXCEPT ![i] = [type |-> "PUSH", key |-> k, val |-> db[q][k]]]
                  /\ rcur' = [rcur EXCEPT ![i] = c]
    /\ req' = [req EXCEPT ![i] = NoMsg]
    /\ UNCHANGED <<db, nextW, bcast, st, peer, cur, drops>>

\* SYNC_OBJECT_NEXT: the first one opens a cursor over the keys stored
\* under the leaf; each one pushes the next key with its sibling set, and
\* SYNC_ABORT answers once the cursor is exhausted.
RespondNext(i) ==
    /\ req[i] # NoMsg
    /\ req[i].type = "NEXT"
    /\ LET q == peer[i]
           c == IF rcur[i] = NoCursor
                THEN {k \in KeysUnder(req[i].node) : db[q][k] # {}}
                ELSE rcur[i]
       IN IF c = {}
          THEN /\ rep' = [rep EXCEPT ![i] = [type |-> "ABORT"]]
               /\ rcur' = [rcur EXCEPT ![i] = {}]
          ELSE \E k \in c :
                  /\ rep' = [rep EXCEPT ![i] = [type |-> "PUSH", key |-> k, val |-> db[q][k]]]
                  /\ rcur' = [rcur EXCEPT ![i] = c \ {k}]
    /\ req' = [req EXCEPT ![i] = NoMsg]
    /\ UNCHANGED <<db, nextW, bcast, st, peer, cur, drops>>

\* The connection is lost: the side waiting reads a nil message, which ends
\* the session.
Disconnect(i) ==
    /\ st[i] # "idle"
    /\ drops < MaxDisconnects
    /\ End(i)
    /\ rep' = [rep EXCEPT ![i] = NoMsg]
    /\ drops' = drops + 1
    /\ UNCHANGED <<db, nextW, bcast>>

Next ==
    \/ \E n \in Node, k \in Key : Write(n, k)
    \/ \E m \in bcast : DeliverBroadcast(m) \/ LoseBroadcast(m)
    \/ \E i \in Node :
          \/ \E q \in Node : Initiate(i, q)
          \/ Handshake(i) \/ RootCompare(i) \/ LeftCompare(i) \/ RightCompare(i)
          \/ ObjectPush(i) \/ Disconnect(i)
          \/ RespondStart(i) \/ RespondHash(i) \/ RespondNext(i)

\* The sync controller starts sessions periodically with every peer the
\* policy lets it pull from, and both endpoints handle every message that
\* arrives.  Writes, the delivery of broadcasts and lost connections get
\* no fairness.
Fairness ==
    \A i \in Node :
        /\ \A q \in Node : WF_vars(Initiate(i, q))
        /\ WF_vars(Handshake(i)) /\ WF_vars(RootCompare(i))
        /\ WF_vars(LeftCompare(i)) /\ WF_vars(RightCompare(i))
        /\ WF_vars(ObjectPush(i)) /\ WF_vars(RespondStart(i))
        /\ WF_vars(RespondHash(i)) /\ WF_vars(RespondNext(i))

Spec == Init /\ [][Next]_vars /\ Fairness

-----------------------------------------------------------------------------

\* Every session ends: each step descends the tree, advances the leaf
\* cursor or ends, whatever writes and broadcasts change the two trees
\* while it runs (spec.md section 4.G, "Termination").
SessionTerminates == \A i \in Node : st[i] # "idle" ~> st[i] = "idle"

\* Anti-entropy repairs every divergence: once writes stop, repeated
\* sessions leave every node holding every write, lost broadcasts included
\* (spec.md section 4.H, "losses are later repaired by Merkle sync").
\* Sessions repair one leaf each, the leftmost that differs, so this needs
\* the descent to move right when a left subtree matches.
Converges == <>[](\A n, m \in Node : db[n] = db[m])

=============================================================================
