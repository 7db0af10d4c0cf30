----------------------------- MODULE Replication ----------------------------
(***************************************************************************)
(* The replicas of one key of one bucket, on several nodes.               *)
(*                                                                         *)
(* Each node keeps the key's sibling set.  A client write goes through    *)
(* the /{bucket}/batch handler of src/io/server.go: the bucket's Batch     *)
(* (Event, Discard, add the new sibling, one atomic storage batch) and     *)
(* then BroadcastUpdate of the updated set to the peers, best effort.      *)
(* Independently nodes run anti-entropy sessions in which the initiator    *)
(* merges the responder's set (Sync), and the garbage collector of         *)
(* src/gc.go purges sets that hold only old tombstones.                    *)
(*                                                                         *)
(* Keys are independent in every one of these operations (Batch, Merge,    *)
(* the session and the sweep act on each key separately), so one key is   *)
(* enough.                                                                 *)
(***************************************************************************)
EXTENDS SiblingSet

CONSTANTS MaxEvents,     \* bound on client writes
          MaxTime,       \* bound on the clock of the timestamps
          PurgeAge       \* gcPurgeAge of the garbage collector

VARIABLES sets,          \* sets[r]: the key's sibling set at node r
          msgs,          \* broadcast pushes in flight: [to, set]
          now,           \* the clock that stamps siblings
          nextEid        \* ghost: identity of the next write

vars == <<sets, msgs, now, nextEid>>

Eids == 1..MaxEvents

Sibling ==
    [clock : [node : ReplicaID, count : 1..MaxEvents,
              context : [ReplicaID -> 0..MaxEvents]],
     value : Value \cup {Tombstone}, timestamp : 0..MaxTime,
     eid : Eids, past : SUBSET Eids]

\* The writes a client has observed when it read the set S.
Observed(S) == UNION { {s.eid} \cup s.past : s \in S }

Init ==
    /\ sets = [r \in ReplicaID |-> {}]
    /\ msgs = {}
    /\ now = 0
    /\ nextEid = 1

\* A client that read the set `read` (from node q, or nothing) writes v or
\* deletes (v = Tombstone) through node r.  Bucket Batch: the new clock is
\* Event(S, Join(read), r); the siblings it happened after are discarded.
\* Then the handler broadcasts the updated set to every peer.
Batch(r, read, v) ==
    LET S     == sets[r]
        clock == Event(S, Join(read), r)
        new   == [clock |-> clock, value |-> v, timestamp |-> now,
                  eid |-> nextEid, past |-> Observed(read)]
        S2    == Discard(S, clock) \cup {new}
    IN /\ nextEid <= MaxEvents
       /\ clock.count <= MaxEvents
       /\ sets' = [sets EXCEPT ![r] = S2]
       /\ msgs' = msgs \cup { [to |-> q, set |-> S2] : q \in ReplicaID \ {r} }
       /\ nextEid' = nextEid + 1
       /\ UNCHANGED now

\* A broadcast push arrives: the bucket merges it into its set.
DeliverUpdate(m) ==
    /\ m \in msgs
    /\ sets' = [sets EXCEPT ![m.to] = Sync(@, m.set)]
    /\ msgs' = msgs \ {m}
    /\ UNCHANGED <<now, nextEid>>

\* Broadcast is best effort: a push may be lost.
DropUpdate(m) ==
    /\ m \in msgs
    /\ msgs' = msgs \ {m}
    /\ UNCHANGED <<sets, now, nextEid>>

\* An anti-entropy session initiated by r with responder q: the Merkle
\* comparison finds the key's leaf differing and q pushes its set, which r
\* merges.  (The session protocol itself is the SyncSession module.)
SyncPull(r, q) ==
    /\ sets' = [sets EXCEPT ![r] = Sync(@, sets[q])]
    /\ UNCHANGED <<msgs, now, nextEid>>

\* One sweep of the garbage collector at node r: the key is deleted when
\* its set can be purged at cutoff now - PurgeAge.
GarbageCollect(r) ==
    /\ sets[r] # {}
    /\ CanPurge(sets[r], now - PurgeAge)
    /\ sets' = [sets EXCEPT ![r] = {}]
    /\ UNCHANGED <<msgs, now, nextEid>>

Tick ==
    /\ now < MaxTime
    /\ now' = now + 1
    /\ UNCHANGED <<sets, msgs, nextEid>>

Next ==
    \/ \E r \in ReplicaID, v \in Value \cup {Tombstone} :
         \E read \in {sets[q] : q \in ReplicaID} \cup {{}} : Batch(r, read, v)
    \/ \E m \in msgs : DeliverUpdate(m) \/ DropUpdate(m)
    \/ \E r, q \in ReplicaID : r # q /\ SyncPull(r, q)
    \/ \E r \in ReplicaID : GarbageCollect(r)
    \/ Tick

\* Sessions are started periodically with every peer and the collector
\* runs on a timer, so both are weakly fair.  Clients, broadcasts and the
\* clock are not.
Fairness ==
    /\ \A r, q \in ReplicaID : r # q => WF_vars(SyncPull(r, q))
    /\ \A r \in ReplicaID : WF_vars(GarbageCollect(r))

Spec == Init /\ [][Next]_vars /\ Fairness

-----------------------------------------------------------------------------

TypeOK ==
    /\ sets \in [ReplicaID -> SUBSET Sibling]
    /\ msgs \subseteq [to : ReplicaID, set : SUBSET Sibling]
    /\ now \in 0..MaxTime
    /\ nextEid \in 1..MaxEvents + 1

\* Every sibling stored at a node or carried by a push.
Live == UNION ({sets[r] : r \in ReplicaID} \cup {m.set : m \in msgs})

\* The clocks tell the truth about causality: whenever one live sibling's
\* clock happened before another's, the second write really observed the
\* first, and equal clocks are the same write.  Sync and Discard delete a
\* sibling on the strength of these comparisons, so this is what makes
\* every deletion of a value by Batch, Merge and the sessions legitimate.
ClockOrderIsCausal ==
    \A a, b \in Live :
        /\ HappenedBefore(a.clock, b.clock) => a.eid \in b.past
        /\ ClockEquals(a.clock, b.clock) => a.eid = b.eid

\* Once clients stop writing, the sessions bring every node to the same
\* sibling set.
Converges ==
    <>[](\A r, q \in ReplicaID : sets[r] = sets[q])

\* With the collector running, nodes may keep passing an old tombstone back
\* and forth (one purges it, a session restores it from the other), so
\* they converge up to sets that every node may purge: once clients stop,
\* any two nodes eventually always hold the same set or only purgeable
\* tombstones.
AgreeUpToPurge ==
    \A r, q \in ReplicaID :
        \/ sets[r] = sets[q]
        \/ CanPurge(sets[r], now - PurgeAge) /\ CanPurge(sets[q], now - PurgeAge)

ConvergesUpToPurge == <>[]AgreeUpToPurge

=============================================================================
