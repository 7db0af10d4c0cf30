-------------------------------- MODULE Agent --------------------------------
(***************************************************************************)
(* The replication agent of the cloud tier (spec.md section 4.E) and the   *)
(* read-repair scheduler it feeds (section 4.F), over the replicas of one  *)
(* key held by the nodes of one partition.                                 *)
(*                                                                         *)
(* The agent's code is not part of src/ (only its tests are, in            *)
(* src/clusterio/agent_test.go), so every action here is modelled from     *)
(* spec.md.  The buckets the calls reach are the SiblingSet operations of  *)
(* src/siblingSet.go.                                                      *)
(*                                                                         *)
(* A client operation o fans out one call per replica holder.  A call is   *)
(* "pending" until the node answers ("ok") or fails ("failed"); a call    *)
(* the agent's cancellation stops counts as failed.  A Batch call          *)
(* applies the update at the node when it succeeds, whether or not the     *)
(* agent is still waiting: cancellation races with the remote apply.       *)
(***************************************************************************)
EXTENDS SiblingSet

CONSTANTS MaxOps        \* bound on client operations (Batch or Get)

\* The replica holders of the partition: ReplicaID, the nodes that issue dots.
Node == ReplicaID

Ops == 1..MaxOps

VARIABLES sets,          \* sets[n]: the key's sibling set in node n's bucket
          kind,          \* kind[o]: "none", "batch" or "get"
          status,        \* status[o]: "idle", "running", "ok" or "noquorum"
          call,          \* call[o][n]: state of o's call to node n
          update,        \* update[o]: [read, value] of a Batch: the set the
                         \*   client read (its context is Join(read)), the value
          merger,        \* merger[o]: the read-merger of a Get
          result,        \* result[o]: the sets a Get returned with success
          handed,        \* the Gets whose merger went to read repair
          replies,       \* replies[o][n]: the set node n returned to Get o
          repairs,       \* read-repair jobs queued: [node, set]
          mustSee,       \* ghost: batches reported ok when Get o started
          nextOp

vars == <<sets, kind, status, call, update, merger, result, handed, replies, repairs,
          mustSee, nextOp>>

CallState == {"none", "pending", "ok", "failed"}

\* Mutation of NQuorum: half the replicas, rounded down.
NQuorumMinority(n) == n \div 2

\* NQuorum(n) = floor(n/2) + 1
NQuorum(n) == n \div 2 + 1

Q == NQuorum(Cardinality(Node))

\* The writes a client observed when it read the set S: the ghost fields.
Observed(S) == UNION { {s.eid} \cup s.past : s \in S }

Applied(o) == { n \in Node : call[o][n] = "ok" }
Failed(o)  == { n \in Node : call[o][n] = "failed" }
Pending(o) == { n \in Node : call[o][n] = "pending" }

Init ==
    /\ sets = [n \in Node |-> {}]
    /\ kind = [o \in Ops |-> "none"]
    /\ status = [o \in Ops |-> "idle"]
    /\ call = [o \in Ops |-> [n \in Node |-> "none"]]
    /\ update = [o \in Ops |-> [read |-> {}, value |-> CHOOSE v \in Value : TRUE]]
    /\ merger = [o \in Ops |-> {}]
    /\ result = [o \in Ops |-> {}]
    /\ handed = {}
    /\ replies = [o \in Ops |-> [n \in Node |-> {}]]
    /\ repairs = {}
    /\ mustSee = [o \in Ops |-> {}]
    /\ nextOp = 1

\* The sets a client may hold as the context of a write: nothing, or the
\* result of a Get that returned with a quorum.
ClientReads == {{}} \cup { result[o] : o \in { p \in Ops : kind[p] = "get" /\ status[p] = "ok" } }

\* Batch: issue the update to every holder of the partition concurrently.
StartBatch(read, v) ==
    LET o == nextOp IN
    /\ nextOp <= MaxOps
    /\ kind' = [kind EXCEPT ![o] = "batch"]
    /\ status' = [status EXCEPT ![o] = "running"]
    /\ call' = [call EXCEPT ![o] = [n \in Node |-> "pending"]]
    /\ update' = [update EXCEPT ![o] = [read |-> read, value |-> v]]
    /\ nextOp' = nextOp + 1
    /\ UNCHANGED <<sets, merger, result, handed, replies, repairs, mustSee>>

\* The hand-off of a finished Get: the merger and, for every node that did
\* not return exactly the merged set, a repair job.
RepairJobs(m, rep, cl) ==
    { [node |-> n, set |-> m] : n \in { k \in Node : cl[k] # "ok" \/ rep[k] # m } }

\* Operation o returns with outcome st, its calls now in state cl; a Get
\* returns m on success.  Its calls are not stopped: a Batch's outstanding
\* calls may still apply at the node (NodeBatch) or fail (NodeFail), and a
\* Get's go on merging into the read-merger until they all end or the
\* deadline fires (agent_test.go: "Should return before the deadline as
\* soon as quorum has been established", then BeginRepair after it).
Finish(o, st, m, cl) ==
    /\ status' = [status EXCEPT ![o] = st]
    /\ result' = IF kind[o] = "get" /\ st = "ok" THEN [result EXCEPT ![o] = m] ELSE result
    /\ call' = [call EXCEPT ![o] = cl]

\* A Get hands its read-merger to read repair once no call is outstanding
\* (all returned, or cancelled by the deadline), whether or not it reached
\* a quorum.
HandOff(o, m, rep, cl) ==
    /\ repairs' = repairs \cup RepairJobs(m, rep, cl)
    /\ handed' = handed \cup {o}

\* The bucket at node n applies Batch o: a new sibling with clock
\* Event(S, Join(read), n); the siblings that happened before it go.  The
\* agent counts the success if it is still waiting, and completes with
\* success once NQuorum(n) calls succeeded.
NodeBatch(o, n) ==
    LET S     == sets[n]
        read  == update[o].read
        clock == Event(S, Join(read), n)
        new   == [clock |-> clock, value |-> update[o].value, timestamp |-> 0,
                  eid |-> o, past |-> Observed(read)]
        cl    == [call[o] EXCEPT ![n] = "ok"]
    IN /\ kind[o] = "batch"
       /\ call[o][n] = "pending"
       /\ sets' = [sets EXCEPT ![n] = Discard(S, clock) \cup {new}]
       /\ IF status[o] = "running" /\ Cardinality(Applied(o)) + 1 >= Q
          THEN Finish(o, "ok", {}, cl)
          ELSE /\ call' = [call EXCEPT ![o] = cl]
               /\ UNCHANGED <<status, result>>
       /\ UNCHANGED <<kind, update, merger, replies, repairs, mustSee, handed, nextOp>>

\* Get: fan out the read; the client's completed batches are recorded.
StartGet ==
    LET o == nextOp IN
    /\ nextOp <= MaxOps
    /\ kind' = [kind EXCEPT ![o] = "get"]
    /\ status' = [status EXCEPT ![o] = "running"]
    /\ call' = [call EXCEPT ![o] = [n \in Node |-> "pending"]]
    /\ mustSee' = [mustSee EXCEPT ![o] = { p \in Ops : kind[p] = "batch" /\ status[p] = "ok" }]
    /\ nextOp' = nextOp + 1
    /\ UNCHANGED <<sets, update, merger, replies, repairs, result, handed>>

\* Node n answers Get o with its set, which the agent syncs into the
\* read-merger, before or after the Get returned.  While the Get is
\* running, a quorum returns the merger with success and the last call
\* outstanding ends it with NoQuorum; the last call also hands the merger
\* to read repair.
NodeGet(o, n) ==
    LET m   == Sync(merger[o], sets[n])
        rep == [replies[o] EXCEPT ![n] = sets[n]]
        cl  == [call[o] EXCEPT ![n] = "ok"]
        last == Pending(o) = {n}
    IN /\ kind[o] = "get"
       /\ call[o][n] = "pending"
       /\ merger' = [merger EXCEPT ![o] = m]
       /\ replies' = [replies EXCEPT ![o] = rep]
       /\ CASE status[o] = "running" /\ Cardinality(Applied(o)) + 1 >= Q -> Finish(o, "ok", m, cl)
            [] status[o] = "running" /\ last -> Finish(o, "noquorum", m, cl)
            [] OTHER -> /\ call' = [call EXCEPT ![o] = cl]
                        /\ UNCHANGED <<status, result>>
       /\ IF last THEN HandOff(o, m, rep, cl) ELSE UNCHANGED <<repairs, handed>>
       /\ UNCHANGED <<sets, kind, update, mustSee, nextOp>>

\* Node n's call fails: an error, the node is unreachable, or the
\* cancellation of a returned Batch reaches the call first.  A running
\* Batch gives up once more than n - NQuorum(n) calls failed; a Get once no
\* call is outstanding, and then hands its merger to read repair.
NodeFail(o, n) ==
    LET cl   == [call[o] EXCEPT ![n] = "failed"]
        last == Pending(o) = {n}
        ends == IF kind[o] = "batch"
                THEN Cardinality(Failed(o)) + 1 > Cardinality(Node) - Q
                ELSE last
    IN /\ call[o][n] = "pending"
       /\ IF status[o] = "running" /\ ends
          THEN Finish(o, "noquorum", merger[o], cl)
          ELSE /\ call' = [call EXCEPT ![o] = cl]
               /\ UNCHANGED <<status, result>>
       /\ IF kind[o] = "get" /\ last
          THEN HandOff(o, merger[o], replies[o], cl)
          ELSE UNCHANGED <<repairs, handed>>
       /\ UNCHANGED <<sets, kind, update, merger, replies, mustSee, nextOp>>

\* The agent's deadline fires.  A running operation returns NoQuorum with
\* whatever was reached.  A Get's outstanding calls are cancelled, so
\* their replies are dropped, and the merger goes to read repair.  A
\* Batch's outstanding calls race the cancellation at the nodes.
Deadline(o) ==
    /\ \/ status[o] = "running"
       \/ kind[o] = "get" /\ o \notin handed /\ Pending(o) # {}
    /\ IF kind[o] = "get"
       THEN LET cl == [n \in Node |-> IF call[o][n] = "pending" THEN "failed" ELSE call[o][n]]
            IN /\ IF status[o] = "running"
                  THEN Finish(o, "noquorum", merger[o], cl)
                  ELSE /\ call' = [call EXCEPT ![o] = cl]
                       /\ UNCHANGED <<status, result>>
               /\ HandOff(o, merger[o], replies[o], cl)
       ELSE /\ Finish(o, "noquorum", merger[o], call[o])
            /\ UNCHANGED <<repairs, handed>>
    /\ UNCHANGED <<sets, kind, update, merger, replies, mustSee, nextOp>>

\* A read-repair worker sends the merged set to the stale node, whose
\* bucket merges it (Sync).
RepairMerge(j) ==
    /\ j \in repairs
    /\ sets' = [sets EXCEPT ![j.node] = Sync(@, j.set)]
    /\ repairs' = repairs \ {j}
    /\ UNCHANGED <<kind, status, call, update, merger, result, handed, replies, mustSee, nextOp>>

\* Repair is best effort: a failed merge is logged and dropped.
DropRepair(j) ==
    /\ j \in repairs
    /\ repairs' = repairs \ {j}
    /\ UNCHANGED <<sets, kind, status, call, update, merger, result, handed, replies, mustSee, nextOp>>

\* Every client operation has returned, no call is outstanding and no
\* repair is queued: the agent waits for clients, beyond the bound.
Quiescent ==
    /\ nextOp = MaxOps + 1
    /\ \A o \in Ops : status[o] # "running" /\ Pending(o) = {}
    /\ repairs = {}
    /\ UNCHANGED vars

Next ==
    \/ \E read \in ClientReads, v \in Value : StartBatch(read, v)
    \/ StartGet
    \/ \E o \in Ops, n \in Node :
          NodeBatch(o, n) \/ NodeGet(o, n) \/ NodeFail(o, n)
    \/ \E o \in Ops : Deadline(o)
    \/ \E j \in repairs : RepairMerge(j) \/ DropRepair(j)
    \/ Quiescent

Spec == Init /\ [][Next]_vars

-----------------------------------------------------------------------------

Sibling ==
    [clock : [node : Node, count : 1..MaxOps, context : [Node -> 0..MaxOps]],
     value : Value, timestamp : {0}, eid : Ops, past : SUBSET Ops]

TypeOK ==
    /\ sets \in [Node -> SUBSET Sibling]
    /\ kind \in [Ops -> {"none", "batch", "get"}]
    /\ status \in [Ops -> {"idle", "running", "ok", "noquorum"}]
    /\ call \in [Ops -> [Node -> CallState]]
    /\ merger \in [Ops -> SUBSET Sibling]
    /\ result \in [Ops -> SUBSET Sibling]
    /\ handed \subseteq Ops
    /\ replies \in [Ops -> [Node -> SUBSET Sibling]]
    /\ repairs \subseteq [node : Node, set : SUBSET Sibling]
    /\ mustSee \in [Ops -> SUBSET Ops]
    /\ nextOp \in 1..MaxOps + 1

\* A write reported successful is visible to every later read that reaches
\* a quorum: the Get's merged result holds the write or a write that
\* observed it.  This is what the majority quorum of Batch and Get buys;
\* it needs every quorum of writers to meet every quorum of readers, and
\* the merges at the agent and at the nodes to drop a sibling only for one
\* that really came after it.
ReadSeesQuorumWrites ==
    \A o \in Ops :
        (kind[o] = "get" /\ status[o] = "ok") =>
            \A w \in mustSee[o] : w \in Observed(result[o])

\* Every sibling a node stores, a Get merged or a repair job carries.
Live == UNION ({sets[n] : n \in Node} \cup {merger[o] : o \in Ops} \cup {result[o] : o \in Ops}
               \cup {j.set : j \in repairs})

\* As in Replication: the clocks the nodes create from a client context
\* that the agent merged from several replicas tell the truth about
\* causality, so no merge drops a concurrent write.
ClockOrderIsCausal ==
    \A a, b \in Live :
        /\ HappenedBefore(a.clock, b.clock) => a.eid \in b.past
        /\ ClockEquals(a.clock, b.clock) => a.eid = b.eid

=============================================================================
