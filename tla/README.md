# TLA+ models of devicedb

TLA+ models of the devicedb core (`src/`, described by `spec.md`), checked with TLC.
Devicedb is an eventually consistent key-value store. Every replica keeps, for each key,
a *sibling set* of concurrent versions stamped with dotted version vectors (DVVs).
Replicas converge through best-effort broadcasts and Merkle-guided anti-entropy sessions.
In the cloud tier a replication agent fans each client request out to a partition's
replica holders and waits for a quorum.

`PROJECT.json` holds the machine-readable version of this document: the components, the
runs, the mutants, the map from every TLA+ definition to the source lines it models, the
findings and the hazards.

## 1. Inventory

### Components, their state and operations

| Component | Source | State | Operations | Interacts with |
|---|---|---|---|---|
| Causal versioning | `src/siblingSet.go`; the DVV type is outside `src/` | a sibling set: siblings `{clock, value or tombstone, timestamp}` | `Sync`, `Join`, `Discard`, `Event`, `IsTombstoneSet`, `CanPurge`, `Value`, `Hash`, encodings | called by buckets (Batch, Merge, GC) and by the agent's read merger |
| Bucket / node | outside `src/` (spec.md 4.C) | key -> sibling set, plus a Merkle tree | `Batch`, `Merge`, `Get`, `GetMatches`, `GarbageCollect` | server handlers, sync sessions, GC, agent via the node client |
| HTTP server | `src/io/server.go` | bucket list: default and lww (Shared), cloud (Cloud policy) | `/{bucket}/values`, `/{bucket}/matches`, `/{bucket}/batch` (Batch then `BroadcastUpdate` per updated key), `/sync` accept | buckets, sync controller |
| Garbage collector | `src/gc.go` | interval, purge age, done channel | `Start` (a timer loop sweeping every bucket), `Stop` | `Node.GarbageCollect` |
| Merkle tree | outside `src/` (spec.md 4.B) | XOR hashes of a fixed-depth binary tree | `update`, `nodeHash`, `translateNode` | bucket writes, sync sessions |
| Sync sessions | outside `src/`; tests in `src/io/sync_test.go` | initiator and responder state machines, current node, depth, leaf cursor | message handlers `SYNC_START`, `SYNC_NODE_HASH`, `SYNC_OBJECT_NEXT`, `SYNC_PUSH_MESSAGE`, `SYNC_ABORT` | Merkle trees and buckets of both peers |
| Sync controller | outside `src/` | session pool (hard cap), peers | periodic initiation, accept, broadcast | sessions, server |
| Replication agent | outside `src/`; tests in `src/clusterio/agent_test.go` | per request: replies, nApplied, nFailed, deadline, read merger | `Batch`, `Get`, `GetMatches`, `CancelAll`, `NQuorum` | partition resolver, node client, read-repair |
| Read-repair | outside `src/` | bounded job queue, workers | `BeginRepair`, `StopRepairs` | node client `Merge` |
| Partition resolver | outside `src/` | reads the cluster state | `Partition`, `ReplicaNodes` | agent |
| Transfer proposer | `src/transfer/transfer_proposer.go` | `transferCancelers[partition][replica]`, a goroutine per proposal, a mutex | `QueueTransferProposal`, `CancelTransferProposal(s)`, `PendingProposals`, `QueuedProposals` | cluster config controller (`ClusterCommand`) |
| Cluster state | `src/cloud/cluster/state.go` | `Nodes` (tokens, held replicas), `Tokens[]`, `Partitions[][]` | `AddNode`, `RemoveNode`, `AssignToken`, `AssignPartitionReplica`, `Initialize`, `Snapshot`, `Recover` | applied by the consensus loop, read by the resolver |
| Site factory | `src/site/site_factory.go` | none after construction | `CreateSite` | storage drivers |
| Node coordinator facade | `src/node_facade/node_coordinator_facade.go` | interface only | - | - |

### What is hard

* **Causality and GC.** Buckets delete siblings whenever one clock happened before
  another. This is right only if the clocks reflect what writers really saw. Purging
  tombstones erases the record of which dots a node has issued.
* **Unreliable propagation.** Broadcasts are best effort, so they can be lost, delayed
  or delivered stale. Anti-entropy is periodic. Merges happen in any order.
* **Goroutine interleavings in the transfer proposer.** The API calls, the proposal
  goroutines and their cleanups interleave. Go's `select` picks at random when both of
  its channels are ready. Re-queueing a replica races the cleanup of the earlier
  proposal.
* **Two copies of ownership in the cluster state.** Every command must update both
  copies together.
* **Quorum fan-out against a deadline** (agent). Late answers race the timeout.
  Partial failures still feed read repair.
* **Server start and stop.** Start runs in its own goroutine, and Stop reads the
  listener field Start writes, without a lock. A failure halfway through Start leaves
  behind what it had already acquired.
* **The Merkle-guided session protocol.** Peers may use different tree depths.
  Termination matters, and so does what the initiator has once the session ends.

### Properties that make each component correct

* Causal versioning and replication: clocks agree with real causality
  (`ClockOrderIsCausal`), and nodes converge once writes stop (`Converges`,
  `ConvergesUpToPurge`). Sync should also be commutative, associative and idempotent.
* Transfer proposer: `QueuedProposals` and `PendingProposals` report exactly the replicas
  whose latest proposal is still running and not cancelled (`QueuedProposalsExact`). A
  cancel releases the proposal's goroutine wherever it is blocked
  (`CancelReleasesProposal`). A proposal cancelled after its wait still resolves its
  future (`ResultAfterCancel`). A cancel stops every pending proposal of the replica
  (`CancelStopsEveryPending`). A proposal chained
  after another submits only if its predecessor did (`ChainedSubmitsOnlyAfterPredecessor`,
  spec.md §8 scenario 6).
* Cluster state: the two descriptions of ownership agree (`OwnershipConsistent`), and
  the tables change only as the abstract ownership of spec.md §2 allows
  (`OwnershipRefined`, a refinement).
* Garbage collector: two sweeps never overlap (`NoConcurrentSweeps`), Stop ends the
  sweeping (`StopQuiesces`), and Stop never closes a closed channel (`NoDoubleClose`).
* Server: a Stop after a Start shuts the server down. Start returns, the port is free
  and the storage is closed (`StopShutsDown`).
* `CanPurge`: the goroutine of `Iter` it consumes returns (`IterExits`).
* Agent: a successful write is visible to every later successful read
  (`ReadSeesQuorumWrites`, quorum intersection). The clocks nodes build from contexts
  the agent merged stay causal (`ClockOrderIsCausal` again).
* Sync sessions: every session ends, whatever writes and broadcasts change the trees
  while it runs (`SessionTerminates`). Once writes stop, repeated sessions give every
  node every write, lost broadcasts included (`Converges`, spec.md 4.H).

## 2. Modules

### `SiblingSet` — causal versioning (operators only)

This module translates the functions of `src/siblingSet.go` into operators: `Sync`,
`Join`, `Discard`, `Event`/`EventCount`, `IsTombstoneSet`, `CanPurge` and `SetValue`
(which models `Value`). The DVV code is not under `src/`. Its operators
(`HappenedBefore`, `ClockEquals`, `MaxDot`, `NewDVV`) are therefore taken from spec.md
section 3 and marked `spec_modelled` in the map. A context is a total function from
replica IDs to naturals; an absent entry counts as 0, which is how the spec compares
contexts.

A sibling record carries two ghost fields:

* `eid`: the identity of the write that created the sibling.
* `past`: the writes the client had observed.

No code operator reads these fields. Properties use them to compare the clocks with the
real causality.

### `Replication` — one key, replicated on several nodes

* **State.**
  * `sets[r]`: the key's sibling set at node r.
  * `msgs`: broadcast pushes in flight.
  * `now`: the timestamp clock.
  * `nextEid`: a ghost counter that names the next write.
* **Actions.**
  * `Batch(r, read, v)`: the `/{bucket}/batch` handler of `server.go`. The node's Batch
    (Event with the client context `Join(read)`, Discard, add the new sibling) and the
    broadcast of the updated set to every peer happen in one step. The client context is
    the join of a set the client read from any node, or empty.
  * `DeliverUpdate` / `DropUpdate`: a broadcast push is merged (`Node.Merge` = `Sync`)
    or lost. Pushes sit in a set, so they are delivered in any order and at any later
    time.
  * `SyncPull(r, q)`: the net effect of an anti-entropy session that r initiates with
    q. The key's leaf differs, q pushes its set, and r merges it. The `SyncSession`
    module of the plan will refine this.
  * `GarbageCollect(r)`: one sweep of `gc.go`. The key is purged when `CanPurge(set,
    now - PurgeAge)` holds.
  * `Tick`: advances the timestamp clock.
* **Why one key is enough.** Batch, Merge, the sessions and the sweep each act on every
  key independently.
* **Fairness.** Weak fairness on `SyncPull(r, q)` for every pair, because the sync
  controller starts sessions with every peer periodically. Weak fairness on
  `GarbageCollect(r)`, because the sweep runs on a timer. Clients, broadcasts and the
  clock get no fairness.

### `TransferProposer` — `src/transfer/transfer_proposer.go`

* **State.**
  * `transferCancelers`: the canceler map, flattened to (partition, replica) -> proposal
    id. Go also deletes the emptied inner map, but that is not observable.
  * `pc`: where each proposal goroutine is.
  * `ctxDone`, `afterFired`: the two channels of the goroutine's `select`.
  * `after[id]`: 0 when the `after` signal is the caller's own, or the earlier
    proposal on whose completion it waits. `QueueTransferProposal` takes `<-chan int`
    and returns `<-chan error`, so to chain proposals the caller fires the signal when
    the predecessor's result arrives (spec.md §8 scenario 6 calls it the first
    proposal's "completion signal").
  * `resultSent`: the proposals whose goroutine sent on its result channel.
  * `submitted`: the proposals whose `ClusterCommand` was submitted.
  * `revoked`: ghost. The proposals that were pending when a cancel of their replica
    returned.
* **Actions.**
  * Each API call holds the mutex for its whole body, so it is one atomic action:
    `QueueTransferProposal`, `CancelTransferProposal`, `CancelTransferProposals`.
  * The goroutine runs as three steps:
    * `WaitAfter`: the `select`. If both channels are ready, either branch may be
      taken. On `ctx.Done()` the goroutine returns without sending a result (line 74).
    * `ClusterCommand`: submits only if the context is not yet cancelled. spec.md
      section 5 requires every RPC to honour its context.
    * `Cleanup`: runs under the lock and does the identity check. The deferred
      function then sends `ClusterCommand`'s error on the result channel on every
      path, including the early return when the partition's map is gone.
  * `FireAfter` is the caller readying the `after` channel.
  * `PendingProposals(p)` and `QueuedProposals` only read the map under the lock, so
    they are operators over `transferCancelers`, not actions. The partition transfer
    agent reads them to decide whether a replica still needs a proposal.
* **Fairness (`FairSpec`).** Weak fairness on each goroutine step, because the Go
  scheduler runs every runnable goroutine. `ClusterCommand` is not assumed to return: the
  comment at its call site (line 77) reports that for some proposals it does not. It
  is weakly fair only once its context is cancelled (`WF_vars(ctxDone[id] /\
  ClusterCommand(id))`), because it takes `ctx` and spec.md section 5 requires every
  RPC to honour its context. A proposal that is never cancelled may therefore hang in
  `ClusterCommand` for ever, with its canceler still in the map. The caller and the
  `after` channel get no fairness.

### `ClusterState` — `src/cloud/cluster/state.go`

* **State.** `members`, `nodeTokens`, `nodeReplicas`, `tokens`, `holder`.
* **Actions.** `AddNode`, `RemoveNode`, `AssignToken` and `AssignPartitionReplica`.
  Their arguments range over values that also exercise each error path (node 0, an
  index one past the end).
* **Initial state.** `Initialize` with fixed settings.
* **Refinement.** `Ownership == INSTANCE ClusterOwnership WITH owner <- tokens`, and
  `OwnershipRefined == Ownership!Spec` is checked as a property. The other abstract
  variables (`members`, `holder`) and constants (`NodeID`, `Token`,
  `PartitionReplica`) are substituted by the detailed ones of the same name.

### `ClusterOwnership` — the abstract ownership of spec.md §2

This is what the cluster state promises its readers. Ownership is a function from tokens
(and from partition replicas) to a member or nobody, so "exactly one owner" holds by
construction. The module says how ownership may change:

* `Join(n)`: a node joins owning nothing.
* `TakeToken(n, t)` and `TakeReplica(n, pr)`: a member takes a token or a replica from
  whoever had it.
* `Leave(n)`: a member leaves and everything it had goes to nobody.

The refinement is not a restatement of `OwnershipConsistent`. `RemoveNode` finds what to
clear through the leaving member's own `Tokens` and `PartitionReplicas` sets, so the
tables follow `Leave` only if those sets name exactly what the tables give the member.
If `AssignToken` left the token in its old owner's set, a later `RemoveNode` of the old
owner would clear the new owner's token. That breaks the refinement, and TLC finds it.

### `GarbageCollector` — `src/gc.go`

* **State.**
  * `done`: the field `garbageCollector.done`. Channels are numbers, and channel 0 is
    the one `NewGarbageCollector` makes.
  * `closed`: the channels closed so far.
  * `nextChan`: the next channel `make` returns.
  * `gpc[g]` and `gch[g]`: where goroutine g is, and the channel its `select` read on
    entry.
  * `started`, `starts`: the caller's Start/Stop alternation and its count.
  * `panicked`: `close` of a closed channel panicked.
* **Actions.**
  * `Start` spawns a goroutine.
  * `Stop` closes the channel the field holds, or panics if it is already closed.
  * The goroutine's loop has these steps:
    * `EnterSelect` reads the field once.
    * `DoneCase` is taken when that channel is closed. A fresh `time.After` timer is
      never ready before a closed channel.
    * `TimerCase` and `SweepDone` are one sweep.
    * `ResetDone` stores a new channel in the field and returns.
  * `Terminated` is the stutter after the caller's last call, or after a panic.
* **Fairness.** Weak fairness on every goroutine step, because the scheduler runs it and
  the timer fires. The caller gets no fairness.

### `SiblingIter` — `CanPurge` consuming `Iter` (`src/siblingSet.go`)

`Iter` starts a goroutine that ranges over the set's map and sends each sibling on an
unbuffered channel, then closes it. `CanPurge` ranges over the channel and returns false
at the first sibling that is not a tombstone older than the cutoff.

* **State.** The set, and what `CanPurge` reads of each sibling (`tomb`, `old`). The
  producer's position `prod`, the siblings it has reached (`sent`) and the one it is
  blocked sending (`pending`). The consumer's position `cons`, the sibling it received
  (`got`) and its `result`.
* **Actions.**
  * `NextSibling`: the map range picks any unvisited sibling, because Go's map order is
    unspecified.
  * `Handoff`: the send and the receive meet.
  * `Check`: the loop body of `CanPurge`.
  * `CloseCh` and `RangeEnds`: the close, and `CanPurge`'s `return true`.
  * `Returned` is the stutter once `CanPurge` has returned.
* **Initial states.** Every non-empty set of the configured siblings, each live, a
  recent tombstone or an old one.
* **Fairness.** Weak fairness on both goroutines' steps.

### `SyncSession` — Merkle sessions, policies and broadcast (spec.md 4.B, 4.G, 4.H; `src/io/server.go`)

The session code is not under `src/`. Its transitions are translated from the table of
spec.md 4.G, and `src/io/sync_test.go` pins each of them down. Two facts come from the
tests: a matching left child moves to the right child and keeps `currentNode`, and a
differing child becomes `currentNode`. The policies `Shared` and `Cloud`
(server.go 21-41) and the `/batch` handler (329-376) are translated from source.

* **Abstraction.** `NodeHash(x)` is the content below `x` (`Content`), so equal hashes
  mean equal content. A key's sibling set is the set of writes it has seen, and a
  merge is their union. The properties only ask which writes reached which node, and
  `Replication` checks the sibling-set algebra itself. Both peers use the same depth.
* **State.** `db`; the broadcasts in flight (`bcast`); per node, its outgoing session:
  state `st`, `peer`, `currentNode` (`cur`), the request and the reply in flight (the
  protocol is half duplex), and the responder's leaf cursor `rcur`. There is also a
  count of lost connections.
* **Actions.**
  * `Write`: the `/batch` handler. It merges the write, then broadcasts the key's set to
    the peers the policy replicates to.
  * `DeliverBroadcast` merges a broadcast if the receiver's policy takes data from the
    sender. `LoseBroadcast` drops one.
  * `Initiate`: the controller starts a session with a peer the policy lets it pull from.
  * The initiator handles each reply as the state it is in dictates: `Handshake`,
    `RootCompare`, `LeftCompare`, `RightCompare`, `ObjectPush`.
  * The responder answers a request: `RespondStart` refuses if its policy does not
    replicate to the initiator; `RespondHash` sends its hash as it is now;
    `RespondNext` opens the cursor on the first `SYNC_OBJECT_NEXT` and pushes one key
    per request, then `SYNC_ABORT`.
  * `Disconnect`: a lost connection. The waiting side reads a nil message, which ends
    the session.
  * `End` drops the session object, as a new session makes a new one.
* **Fairness.** Weak fairness on `Initiate` for each allowed pair, because the
  controller syncs periodically, and on every message handler. Writes, broadcast
  delivery and lost connections get none; lost connections are bounded by
  `MaxDisconnects`.

### `ServerLifecycle` — `NewServer`, `Start` and `Stop` (`src/io/server.go`)

* **State.**
  * the storage driver, open or closed;
  * each listener a Start made: not made, bound or closed;
  * the field `server.listener`;
  * the Start goroutine's position, and its local `listener`;
  * the caller's position.
* **Actions.**
  * `Init` is a `NewServer` that succeeded: the storage is open.
  * The Start goroutine:
    * `Listen`: while a listener holds the port, this fails, and Start calls `Stop`
      itself and returns.
    * `OpenStorage`: the second `storageDriver.Open`. If it fails, Start returns
      `EStorage`.
    * `Assign` stores the listener in the field.
    * `ServeReturns`: `Serve` returns once that listener is closed.
  * `Stop` is two steps: `StopListener` closes the listener the field holds at that
    moment, and `StopStorage` closes the storage.
  * The caller is the one in `sync_test.go`: `CallStart` is `go server.Start()`, then
    comes `Stop`, and `AwaitStart` waits for Start to return. The caller may start
    the server again after that, up to `MaxStarts`.
* **Fairness.** Weak fairness on the Start goroutine's steps, on `StopStorage` once
  `Stop` has begun, and on the wait. The caller's calls get none.
* **Faults.** Up to `MaxOpenFailures` storage opens fail. Listen fails exactly when the
  port is still held.

### `Agent` — replication agent and read repair (spec.md 4.E, 4.F)

The agent's code is not under `src/`; only its tests (`src/clusterio/agent_test.go`) are.
Every action is therefore modelled from spec.md and marked `spec_modelled` in the map.
The buckets the calls reach use the `SiblingSet` operators from source.

* **State.**
  * `sets`: the key's sibling set at each replica holder of one partition.
  * Per client operation `o`: `kind` (batch or get), `status` (idle, running, ok,
    noquorum), `call[o][n]` (none, pending, ok, failed), the batch's `update` (the set
    the client read and the value), and the Get's `merger` and `replies`.
  * `result[o]`: what a Get returned with success. `handed`: the Gets whose merger went
    to read repair.
  * `repairs`: queued read-repair jobs.
  * `mustSee`: a ghost, the batches reported ok when a Get started.
* **Actions.**
  * `StartBatch` and `StartGet` fan a call out to every holder.
  * `NodeBatch` is the node's bucket applying the write. It uses `Event` with the
    client's `Join(read)` and the node's own ID, then `Discard` and add. It happens
    whether or not the agent is still waiting, so a call can apply after its Batch
    returned.
  * `NodeGet`: a reply synced into the merger, before or after the Get returned.
  * `NodeFail`: an error, or the cancellation reaching a call first.
  * `Deadline`: the agent gives up on a running operation. For a Get that already
    returned, the deadline also cancels the calls still outstanding.
  * `Finish` is the common return. It does not stop the outstanding calls. The
    agent_test.go case "Should return before the deadline as soon as quorum has been
    established" returns at quorum but calls `BeginRepair` only after the deadline.
    Its merger there includes the replies that arrived in between.
  * `HandOff` is `BeginRepair`. It runs once no call of the Get is outstanding, either
    because all calls ended or because the deadline cancelled them. It queues a job for
    every node that did not reply with exactly the merged set. Scenario 3 of spec.md
    §8 marks a failed node stale, so failed nodes get a job too.
  * `RepairMerge` and `DropRepair`: repair workers, best effort.
* **Completion rules.** These are spec.md 4.E 3(a)–(c).
  * A Batch ends on a quorum of successes, on more than `n − NQuorum(n)` failures, or at
    the deadline.
  * A Get ends on a quorum of replies, when no call is outstanding, or at the deadline.
* **End state.** `Quiescent` is the stutter step once every operation has returned and
  no repair is queued. It keeps deadlock checking meaningful: a running operation
  with nothing enabled would still be reported.
* **Client contexts.** A client writes with the empty context or with the result of a
  Get that succeeded.

### MC modules

`MCReplication`, `MCTransferProposer`, `MCAgent`, `MCClusterState` and `MCSyncSession` give the constants values in
their `.cfg` files. `GarbageCollector`, `SiblingIter` and `ServerLifecycle` are checked
directly with their own `.cfg` files.

## 3. Runs

| Run | Config | Expect | What it shows |
|---|---|---|---|
| `replication_causal` | `MCReplication_causal.cfg`: 2 nodes, 2 values, 3 writes, no purge | pass | With no purge, `ClockOrderIsCausal` holds: every happened-before between live siblings, including those in flight, matches real observation, and equal clocks mean the same write. `Converges` holds despite lost and stale broadcasts. |
| `replication_gc` | `MCReplication_gc.cfg`: purge age 1, clock up to 2 | pass | `ConvergesUpToPurge` holds: nodes converge up to tombstones that every node may purge. Plain `Converges` fails here because of the purge/restore ping-pong (hazard at `gc.go:33`). |
| `replication_gc_dot_reuse` | `MCReplication_gc_reuse.cfg` | violation | `ClockOrderIsCausal` is violated. The sequence: delete at n1, the push to n2 is delayed, n1 purges, n1 writes with an empty context. The new write gets dot (n1,1), which the tombstone in flight also carries. |
| `transfer` | `MCTransferProposer.cfg`: 1 partition × 2 replicas, 3 proposals, chaining allowed | pass | `QueuedProposalsExact` holds across re-queues racing older cleanups. `CancelReleasesProposal` and `ResultAfterCancel` hold with `ClusterCommand` allowed to hang until its context is cancelled: a cancel frees a proposal in the select or in `ClusterCommand`, and the deferred send fires on the cleanup's early return. |
| `transfer_chain_cancel` | `MCTransferProposer_chain_cancel.cfg`: 1 partition × 2 replicas, 2 proposals | violation | spec.md §8 scenario 6 fails. The first proposal is cancelled, and its `after` is ready by the time its goroutine reaches the `select`. With both cases ready, the `select` may take `after`. `ClusterCommand` then fails on the cancelled context, the error is sent as the first proposal's result, and the second proposal submits. |
| `transfer_orphan` | `MCTransferProposer_orphan.cfg`: 1 replica, 2 proposals | violation | Queue, queue again, cancel: the first proposal still submits. |
| `agent_quorum` | `MCAgent.cfg`: 3 holders, 3 operations, node symmetry | pass | `ReadSeesQuorumWrites` holds. A Get that succeeds returns every write earlier reported successful, or a write that observed it. This holds even when calls fail, race the deadline, or apply after their Batch returned NoQuorum. `ClockOrderIsCausal` holds for the per-node clocks built from merged contexts. |
| `cluster_state` | `MCClusterState.cfg`: 3 nodes, 2 partitions, RF 2 | pass | `OwnershipConsistent` holds under every command sequence, and `OwnershipRefined`: the tables implement `ClusterOwnership`. |
| `gc_lifecycle` | `MCGarbageCollector.cfg`: 5 Start/Stop rounds | pass | `NoConcurrentSweeps` and `StopQuiesces` hold, with the panic states excluded from the latter. The field is reset only after the old goroutine left its sweep, so a new goroutine never sweeps alongside it. |
| `server_stop` | `ServerLifecycle_stop.cfg`: 2 Start/Stop rounds, 1 failing storage Open | violation | `StopShutsDown` fails. `Stop` runs while Start is opening the storage and finds the field nil. Start then reopens the storage and serves forever, and the caller waiting for Start hangs. Deadlock is not checked separately, because that hung caller is the state the property reports. |
| `sync_sessions` | `MCSyncSession.cfg`: 2 Shared nodes, 2 keys under leaves 4 and 6 of a depth-3 tree, 2 writes, 1 lost connection | pass | `SessionTerminates` and `Converges` hold. Sessions end however writes, broadcasts and a lost connection interleave with them. They repair every lost broadcast, although each session repairs only the leftmost leaf that differs. |
| `sibling_iter_leak` | `MCSiblingIter_leak.cfg`: 2 siblings | violation | `IterExits` fails. `CanPurge` returns at a live sibling, and `Iter`'s goroutine stays blocked sending the next one. |

**Why the bounds are enough.**

* Three writes are enough for the two interesting shapes: two concurrent writes plus a
  causally later one, and write-delete-rewrite.
* A purge needs a clock of 2 with purge age 1.
* Three proposals are enough for a re-queue racing an older cleanup while another
  replica is in flight.
* Three holders give a quorum of 2 in which two quorums meet in only one node. Three
  operations allow write, write, read, as well as read, write-with-that-context, read.
* Three nodes let a token move between two members while a third joins or leaves.
* The transfer run has one partition, because partitions are independent except in
  `CancelTransferProposals`, which one partition with two replicas already exercises.
  Three proposals allow a chain of three, or a chain of two plus a re-queue. With two
  partitions the run takes two minutes and finds nothing more.
* Five Start/Stop rounds let one round's goroutine overlap the goroutines of the next
  two while the field is reset several times. The collector's state space is small
  (2338 states), so this bound costs nothing.
* Two siblings are enough for the leak: a live one delivered first.
* For sessions, a depth-3 tree with keys under leaves 4 and 6 makes a session take
  every initiator transition: LEFT to LEFT, LEFT to RIGHT, RIGHT to LEFT, and a push at
  a left leaf and at a right one. Two writes let each node hold a write the other's
  broadcast lost. One lost connection ends a session at any step. Three writes give 2.8
  million states, too many for the liveness check, and add only a second write to a
  key one node already differs on.

**Mutants.** Every property of a passing run has a mutant in `PROJECT.json`, and TLC
finds the property violated under it. The mutants are:

* the swapped happened-before in `Sync`;
* `Event` ignoring the stored siblings;
* the identity check dropped from `Cleanup`;
* `Cleanup` never deleting the canceler;
* `AssignToken` keeping the old owner;
* `RemoveNode` skipping its loop over the node's tokens, which breaks the refinement;
* `Cleanup` sending the result only when the partition's map is still there, as a send
  that was not deferred would;
* `Stop` installing a fresh channel itself, which lets a new goroutine sweep while the
  old one still does;
* the timer case taken even when `done` is closed, which breaks `StopQuiesces`;
* a matching left child ending the session instead of moving right, which breaks
  `Converges`: a divergence in the right subtree is never repaired;
* the responder's cursor not advancing past the key it pushed, which breaks
  `SessionTerminates`;
* `NQuorum` as half the replicas, rounded down, which breaks `ReadSeesQuorumWrites`;
* off-by-one or unbounded type mutants.

## 4. Findings

1. **Dot reuse after purge** (`src/siblingSet.go:118`, run `replication_gc_dot_reuse`).
   `Event` computes the next dot only from the client context and the siblings still
   stored. After a tombstone is purged, a node can issue the same dot again. Sync then
   treats two different writes as one (line 58), so a new value can be replaced by an
   old tombstone depending on the merge order. The same sets also break spec.md §8's
   `sync(x,y) = sync(y,x)`.
2. **Re-queue orphans a proposal** (`src/transfer/transfer_proposer.go:67`, run
   `transfer_orphan`). `QueueTransferProposal` overwrites the stored canceler without
   cancelling it. `CancelTransferProposal` can then no longer reach the earlier
   proposal, and that proposal later submits `ClusterCommand`.

3. **Double close in the collector** (`src/gc.go:41`; no run is kept). `Stop`
   closes whatever channel the field holds, and only the exiting goroutine replaces it
   (line 28). Start, Stop, Start, Stop in quick succession can close the same channel
   twice, which panics. The same cause has a second consequence, which TLC also
   exhibits under the liveness property "a started collector keeps sweeping". A
   goroutine spawned by a Start right after a Stop can read the old closed channel and
   return at once. The collector then stays started and never sweeps again. To
   reproduce it, add `INVARIANT NoDoubleClose` to `MCGarbageCollector.cfg`: TLC finds
   Start, Stop, Start, Stop within two rounds. Its run gave way to `server_stop`, because
   `NoConcurrentSweeps` in `gc_lifecycle` still checks the race behind it.
4. **Cancelled proposal releases its successor** (`src/transfer/transfer_proposer.go:71`,
   run `transfer_chain_cancel`). Go's `select` picks either ready case, so a proposal
   whose `after` is ready when it is cancelled can still go on. It calls
   `ClusterCommand` with the cancelled context, and the deferred function sends the
   resulting error as its result. A proposal chained on that completion then submits,
   which contradicts spec.md §8 scenario 6.
5. **`Iter` goroutine leak** (`src/siblingSet.go:134`, run `sibling_iter_leak`).
   `CanPurge` returns without draining `Iter`'s unbuffered channel. `Iter`'s goroutine
   then blocks forever on its next send, holding the set. This happens once per key with
   a live sibling that is not delivered last, on every collection sweep. `Hash` drains
   the channel; `CanPurge` does not.

6. **Stop does not stop a starting server, and a failed Start leaks its listener**
   (`src/io/server.go:426` and `:423`, run `server_stop`). Start stores the listener in
   `server.listener` only after it has reopened the storage. A `Stop` before that store
   finds the field nil and closes only the storage. Start then reopens the storage and
   serves forever, so a caller that waits for Start to return hangs. `sync_test.go`'s
   `AfterEach` is such a caller; it is kept out of the window only by a 200 ms sleep.
   The same property fails without the race. When the second Open fails, Start
   returns `EStorage` without closing the listener it made. That listener was never
   stored in the field, so no `Stop` closes it, the port stays bound, and every later
   Start fails to listen. TLC shows this second trace once `Stop` is restricted to a
   serving or returned Start.

The converse of finding 4 is not recorded as a finding. A proposal cancelled while it
waits returns at line 74 without sending a result, so its future never resolves, and a
proposal chained after it waits until it is cancelled itself. TLC shows it, but scenario
6 expects exactly this outcome for the second proposal.

**The Cloud policy stalls repair.** This is not a finding, because no run records it.
Take `SyncSession` with the relay under `Cloud` (`Policy = n1 :> "cloud" @@ n2 :>
"shared"`, `CloudPeer = n2`), and ask that every write held by the cloud peer eventually
reaches the relay. TLC finds it false:

* the cloud writes `k2`, and its broadcast is lost;
* the relay's `/batch` handler takes a local write of `k1`, under the leftmost leaf;
* every session the relay starts descends to that leaf, pulls nothing new and ends;
* the relay serves nobody, so its write never goes up and the leaf never matches;
* the relay's sessions never reach `k2`'s leaf.

spec.md 4.H says broadcast losses "are later repaired by Merkle sync". spec.md does not
say whether a relay may write into its cloud bucket. The `/batch` handler does not stop
it (server.go 355). The hazard list records it at server.go:40.

## 5. Plan

Most important first. Items 1 to 4, 7 and 8 are done, and item 6 in part.

1. `SiblingSet` + `Replication` (done): the causal core and convergence.
2. `TransferProposer` (done): cancellation under concurrency.
3. `ClusterState` (done): ownership consistency.
4. `Agent` (done, spec-modelled): Batch/Get fan-out, quorum, deadline, read merger
   and read repair. What remains:
   * `GetMatches` and `CancelAll`;
   * the repair queue bound;
   * a `ReplicaNodes` resolver over `ClusterState`, to show what happens when the
     holders move between the write and the read;
   * a convergence property once repairs are made fair.
5. `Merkle` (spec-modelled, with `SiblingSet.Hash` from source): the tree as a function
   from node to hash, with incremental XOR update.
   * Properties: the interior node invariant, and equality with recomputation from
     scratch.
   * The `Hash` `&&` edge case, with 2-bit hash halves.
6. `SyncSession` (done: termination and convergence under Shared, with the policies and
   the broadcast). What remains:
   * peers of different depths, with depth translation;
   * the round-trip bound of spec.md §8;
   * refinement of `Replication`'s `SyncPull`. This needs sibling sets in place of
     write sets, which makes the state space much larger.
7. The rest of the transfer proposer, the cluster state and the collector:
   * result delivery and chaining (done: `ResultAfterCancel`,
     `ChainedSubmitsOnlyAfterPredecessor`);
   * the cluster-state refinement (done: `ClusterOwnership`);
   * collector `Start`/`Stop` (done: `GarbageCollector`);
   * the replication policies of `server.go` (done, in `SyncSession`). The sync
     controller's pool cap is not modelled: one outgoing session per node.
8. Server start and stop (done: `ServerLifecycle`, run `server_stop`): `NewServer`,
   `Start` and `Stop` with the unlocked `server.listener` field and a failing second
   `storageDriver.Open`. What remains: a fixed `Start` (listener assigned before
   `Open`, closed on its error path, field guarded by a lock) as a passing run.

## 6. Not modelled, and why

* Formatting, JSON encodings, TLS and configuration loading (`server.go`
  `LoadFromFile`): pure I/O.
* The site factory: construction only. It has one hazard, recorded in PROJECT.json at
  `site_factory.go:64`. `siteBucketPrefix` appends the one-byte bucket prefix to the
  site ID with no separator. So if a site ID ends in a byte 0 to 3, the key spaces of
  two sites' buckets overlap. For example, site `"a"` bucket 1 key `"\x00k"` and site
  `"a\x01"` bucket 0 key `"k"` both become `"a\x01\x00k"`. Printable site IDs cannot
  collide. Which IDs are admitted is decided outside `src/`. The overlap follows from
  concatenation alone, so no state machine is needed to show it.
* `ClusterState.AddNode` stores the caller's `NodeConfig` unchanged. The model
  assumes the configuration arrives with empty, non-nil `Tokens` and
  `PartitionReplicas`. A nil map would make the first `takeToken` panic. A
  configuration that already claims tokens would break `OwnershipConsistent` from its
  first step. Both cases depend on callers outside `src/`. This is listed as a hazard
  at `state.go:99`.
* The node facade: an interface.
* The storage engine: external, and assumed atomic per batch.
* Read handlers: they change no state.
* `ClusterState.Snapshot`/`Recover`: a JSON round trip of every exported field,
  including the members' `PartitionReplicas`, which restores the same state. A second
  `Initialize` would reset the tables but keep the members' sets. That would break
  `OwnershipConsistent`, but `Initialize`'s only caller is outside `src/`, and nothing
  under `src/` or in spec.md says whether it can run twice. It is listed as a hazard.
* `SiblingSet.Hash`. Its `&&` (siblingSet.go:182) differs from `||` only when one
  64-bit half of the XOR of the sibling hashes is exactly zero. That has odds of about
  2^-63 per set, which is too small to count as a hazard, and a model would have to
  pick such a hash by hand.
* `GetOldestTombstone`: no caller under `src/`.
* Session IDs, protocol-version and bucket checks, and the responder's node-range check.
  With one bucket and well-formed peers, each of these only ends a session, which
  `Disconnect` already covers.
