--------------------------- MODULE TransferProposer --------------------------
(***************************************************************************)
(* The partition-replica transfer proposer of                             *)
(* src/transfer/transfer_proposer.go.                                      *)
(*                                                                         *)
(* QueueTransferProposal registers a canceler for (partition, replica)     *)
(* and starts a goroutine that waits for the `after` signal or for its     *)
(* context to be cancelled, then submits ClusterCommand(take partition     *)
(* replica) and finally, under the lock, removes its canceler if the map   *)
(* still holds that very canceler.  The API calls hold the mutex for       *)
(* their whole body, and so does the goroutine's cleanup, so each is one   *)
(* atomic action; the wait and ClusterCommand run outside the lock.        *)
(*                                                                         *)
(* The map transferCancelers[partition][replica] is flattened to a         *)
(* function of (partition, replica); deleting the emptied inner map only   *)
(* frees memory and is not observable through the API.                     *)
(***************************************************************************)
EXTENDS Naturals, FiniteSets

CONSTANTS Partition, Replica,
          MaxProposals,   \* bound on calls to QueueTransferProposal
          NoCanceler      \* model value: no canceler registered

Ids == 1..MaxProposals

VARIABLES transferCancelers, \* (partition, replica) -> id of the proposal whose canceler is stored
          target,            \* target[id]: the (partition, replica) of proposal id
          pc,                \* pc[id]: where proposal id's goroutine is
          ctxDone,           \* ctxDone[id]: its context has been cancelled
          after,             \* after[id]: 0 for a signal of the caller's own, or
                             \*   the earlier proposal whose completion it waits on
          afterFired,        \* afterFired[id]: the caller's `after` channel is ready
          resultSent,        \* the proposals whose goroutine sent on `result`
          submitted,         \* ids whose ClusterCommand was submitted
          nextId,
          revoked            \* ghost: ids pending when a cancel of their replica returned

vars == <<transferCancelers, target, pc, ctxDone, after, afterFired, resultSent,
          submitted, nextId, revoked>>

\* "unused": not yet queued; "wait": in the select; "propose": about to
\* call ClusterCommand; "cleanup": ClusterCommand returned; "done": the
\* goroutine has returned.
PC == {"unused", "wait", "propose", "cleanup", "done"}

Targets == Partition \X Replica

Init ==
    /\ transferCancelers = [t \in Targets |-> NoCanceler]
    /\ target = [id \in Ids |-> CHOOSE t \in Targets : TRUE]
    /\ pc = [id \in Ids |-> "unused"]
    /\ ctxDone = [id \in Ids |-> FALSE]
    /\ after = [id \in Ids |-> 0]
    /\ afterFired = [id \in Ids |-> FALSE]
    /\ resultSent = {}
    /\ submitted = {}
    /\ nextId = 1
    /\ revoked = {}

\* Proposals still waiting for `after` or about to call ClusterCommand.
Pending(t) == { id \in Ids : target[id] = t /\ pc[id] \in {"wait", "propose"} }

\* QueueTransferProposal: store a fresh canceler for (p, r), replacing any
\* canceler already there, and start the goroutine.  Its `after` is a
\* signal of the caller's own (a = 0) or, to chain proposals, one the
\* caller fires when the result of an earlier proposal a arrives.
QueueTransferProposal(p, r, a) ==
    LET id == nextId IN
    /\ nextId <= MaxProposals
    /\ transferCancelers' = [transferCancelers EXCEPT ![<<p, r>>] = id]
    /\ target' = [target EXCEPT ![id] = <<p, r>>]
    /\ pc' = [pc EXCEPT ![id] = "wait"]
    /\ after' = [after EXCEPT ![id] = a]
    /\ nextId' = nextId + 1
    /\ UNCHANGED <<ctxDone, afterFired, resultSent, submitted, revoked>>

\* The caller's `after` channel becomes ready (closed or sent to).
FireAfter(id) ==
    /\ pc[id] # "unused"
    /\ after[id] = 0
    /\ ~afterFired[id]
    /\ afterFired' = [afterFired EXCEPT ![id] = TRUE]
    /\ UNCHANGED <<transferCancelers, target, pc, ctxDone, after, resultSent, submitted, nextId, revoked>>

\* Mutation of WaitAfter: the select has no ctx.Done() case.
WaitAfterIgnoresCtx(id) ==
    /\ pc[id] = "wait"
    /\ \/ after[id] = 0 /\ afterFired[id] /\ pc' = [pc EXCEPT ![id] = "propose"]
       \/ after[id] # 0 /\ after[id] \in resultSent /\ pc' = [pc EXCEPT ![id] = "propose"]
    /\ UNCHANGED <<transferCancelers, target, ctxDone, after, afterFired, resultSent, submitted, nextId, revoked>>

\* The select on `after` and ctx.Done(): when both are ready Go picks
\* either.  On ctx.Done() the goroutine returns at once, without sending a
\* result and without touching the map.  A chained proposal's `after` fires once its predecessor's result was
\* sent, whatever error it carries (spec.md section 8, scenario 6).
WaitAfter(id) ==
    /\ pc[id] = "wait"
    /\ \/ after[id] = 0 /\ afterFired[id] /\ pc' = [pc EXCEPT ![id] = "propose"]
       \/ after[id] # 0 /\ after[id] \in resultSent /\ pc' = [pc EXCEPT ![id] = "propose"]
       \/ ctxDone[id] /\ pc' = [pc EXCEPT ![id] = "done"]
    /\ UNCHANGED <<transferCancelers, target, ctxDone, after, afterFired, resultSent, submitted, nextId, revoked>>

\* ClusterCommand(ctx, take partition replica): submitted to consensus only
\* if ctx is not already cancelled (the call honours its context); the
\* goroutine then blocks until it returns.
ClusterCommand(id) ==
    /\ pc[id] = "propose"
    /\ submitted' = IF ctxDone[id] THEN submitted ELSE submitted \cup {id}
    /\ pc' = [pc EXCEPT ![id] = "cleanup"]
    /\ UNCHANGED <<transferCancelers, target, ctxDone, after, afterFired, resultSent, nextId, revoked>>

\* Mutation of Cleanup: the identity check is left out.
CleanupNoIdentityCheck(id) ==
    /\ pc[id] = "cleanup"
    /\ transferCancelers' = [transferCancelers EXCEPT ![target[id]] = NoCanceler]
    /\ pc' = [pc EXCEPT ![id] = "done"]
    /\ resultSent' = resultSent \cup {id}
    /\ UNCHANGED <<target, ctxDone, after, afterFired, submitted, nextId, revoked>>

\* Mutation of Cleanup: the result is sent only on the path that finds the
\* partition still in the map, as a send not deferred would be.
CleanupNoResultWhenPartitionGone(id) ==
    LET gone == \A r \in Replica : transferCancelers[<<target[id][1], r>>] = NoCanceler
    IN /\ pc[id] = "cleanup"
       /\ transferCancelers' =
            IF transferCancelers[target[id]] = id
            THEN [transferCancelers EXCEPT ![target[id]] = NoCanceler]
            ELSE transferCancelers
       /\ pc' = [pc EXCEPT ![id] = "done"]
       /\ resultSent' = IF gone THEN resultSent ELSE resultSent \cup {id}
       /\ UNCHANGED <<target, ctxDone, after, afterFired, submitted, nextId, revoked>>

\* Cleanup under the lock: delete the map entry only if it still holds this
\* proposal's canceler (the identity check); the deferred function then
\* sends ClusterCommand's error on the result channel, on every path.
Cleanup(id) ==
    /\ pc[id] = "cleanup"
    /\ transferCancelers' =
         IF transferCancelers[target[id]] = id
         THEN [transferCancelers EXCEPT ![target[id]] = NoCanceler]
         ELSE transferCancelers
    /\ pc' = [pc EXCEPT ![id] = "done"]
    /\ resultSent' = resultSent \cup {id}
    /\ UNCHANGED <<target, ctxDone, after, afterFired, submitted, nextId, revoked>>

\* cancelTransferProposal: cancel the stored canceler, if any, and delete it.
CancelOne(t) ==
    IF transferCancelers[t] = NoCanceler THEN ctxDone
    ELSE [ctxDone EXCEPT ![transferCancelers[t]] = TRUE]

CancelTransferProposal(p, r) ==
    /\ ctxDone' = CancelOne(<<p, r>>)
    /\ transferCancelers' = [transferCancelers EXCEPT ![<<p, r>>] = NoCanceler]
    /\ revoked' = revoked \cup Pending(<<p, r>>)
    /\ UNCHANGED <<target, pc, after, afterFired, resultSent, submitted, nextId>>

\* CancelTransferProposals: cancelTransferProposal for every replica that
\* has a canceler stored under partition p.
CancelTransferProposals(p) ==
    LET stored == { t \in {p} \X Replica : transferCancelers[t] # NoCanceler }
    IN /\ ctxDone' = [id \in Ids |->
                        ctxDone[id] \/ \E t \in stored : transferCancelers[t] = id]
       /\ transferCancelers' = [t \in Targets |->
                        IF t \in stored THEN NoCanceler ELSE transferCancelers[t]]
       /\ revoked' = revoked \cup UNION { Pending(t) : t \in {p} \X Replica }
       /\ UNCHANGED <<target, pc, after, afterFired, resultSent, submitted, nextId>>

Next ==
    \/ \E p \in Partition, r \in Replica :
          \/ \E a \in 0..nextId - 1 : QueueTransferProposal(p, r, a)
          \/ CancelTransferProposal(p, r)
    \/ \E p \in Partition : CancelTransferProposals(p)
    \/ \E id \in Ids : FireAfter(id) \/ WaitAfter(id) \/ ClusterCommand(id) \/ Cleanup(id)

Spec == Init /\ [][Next]_vars

\* Every proposal runs in its own goroutine, which the Go scheduler keeps
\* running.  ClusterCommand is not assumed to return: the comment at its
\* call (line 77) reports that for some proposals it does not.  It is
\* assumed to return once its context is cancelled, since it takes ctx
\* and every RPC honours its context (spec.md section 5).  Callers and
\* `after` get no fairness.
FairSpec ==
    /\ Spec
    /\ \A id \in Ids : /\ WF_vars(WaitAfter(id))
                      /\ WF_vars(ctxDone[id] /\ ClusterCommand(id))
                      /\ WF_vars(Cleanup(id))

-----------------------------------------------------------------------------

TypeOK ==
    /\ transferCancelers \in [Targets -> Ids \cup {NoCanceler}]
    /\ target \in [Ids -> Targets]
    /\ pc \in [Ids -> PC]
    /\ ctxDone \in [Ids -> BOOLEAN]
    /\ after \in [Ids -> 0..MaxProposals]
    /\ afterFired \in [Ids -> BOOLEAN]
    /\ resultSent \subseteq Ids
    /\ submitted \subseteq Ids
    /\ nextId \in 1..MaxProposals + 1
    /\ revoked \subseteq Ids

\* PendingProposals(p): the number of replicas of p with a canceler stored.
PendingProposals(p) ==
    Cardinality({ r \in Replica : transferCancelers[<<p, r>>] # NoCanceler })

\* QueuedProposals: the (partition, replica) pairs with a canceler stored.
QueuedProposals ==
    { t \in Targets : transferCancelers[t] # NoCanceler }

\* The most recent proposal queued for t, or NoCanceler.
Latest(t) ==
    LET ids == { id \in Ids : pc[id] # "unused" /\ target[id] = t }
    IN IF ids = {} THEN NoCanceler ELSE CHOOSE id \in ids : \A j \in ids : j <= id

\* The replicas whose latest proposal is still running and not cancelled.
LiveTargets ==
    { t \in Targets : LET id == Latest(t) IN
                        /\ id # NoCanceler
                        /\ pc[id] \in {"wait", "propose", "cleanup"}
                        /\ ~ctxDone[id] }

\* What QueuedProposals and PendingProposals report is exact: a replica is
\* listed if and only if its latest proposal is still running and was not
\* cancelled, and the map holds that proposal's canceler.  An older
\* proposal's cleanup racing a newer one for the same replica must not
\* drop the newer entry (the identity check), and a finished or cancelled
\* proposal must not stay listed.
QueuedProposalsExact ==
    /\ QueuedProposals = LiveTargets
    /\ \A t \in LiveTargets : transferCancelers[t] = Latest(t)
    /\ \A p \in Partition :
          PendingProposals(p) = Cardinality({ t \in LiveTargets : t[1] = p })

\* Cancelling a proposal releases its goroutine: whether it is still in
\* the select on `after` and ctx.Done() (the ctx case returns at line 74)
\* or blocked in ClusterCommand (which the cancelled context ends), its
\* goroutine eventually returns, even when `after` never fires and
\* ClusterCommand would otherwise hang.
CancelReleasesProposal ==
    \A id \in Ids : ctxDone[id] ~> pc[id] = "done"

\* A proposal cancelled after it passed its wait still resolves its
\* future: the cancel has usually emptied the partition's map, so the
\* cleanup takes its early return (line 87), and the deferred function
\* must send the result on that path too.
ResultAfterCancel ==
    \A id \in Ids : (ctxDone[id] /\ pc[id] \in {"propose", "cleanup"}) ~> id \in resultSent

\* Sequenced transfers (spec.md section 8, scenario 6): a proposal chained
\* after another submits its command only if its predecessor submitted
\* its own, so cancelling the first proposal stops the second.
ChainedSubmitsOnlyAfterPredecessor ==
    \A id \in submitted : after[id] # 0 => after[id] \in submitted

\* Cancelling (partition, replica) stops every pending and in-flight
\* proposal for it (spec.md section 4.I): no proposal that was pending when
\* the cancel returned submits its command afterwards.
CancelStopsEveryPending ==
    [][\A id \in revoked : id \notin submitted => id \notin submitted']_vars

=============================================================================
