-------------------------- MODULE GarbageCollector --------------------------
(***************************************************************************)
(* Start and Stop of the garbage collector of src/gc.go.                  *)
(*                                                                         *)
(* Start spawns a goroutine that loops on a select between the field      *)
(* garbageCollector.done and a fresh time.After timer: on the timer it    *)
(* sweeps every bucket (the GarbageCollect action of Replication), on      *)
(* done it stores a new channel in the field and returns.  Stop closes    *)
(* the channel the field holds at the time.                               *)
(*                                                                         *)
(* The select evaluates garbageCollector.done once, when it is entered,   *)
(* and then blocks on that channel; the field is read and written without  *)
(* a lock by the goroutines and by Stop, and each access is a single step  *)
(* here, so every interleaving of them is explored.  A channel is a        *)
(* number; channel 0 is the one NewGarbageCollector makes.                 *)
(*                                                                         *)
(* The caller alternates Start and Stop, the way a server starts its      *)
(* collector when it comes up and stops it when it shuts down, and may do  *)
(* so repeatedly.                                                          *)
(***************************************************************************)
EXTENDS Naturals

CONSTANTS MaxStarts      \* bound on calls to Start

Goroutines == 1..MaxStarts
Chans == 0..MaxStarts    \* channel 0 and one per goroutine's reset

VARIABLES done,          \* the field garbageCollector.done
          closed,        \* the channels closed so far
          nextChan,      \* the next channel make(chan bool) returns
          gpc,           \* gpc[g]: where goroutine g is
          gch,           \* gch[g]: the channel g's select is blocked on
          started,       \* the caller has called Start and not yet Stop
          starts,        \* calls to Start so far
          panicked       \* Stop closed a closed channel: the process panicked

vars == <<done, closed, nextChan, gpc, gch, started, starts, panicked>>

\* "idle": not spawned; "loop": at the top of the for loop; "blocked": in
\* the select; "sweeping": in the sweep over the buckets; "reset": the
\* done case was chosen; "exited": returned.
PC == {"idle", "loop", "blocked", "sweeping", "reset", "exited"}

\* NewGarbageCollector: the field holds a fresh, open channel.
Init ==
    /\ done = 0
    /\ closed = {}
    /\ nextChan = 1
    /\ gpc = [g \in Goroutines |-> "idle"]
    /\ gch = [g \in Goroutines |-> 0]
    /\ started = FALSE
    /\ starts = 0
    /\ panicked = FALSE

\* Start: spawn the sweep goroutine.
Start ==
    /\ ~panicked
    /\ ~started
    /\ starts < MaxStarts
    /\ gpc' = [gpc EXCEPT ![starts + 1] = "loop"]
    /\ started' = TRUE
    /\ starts' = starts + 1
    /\ UNCHANGED <<done, closed, nextChan, gch, panicked>>

\* Mutation of Stop: it closes the channel and installs a fresh one, so
\* that a second Stop cannot close a closed channel.
StopReplacingDone ==
    /\ ~panicked
    /\ started
    /\ closed' = closed \cup {done}
    /\ done' = nextChan
    /\ nextChan' = nextChan + 1
    /\ started' = FALSE
    /\ UNCHANGED <<gpc, gch, starts, panicked>>

\* Stop: close(garbageCollector.done).  Closing a closed channel panics.
Stop ==
    /\ ~panicked
    /\ started
    /\ IF done \in closed
       THEN /\ panicked' = TRUE
            /\ UNCHANGED closed
       ELSE /\ closed' = closed \cup {done}
            /\ UNCHANGED panicked
    /\ started' = FALSE
    /\ UNCHANGED <<done, nextChan, gpc, gch, starts>>

\* The select is entered: it reads the field and a new timer is made.
EnterSelect(g) ==
    /\ ~panicked
    /\ gpc[g] = "loop"
    /\ gch' = [gch EXCEPT ![g] = done]
    /\ gpc' = [gpc EXCEPT ![g] = "blocked"]
    /\ UNCHANGED <<done, closed, nextChan, started, starts, panicked>>

\* The done case: its channel is closed.  A fresh timer is never ready
\* before a closed channel, so this case wins whenever it is ready.
DoneCase(g) ==
    /\ ~panicked
    /\ gpc[g] = "blocked"
    /\ gch[g] \in closed
    /\ gpc' = [gpc EXCEPT ![g] = "reset"]
    /\ UNCHANGED <<done, closed, nextChan, gch, started, starts, panicked>>

\* Mutation of TimerCase: the timer case is taken even when done is closed.
TimerCaseWhenClosed(g) ==
    /\ ~panicked
    /\ gpc[g] = "blocked"
    /\ gpc' = [gpc EXCEPT ![g] = "sweeping"]
    /\ UNCHANGED <<done, closed, nextChan, gch, started, starts, panicked>>

\* The timer case: the interval passed while done stayed open.
TimerCase(g) ==
    /\ ~panicked
    /\ gpc[g] = "blocked"
    /\ gch[g] \notin closed
    /\ gpc' = [gpc EXCEPT ![g] = "sweeping"]
    /\ UNCHANGED <<done, closed, nextChan, gch, started, starts, panicked>>

\* The sweep over every bucket ends; the loop goes round.
SweepDone(g) ==
    /\ ~panicked
    /\ gpc[g] = "sweeping"
    /\ gpc' = [gpc EXCEPT ![g] = "loop"]
    /\ UNCHANGED <<done, closed, nextChan, gch, started, starts, panicked>>

\* garbageCollector.done = make(chan bool); return
ResetDone(g) ==
    /\ ~panicked
    /\ gpc[g] = "reset"
    /\ done' = nextChan
    /\ nextChan' = nextChan + 1
    /\ gpc' = [gpc EXCEPT ![g] = "exited"]
    /\ UNCHANGED <<closed, gch, started, starts, panicked>>

\* The caller has made its last call, or the process panicked: nothing
\* further happens outside the goroutines.
Terminated ==
    /\ panicked \/ (starts = MaxStarts /\ ~started)
    /\ UNCHANGED vars

Next ==
    \/ Start \/ Stop
    \/ \E g \in Goroutines :
          \/ EnterSelect(g) \/ DoneCase(g) \/ TimerCase(g)
          \/ SweepDone(g) \/ ResetDone(g)
    \/ Terminated

\* The Go scheduler runs every runnable goroutine and time.After fires once
\* its interval has passed, so every goroutine step is weakly fair.  The
\* caller's Start and Stop get no fairness.
Fairness ==
    \A g \in Goroutines :
        /\ WF_vars(EnterSelect(g)) /\ WF_vars(DoneCase(g)) /\ WF_vars(TimerCase(g))
        /\ WF_vars(SweepDone(g)) /\ WF_vars(ResetDone(g))

Spec == Init /\ [][Next]_vars /\ Fairness

-----------------------------------------------------------------------------

TypeOK ==
    /\ done \in Chans
    /\ closed \subseteq Chans
    /\ nextChan \in 1..MaxStarts + 1
    /\ gpc \in [Goroutines -> PC]
    /\ gch \in [Goroutines -> Chans]
    /\ started \in BOOLEAN
    /\ starts \in 0..MaxStarts
    /\ panicked \in BOOLEAN

Running(g) == ~panicked /\ gpc[g] \in {"loop", "blocked", "sweeping"}

\* Stop never closes a channel that is already closed: a caller that
\* alternates Start and Stop never makes the process panic in close().
NoDoubleClose == ~panicked

\* At most one goroutine sweeps at a time, however Start and Stop race the
\* goroutines: a goroutine started after a Stop must not sweep while the
\* stopped goroutine is still in its sweep (the sweeps of one bucket would
\* run concurrently).  It rests on the order in the done case, where the
\* field is reset only after the old goroutine left its sweep.
NoConcurrentSweeps ==
    \A g, h \in Goroutines : gpc[g] = "sweeping" /\ gpc[h] = "sweeping" => g = h

\* Stop ends the sweeping: after Stop, unless Start is called again, every
\* goroutine eventually returns.
StopQuiesces == [](~started => <>(started \/ \A g \in Goroutines : ~Running(g)))

=============================================================================
