--------------------------- MODULE ServerLifecycle ---------------------------
(***************************************************************************)
(* NewServer, Start and Stop of src/io/server.go.                         *)
(*                                                                         *)
(* NewServer opens the storage driver.  Start listens on the port, opens  *)
(* the storage driver again (a second Open closes and reopens the          *)
(* database, as src/storageEngine_test.go requires), stores the listener  *)
(* in the field server.listener and serves on it until the listener is     *)
(* closed.  Stop closes the listener the field holds, if any, and then     *)
(* the storage driver.                                                     *)
(*                                                                         *)
(* The caller is the one src/io/sync_test.go uses: Start runs in its own   *)
(* goroutine, Stop is called from the caller's, and the caller then waits  *)
(* for Start to return before it may start the server again.  The field   *)
(* is written by Start and read by Stop with no lock; each access is one  *)
(* step here, so Stop reads it before or after the write.                 *)
(***************************************************************************)
EXTENDS Naturals

CONSTANTS MaxStarts,        \* bound on calls to Start
          MaxOpenFailures   \* bound on failing storageDriver.Open calls

Listeners == 1..MaxStarts   \* listener l is the one the l-th Start made
Nil == 0

VARIABLES storage,   \* the storage driver: "open" or "closed"
          lst,       \* lst[l]: listener l is "none" (not made), "bound" or "closed"
          field,     \* server.listener: a listener or Nil
          spc,       \* the Start goroutine: "idle", "listen", "open", "assign",
                     \* "serve" or "returned"
          mine,      \* the local variable listener of the running Start
          caller,    \* "ready", "started", "stopping", "stopped" or "waiting"
          starts,    \* calls to Start so far
          openFails  \* failed storageDriver.Open calls so far

vars == <<storage, lst, field, spc, mine, caller, starts, openFails>>

PortHeld == \E l \in Listeners : lst[l] = "bound"

\* NewServer succeeded: the storage driver is open and no listener exists.
Init ==
    /\ storage = "open"
    /\ lst = [l \in Listeners |-> "none"]
    /\ field = Nil
    /\ spc = "idle"
    /\ mine = Nil
    /\ caller = "ready"
    /\ starts = 0
    /\ openFails = 0

-----------------------------------------------------------------------------
(* The caller                                                              *)

\* go server.Start()
CallStart ==
    /\ caller = "ready"
    /\ starts < MaxStarts
    /\ spc \in {"idle", "returned"}
    /\ spc' = "listen"
    /\ starts' = starts + 1
    /\ caller' = "started"
    /\ UNCHANGED <<storage, lst, field, mine, openFails>>

\* Stop: the listener the field holds now, if any, is closed.
StopListener ==
    /\ caller \in {"started", "ready"}
    /\ lst' = IF field # Nil THEN [lst EXCEPT ![field] = "closed"] ELSE lst
    /\ caller' = IF caller = "started" THEN "stopping" ELSE "stopped"
    /\ UNCHANGED <<storage, field, spc, mine, starts, openFails>>

\* Stop: storageDriver.Close(), and Stop returns.
StopStorage ==
    /\ caller \in {"stopping", "stopped"}
    /\ storage' = "closed"
    /\ caller' = IF caller = "stopping" THEN "waiting" ELSE "ready"
    /\ UNCHANGED <<lst, field, spc, mine, starts, openFails>>

\* <-stop: Start has returned.
AwaitStart ==
    /\ caller = "waiting"
    /\ spc = "returned"
    /\ caller' = "ready"
    /\ UNCHANGED <<storage, lst, field, spc, mine, starts, openFails>>

-----------------------------------------------------------------------------
(* The Start goroutine                                                     *)

\* net.Listen (or tls.Listen): it fails while a listener holds the port,
\* and then Start calls server.Stop() itself and returns the error.
Listen ==
    /\ spc = "listen"
    /\ IF PortHeld
       THEN /\ lst' = IF field # Nil THEN [lst EXCEPT ![field] = "closed"] ELSE lst
            /\ storage' = "closed"
            /\ spc' = "returned"
            /\ UNCHANGED mine
       ELSE /\ lst' = [lst EXCEPT ![starts] = "bound"]
            /\ mine' = starts
            /\ spc' = "open"
            /\ UNCHANGED storage
    /\ UNCHANGED <<field, caller, starts, openFails>>

\* storageDriver.Open(): on failure Start returns EStorage.
OpenStorage ==
    /\ spc = "open"
    /\ \/ /\ storage' = "open"
          /\ spc' = "assign"
          /\ UNCHANGED openFails
       \/ /\ openFails < MaxOpenFailures
          /\ openFails' = openFails + 1
          /\ spc' = "returned"
          /\ UNCHANGED storage
    /\ UNCHANGED <<lst, field, mine, caller, starts>>

\* server.listener = listener
Assign ==
    /\ spc = "assign"
    /\ field' = mine
    /\ spc' = "serve"
    /\ UNCHANGED <<storage, lst, mine, caller, starts, openFails>>

\* httpServer.Serve(server.listener) returns once the listener is closed.
ServeReturns ==
    /\ spc = "serve"
    /\ lst[field] = "closed"
    /\ spc' = "returned"
    /\ UNCHANGED <<storage, lst, field, mine, caller, starts, openFails>>

\* The caller has made its last call and nothing is left running.
Finished ==
    /\ caller = "ready"
    /\ starts = MaxStarts
    /\ spc \in {"idle", "returned"}
    /\ UNCHANGED vars

Next ==
    \/ CallStart \/ StopListener \/ StopStorage \/ AwaitStart
    \/ Listen \/ OpenStorage \/ Assign \/ ServeReturns
    \/ Finished

\* The Go scheduler runs the Start goroutine and a Stop in progress; the
\* caller chooses when to call Start and Stop.
Spec ==
    /\ Init /\ [][Next]_vars
    /\ WF_vars(Listen) /\ WF_vars(OpenStorage) /\ WF_vars(Assign)
    /\ WF_vars(ServeReturns) /\ WF_vars(StopStorage) /\ WF_vars(AwaitStart)

-----------------------------------------------------------------------------

\* Stop shuts the server down: once the caller has called Stop after Start,
\* Start eventually returns, the port is free and the storage is closed.
\* src/io/sync_test.go relies on it: its AfterEach calls Stop and then
\* waits for Start to return.
StopShutsDown ==
    caller = "waiting" ~> (spc = "returned" /\ ~PortHeld /\ storage = "closed")

=============================================================================
