------------------------------- MODULE Lifecycle -------------------------------
(***************************************************************************)
(* An instance from New to Close (bootstrap/app.go, momobase.go): start-up *)
(* over a database other processes start on too (Migrations), then Serve   *)
(* with its workers (workers/manager.go), its listener and its requests,   *)
(* cancellation by the host, Close, and the end of the process at any time.*)
(*                                                                         *)
(* One instance is followed to its end, one worker and one request stand   *)
(* for them all.  The listener is fiber's: Listen ends when Shutdown stops *)
(* it, or by itself at any time, and Shutdown does nothing to a listener   *)
(* that is not up yet.                                                     *)
(***************************************************************************)
EXTENDS Migrations

CONSTANT Server   \* the process that is followed after its start-up

ASSUME LifecycleAssumption == Server \in Procs

VARIABLES
  served,     \* the one call of Serve that is accepted: where it is
  cancelled,  \* its context is done
  closing,    \* the body of Close
  waits,      \* Close found a Serve to wait for
  task,       \* a background task's goroutine
  listener,   \* the goroutine that listens
  request,    \* a handler is running
  left        \* history: how Serve came to leave handlers, or the listener, behind

life    == <<served, cancelled, closing, waits, task, listener, request, left>>
allVars == <<vars, life>>

Unborn ==
  /\ served = "no" /\ cancelled = FALSE /\ closing = "no" /\ waits = FALSE
  /\ task = "none" /\ listener = "none" /\ request = FALSE /\ left = "none"

Ready == stage[Server] = "ready"

-------------------------------------------------------------------------------
(* Serve.                                                                  *)

Serve ==
  /\ Ready /\ served = "no" /\ closing = "no"
  /\ served' = "loading"
  /\ UNCHANGED <<cancelled, closing, waits, task, listener, request, left>>

\* The deferred function, up to where it waits for the workers.
Leaves == served' = "leaving" /\ cancelled' = TRUE

Load ==
  /\ served = "loading"
  /\ \/ Leaves   \* it failed, or the context is done
     \/ ~cancelled /\ served' = "loaded" /\ UNCHANGED cancelled
  /\ UNCHANGED <<closing, waits, task, listener, request, left>>

StartAll ==
  /\ served = "loaded"
  /\ served' = "select" /\ task' = "running" /\ listener' = "starting"
  /\ UNCHANGED <<cancelled, closing, waits, request, left>>

\* The context or the listener, whichever is seen first.
SeesDone ==
  /\ served = "select" /\ cancelled
  /\ served' = "stopping"
  /\ UNCHANGED <<cancelled, closing, waits, task, listener, request, left>>

\* What is left of a listener that nobody stops: one that may come up yet, or the
\* handlers of one that is over, whose connections are open.
LeftBehind ==
  CASE listener = "starting" -> "early"
    [] listener = "ended"    -> "unstopped"
    [] OTHER                 -> left

SeesListener ==
  /\ served = "select" /\ listener \in {"failed", "ended"}
  /\ Leaves /\ left' = LeftBehind
  /\ UNCHANGED <<closing, waits, task, listener, request>>

\* It drains what is up.  Of a listener that is over it may do so too, or fail at closing
\* it, or find nothing to stop.
Shutdown ==
  /\ served = "stopping"
  /\ \/ /\ listener \in {"listening", "ended"}
        /\ listener' = "stopped" /\ served' = "draining"
        /\ UNCHANGED <<cancelled, left>>
     \/ /\ listener # "listening"
        /\ Leaves /\ left' = LeftBehind
        /\ UNCHANGED listener
  /\ UNCHANGED <<closing, waits, task, request>>

\* The handlers end, or the ten seconds do.
Drained ==
  /\ served = "draining"
  /\ Leaves
  /\ left' = (IF request THEN "overran" ELSE left)
  /\ UNCHANGED <<closing, waits, task, listener, request>>

AtOnce     == TRUE   \* (bug) nobody waits for the workers
WorkersEnd == task \in {"none", "ended"}

ServeEnds ==
  /\ served = "leaving" /\ WorkersEnd
  /\ served' = "done"
  /\ UNCHANGED <<cancelled, closing, waits, task, listener, request, left>>

-------------------------------------------------------------------------------
(* The goroutines Serve starts, and the requests.                          *)

Iterate ==
  /\ task = "running"
  /\ task' = "waiting"
  /\ UNCHANGED <<served, cancelled, closing, waits, listener, request, left>>

Tick ==
  /\ task = "waiting"
  /\ task' = "running"
  /\ UNCHANGED <<served, cancelled, closing, waits, listener, request, left>>

Deaf    == FALSE       \* (bug) the loop does not look at its context
Stopped == cancelled

TaskEnds ==
  /\ task = "waiting" /\ Stopped
  /\ task' = "ended"
  /\ UNCHANGED <<served, cancelled, closing, waits, listener, request, left>>

ListenerUp ==
  /\ listener = "starting"
  /\ listener' \in {"listening", "failed"}
  /\ UNCHANGED <<served, cancelled, closing, waits, task, request, left>>

\* A permanent failure of Accept, or the host that shuts App() down.
ListenerEnds ==
  /\ listener = "listening"
  /\ listener' = "ended"
  /\ UNCHANGED <<served, cancelled, closing, waits, task, request, left>>

\* A connection that was accepted asks again after the listener's own end.
Request ==
  /\ listener \in {"listening", "ended"} \/ request
  /\ request' = ~request
  /\ UNCHANGED <<served, cancelled, closing, waits, task, listener, left>>

-------------------------------------------------------------------------------
(* The host: it cancels the context it gave, and closes the instance.      *)

Cancel ==
  /\ served \notin {"no", "done"}
  /\ cancelled' = TRUE
  /\ UNCHANGED <<served, closing, waits, task, listener, request, left>>

Close ==
  /\ Ready /\ closing = "no"
  /\ closing' = "flagged"
  /\ waits' = (served # "no")
  /\ cancelled' = (cancelled \/ served # "no")
  /\ UNCHANGED <<served, task, listener, request, left>>

CloseDatabase ==
  /\ closing = "flagged" /\ (waits => served = "done")
  /\ closing' = "closed"
  /\ UNCHANGED <<served, cancelled, waits, task, listener, request, left>>

-------------------------------------------------------------------------------

Live ==
  /\ \/ Serve \/ Load \/ StartAll \/ SeesDone \/ SeesListener \/ Shutdown \/ Drained
     \/ ServeEnds \/ Iterate \/ Tick \/ TaskEnds \/ ListenerUp \/ ListenerEnds \/ Request
     \/ Cancel \/ Close \/ CloseDatabase
  /\ UNCHANGED vars

\* With its process the instance is gone.
Ends ==
  /\ Crash(Server)
  /\ served' = "no" /\ cancelled' = FALSE /\ closing' = "no" /\ waits' = FALSE
  /\ task' = "none" /\ listener' = "none" /\ request' = FALSE /\ left' = "none"

Others ==
  /\ \/ \E p \in Procs : StartUp(p)
     \/ \E p \in Procs \ {Server} : Crash(p)
     \/ Operator
  /\ UNCHANGED life

LifeInit == Init /\ Unborn
LifeNext == Live \/ Ends \/ Others

\* The goroutines run on, the handlers of a stopped listener get ten seconds, and of a
\* loop that waits for its ticker or its context, both ready again and again, neither is
\* passed over for ever.
Fairness ==
  /\ WF_allVars((Load \/ StartAll \/ SeesDone \/ Shutdown \/ Drained \/ ServeEnds) /\ UNCHANGED vars)
  /\ WF_allVars(Iterate /\ UNCHANGED vars)
  /\ SF_allVars(TaskEnds /\ UNCHANGED vars)
  /\ WF_allVars(CloseDatabase /\ UNCHANGED vars)

LifeSpec == LifeInit /\ [][LifeNext]_allVars /\ Fairness

-------------------------------------------------------------------------------

\* Every variable has its type.
LifeTypeOK ==
  /\ TypeOK
  /\ served \in {"no", "loading", "loaded", "select", "stopping", "draining", "leaving", "done"}
  /\ closing \in {"no", "flagged", "closed"}
  /\ task \in {"none", "running", "waiting", "ended"}
  /\ listener \in {"none", "starting", "listening", "stopped", "failed", "ended"}
  /\ {cancelled, waits, request} \subseteq BOOLEAN
  /\ left \in {"none", "overran", "early", "unstopped"}

\* "stops an active server and its workers before closing the database connection pool"
\* (app.go:341), as far as it goes: whenever Serve, its cancellation, the listener's end and
\* Close come, once the pool is closed Serve is over, no task runs and none will, and a
\* handler runs in three cases only, in which the sentence is not true: it ran on when
\* Shutdown had waited for ten seconds (312), Shutdown came before the listener was up
\* (315), or the listener had come to its own end and Serve left without Shutdown (320).
\* A listener that accepts, or will, is of the second kind.
DatabaseOutlivesWork ==
  closing = "closed" =>
    /\ served \in {"no", "done"} /\ task \in {"none", "ended"}
    /\ request => left # "none"
    /\ listener \in {"starting", "listening"} => left = "early"

\* A context that is done ends Serve, and Close comes to close the database, unless the
\* process ends first.
StopsWhenTold ==
  /\ cancelled ~> served \in {"no", "done"}
  /\ closing = "flagged" ~> closing # "flagged"
===============================================================================
