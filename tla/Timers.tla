------------------------------- MODULE Timers -------------------------------
(***************************************************************************)
(* setTimeout / setInterval on libuv, as src/src/runtime.cpp builds them:  *)
(* the table of timer contexts uvTimers_, the queue of fired timers that   *)
(* the main loop drains once a frame, the ids cancelled while queued, hot  *)
(* reload and shutdown.                                                    *)
(*                                                                         *)
(* A timer c \in Timer is one UvTimerContext: the c-th one createUvTimer   *)
(* allocates.  Its id is what JavaScript holds; ids restart at 1 when the  *)
(* script is reloaded, so an id may name several contexts over a run.      *)
(* The context is owned by the table (unique_ptr): it is freed when its    *)
(* entry is erased or overwritten, whatever its libuv handle is doing.     *)
(*                                                                         *)
(* Time is abstracted: any set of running timers may be due when the loop  *)
(* polls, since JavaScript may choose any delays.                          *)
(***************************************************************************)
EXTENDS Integers, Sequences, Functions

CONSTANTS
    MaxTimers,   \* Bound: how many timers the scripts create altogether
    MaxReloads   \* Bound: how often the watched script is reloaded

ASSUME MaxTimersAssumption  == MaxTimers \in Nat \ {0}
ASSUME MaxReloadsAssumption == MaxReloads \in Nat

Timer   == 1 .. MaxTimers
Id      == 1 .. MaxTimers
NoTimer == 0             \* no table entry, or no callback on the stack

(* The life of the uv_timer_t embedded in a context.                       *)
(*   active   started, will fire       fired    a timeout whose one firing *)
(*   closing  uv_close was called               is over; still in the loop *)
(*   closed   the loop has forgotten it                                    *)
HandleState == {"none", "active", "fired", "closing", "closed"}
InLoop      == {"active", "fired", "closing"}

VARIABLES
    pc,                 \* where the main thread is, see Phase
    created,            \* number of contexts allocated so far
    base,               \* contexts allocated before the last reload
    reloads,            \* number of reloads so far
    intervals,          \* the contexts with intervalMs > 0
    id,                 \* id[c]
    cancelled,          \* the contexts whose cancelled flag is set
    handle,             \* handle[c]
    protects,           \* protect() minus unprotect() calls on c's callback
    uvTimers,           \* uvTimers_, NoTimer where there is no entry
    nextTimerId,        \* nextTimerId_
    pending,            \* pendingTimerCallbacks_, a queue of contexts
    toProcess,          \* the batch executeTimerCallbacks swapped out
    cancelledTimerIds,  \* cancelledTimerIds_
    due,                \* timers libuv found expired in this poll
    current,            \* the timer whose callback is on the stack
    cleared,            \* history: timers JavaScript called clear...() on
    ran,                \* history: timers whose callback was called
    dangling            \* history: contexts freed with their handle in the loop

ctxVars  == <<created, intervals, id, cancelled, handle, protects>>
vars == <<pc, created, base, reloads, intervals, id, cancelled, handle, protects,
          uvTimers, nextTimerId, pending, toProcess, cancelledTimerIds, due,
          current, cleared, ran, dangling>>

(* script   the entry script runs for the first time                       *)
(* close    uv_run calls the close callbacks                               *)
(* fire     uv_run calls the timer callbacks of the timers in due          *)
(* events   other work of pollEvents before the timers (HTTP, WebTransport)*)
(* reload   the entry script runs again inside reloadScript                *)
(* timers   executeTimerCallbacks, between two callbacks                   *)
(* call     executeTimerCallbacks, inside a callback                       *)
(* frame    file, Draco and animation frame callbacks                      *)
(* drain    RuntimeImpl::shutdown, inside EventLoop::shutdown              *)
Phase == {"script", "close", "fire", "events", "reload", "timers", "call",
          "frame", "drain", "down", "crashed"}

(* JavaScript runs, and may call the timer functions, in these phases.     *)
InJS == pc \in {"script", "events", "reload", "call", "frame"}

(* No context was freed while libuv could still use its handle.            *)
MemorySafe == dangling = {}

(* The contexts the table holds, and those of them not yet cancelled.      *)
Owned(c) == uvTimers[id[c]] = c
Live(c)  == Owned(c) /\ c \notin cancelled

(* The callback of c waits to be called.                                   *)
Queued(c) == c \in Range(pending) \cup Range(toProcess)

-----------------------------------------------------------------------------
Init ==
    /\ pc = "script"
    /\ created = 0 /\ base = 0 /\ reloads = 0
    /\ id       = [c \in Timer |-> 1]
    /\ handle   = [c \in Timer |-> "none"]
    /\ protects = [c \in Timer |-> 0]
    /\ uvTimers = [i \in Id |-> NoTimer]
    /\ nextTimerId = 1
    /\ pending = <<>> /\ toProcess = <<>>
    /\ cancelledTimerIds = {} /\ due = {}
    /\ current = NoTimer
    /\ intervals = {} /\ cancelled = {}
    /\ cleared = {} /\ ran = {} /\ dangling = {}

(* createUvTimer: a fresh context takes the next id, its callback is       *)
(* protected, its handle started, and the table entry of that id replaced: *)
(* a context that was still there is freed on the spot.                    *)
CreateTimer(isInterval) ==
    /\ InJS
    /\ created < MaxTimers
    /\ LET c == created + 1
           i == nextTimerId
       IN  /\ created'     = c
           /\ nextTimerId' = i + 1
           /\ id'          = [id EXCEPT ![c] = i]
           /\ intervals'   = IF isInterval THEN intervals \cup {c} ELSE intervals
           /\ cancelled'   = cancelled \ {c}
           /\ handle'      = [handle EXCEPT ![c] = "active"]
           /\ protects'    = [protects EXCEPT ![c] = @ + 1]
           /\ uvTimers'    = [uvTimers EXCEPT ![i] = c]
           /\ dangling'    = dangling \cup {old \in {uvTimers[i]} \ {NoTimer} : handle[old] \in InLoop}
    /\ UNCHANGED <<pc, base, reloads, pending, toProcess, cancelledTimerIds,
                   due, current, cleared, ran>>

SetTimeout  == CreateTimer(FALSE)
SetInterval == CreateTimer(TRUE)

(* Mutant: the flag "cancelled" is not looked at.                           *)
CancellableTwice(i) == uvTimers[i] # NoTimer

Cancellable(i) == uvTimers[i] # NoTimer /\ uvTimers[i] \notin cancelled

(* Mutant: the queue is not told that the timer was cancelled.             *)
ClearForgetsQueue(i) ==
    /\ InJS
    /\ cleared' = cleared \cup {c \in Timer : c = base + i /\ c <= created}
    /\ IF Cancellable(i)
       THEN /\ cancelled' = cancelled \cup {uvTimers[i]}
            /\ handle'    = [handle EXCEPT ![uvTimers[i]] = "closing"]
            /\ protects'  = [protects EXCEPT ![uvTimers[i]] = @ - 1]
       ELSE UNCHANGED <<cancelled, handle, protects>>
    /\ UNCHANGED <<pc, created, base, reloads, intervals, id, uvTimers, nextTimerId,
                   pending, toProcess, cancelledTimerIds, due, current, ran, dangling>>

(* clearTimeout and clearInterval are the same cancelUvTimer: nothing      *)
(* happens unless the table holds a context of that id not yet cancelled.  *)
ClearTimer(i) ==
    /\ InJS
    /\ cleared' = cleared \cup {c \in Timer : c = base + i /\ c <= created}
    /\ IF Cancellable(i)
       THEN LET c == uvTimers[i]
            IN  /\ cancelled' = cancelled \cup {c}
                /\ handle'    = [handle EXCEPT ![c] = "closing"]
                /\ protects'  = [protects EXCEPT ![c] = @ - 1]
                /\ cancelledTimerIds' = cancelledTimerIds \cup {i}
       ELSE UNCHANGED <<cancelled, handle, protects, cancelledTimerIds>>
    /\ UNCHANGED <<pc, created, base, reloads, intervals, id, uvTimers, nextTimerId,
                   pending, toProcess, due, current, ran, dangling>>

ScriptLoaded ==
    /\ pc = "script"
    /\ pc' = "close"
    /\ UNCHANGED <<ctxVars, base, reloads, uvTimers, nextTimerId, pending, toProcess,
                   cancelledTimerIds, due, current, cleared, ran, dangling>>

-----------------------------------------------------------------------------
(* EventLoop::runOnce: uv_run(UV_RUN_NOWAIT) first finishes every closing  *)
(* handle (the order is libuv's own) and calls its close callback, here    *)
(* onTimerClose, which erases the table entry of the context's id,         *)
(* whichever context that entry owns by now.                               *)
CloseHandle(c) ==
    /\ pc = "close"
    /\ handle[c] = "closing"
    /\ handle'   = [handle EXCEPT ![c] = "closed"]
    /\ uvTimers' = [uvTimers EXCEPT ![id[c]] = NoTimer]
    /\ dangling' = dangling \cup {d \in {uvTimers[id[c]]} \ {c, NoTimer} : handle[d] \in InLoop}
    /\ UNCHANGED <<pc, created, base, reloads, intervals, id, cancelled, protects,
                   nextTimerId, pending, toProcess, cancelledTimerIds, due, current,
                   cleared, ran>>

(* Then it collects the timers that have expired.                          *)
CollectDue ==
    /\ pc = "close"
    /\ \A c \in Timer : handle[c] # "closing"
    /\ due' \in SUBSET {c \in Timer : handle[c] = "active"}
    /\ pc' = "fire"
    /\ UNCHANGED <<ctxVars, base, reloads, uvTimers, nextTimerId, pending, toProcess,
                   cancelledTimerIds, current, cleared, ran, dangling>>

(* Mutant: a timeout that fired is not marked cancelled.                   *)
FireKeepsCancellable(c) ==
    /\ pc = "fire"
    /\ c \in due
    /\ due' = due \ {c}
    /\ pending' = IF c \in cancelled THEN pending ELSE Append(pending, c)
    /\ handle' = IF c \in intervals THEN handle ELSE [handle EXCEPT ![c] = "fired"]
    /\ UNCHANGED <<pc, created, base, reloads, intervals, id, cancelled, protects,
                   uvTimers, nextTimerId, toProcess, cancelledTimerIds, current,
                   cleared, ran, dangling>>

(* Mutant: an interval is queued only if nothing else is.                  *)
FireStarvesIntervals(c) ==
    /\ pc = "fire"
    /\ c \in due
    /\ due' = due \ {c}
    /\ IF c \in cancelled \/ (c \in intervals /\ pending # <<>>)
       THEN UNCHANGED <<pending, cancelled, handle>>
       ELSE /\ pending' = Append(pending, c)
            /\ IF c \in intervals
               THEN UNCHANGED <<cancelled, handle>>
               ELSE /\ cancelled' = cancelled \cup {c}
                    /\ handle' = [handle EXCEPT ![c] = "fired"]
    /\ UNCHANGED <<pc, created, base, reloads, intervals, id, protects, uvTimers,
                   nextTimerId, toProcess, cancelledTimerIds, current, cleared,
                   ran, dangling>>

(* onUvTimerCallback: queue the callback; a timeout is marked cancelled.   *)
FireTimer(c) ==
    /\ pc = "fire"
    /\ c \in due
    /\ due' = due \ {c}
    /\ IF c \in cancelled
       THEN UNCHANGED <<pending, cancelled, handle>>
       ELSE /\ pending' = Append(pending, c)
            /\ IF c \in intervals
               THEN UNCHANGED <<cancelled, handle>>
               ELSE /\ cancelled' = cancelled \cup {c}
                    /\ handle' = [handle EXCEPT ![c] = "fired"]
    /\ UNCHANGED <<pc, created, base, reloads, intervals, id, protects, uvTimers,
                   nextTimerId, toProcess, cancelledTimerIds, current, cleared,
                   ran, dangling>>

AllFired ==
    /\ pc = "fire"
    /\ due = {}
    /\ pc' = "events"
    /\ UNCHANGED <<ctxVars, base, reloads, uvTimers, nextTimerId, pending, toProcess,
                   cancelledTimerIds, due, current, cleared, ran, dangling>>

-----------------------------------------------------------------------------
(* Mutant: the reload keeps the callbacks that are already queued.         *)
ReloadKeepsQueue ==
    /\ pc = "events"
    /\ reloads < MaxReloads
    /\ reloads' = reloads + 1
    /\ base'    = created
    /\ cancelled' = cancelled \cup {c \in Timer : Live(c)}
    /\ handle'    = [c \in Timer |-> IF Live(c) THEN "closing" ELSE handle[c]]
    /\ protects'  = [c \in Timer |-> IF Live(c) THEN protects[c] - 1 ELSE protects[c]]
    /\ cancelledTimerIds' = {}
    /\ nextTimerId' = 1
    /\ pc' = "reload"
    /\ UNCHANGED <<created, intervals, id, uvTimers, pending, toProcess, due, current,
                   cleared, ran, dangling>>

(* reloadScript, when the file watcher asked for it.  clearAllTimers       *)
(* closes the timers not yet cancelled, forgets the queue and the          *)
(* cancelled ids and restarts the ids; it keeps the table, whose closing   *)
(* entries onTimerClose is to erase later.  Then the script runs again.    *)
ReloadScript ==
    /\ pc = "events"
    /\ reloads < MaxReloads
    /\ reloads' = reloads + 1
    /\ base'    = created
    /\ cancelled' = cancelled \cup {c \in Timer : Live(c)}
    /\ handle'    = [c \in Timer |-> IF Live(c) THEN "closing" ELSE handle[c]]
    /\ protects'  = [c \in Timer |-> IF Live(c) THEN protects[c] - 1 ELSE protects[c]]
    /\ cancelledTimerIds' = {}
    /\ pending' = <<>>
    /\ nextTimerId' = 1
    /\ pc' = "reload"
    /\ UNCHANGED <<created, intervals, id, uvTimers, toProcess, due, current, cleared,
                   ran, dangling>>

(* executeTimerCallbacks swaps the queue out ...                           *)
TakePending ==
    /\ pc \in {"events", "reload"}
    /\ toProcess' = pending
    /\ pending' = <<>>
    /\ pc' = "timers"
    /\ UNCHANGED <<ctxVars, base, reloads, uvTimers, nextTimerId, cancelledTimerIds,
                   due, current, cleared, ran, dangling>>

(* ... drops the entries cancelled while they waited ...                   *)
SkipCancelled ==
    /\ pc = "timers"
    /\ toProcess # <<>>
    /\ id[Head(toProcess)] \in cancelledTimerIds
    /\ cancelledTimerIds' = cancelledTimerIds \ {id[Head(toProcess)]}
    /\ toProcess' = Tail(toProcess)
    /\ UNCHANGED <<pc, ctxVars, base, reloads, uvTimers, nextTimerId, pending, due,
                   current, cleared, ran, dangling>>

(* ... calls the others ...                                                *)
CallTimer ==
    /\ pc = "timers"
    /\ toProcess # <<>>
    /\ id[Head(toProcess)] \notin cancelledTimerIds
    /\ current' = Head(toProcess)
    /\ ran' = ran \cup {current'}
    /\ toProcess' = Tail(toProcess)
    /\ pc' = "call"
    /\ UNCHANGED <<ctxVars, base, reloads, uvTimers, nextTimerId, pending,
                   cancelledTimerIds, due, cleared, dangling>>

(* ... and after a timeout's callback releases what the table holds under  *)
(* its id: uv_close of a handle that is already closing is undefined.      *)
ReturnFromTimer ==
    /\ pc = "call"
    /\ pc' = "timers"
    /\ current' = NoTimer
    /\ IF current \notin intervals /\ uvTimers[id[current]] # NoTimer
       THEN LET c == uvTimers[id[current]]
            IN  /\ protects' = [protects EXCEPT ![c] = @ - 1]
                /\ handle'   = [handle EXCEPT ![c] = "closing"]
                /\ dangling' = IF handle[c] = "closing" THEN dangling \cup {c} ELSE dangling
       ELSE UNCHANGED <<handle, protects, dangling>>
    /\ UNCHANGED <<created, base, reloads, intervals, id, cancelled, uvTimers,
                   nextTimerId, pending, toProcess, cancelledTimerIds, due, cleared,
                   ran>>

TimersDone ==
    /\ pc = "timers"
    /\ toProcess = <<>>
    /\ pc' = "frame"
    /\ UNCHANGED <<ctxVars, base, reloads, uvTimers, nextTimerId, pending, toProcess,
                   cancelledTimerIds, due, current, cleared, ran, dangling>>

EndFrame ==
    /\ pc = "frame"
    /\ pc' = "close"
    /\ UNCHANGED <<ctxVars, base, reloads, uvTimers, nextTimerId, pending, toProcess,
                   cancelledTimerIds, due, current, cleared, ran, dangling>>

-----------------------------------------------------------------------------
(* RuntimeImpl::shutdown, once the main loop has ended: the live timers    *)
(* are stopped and their handles closed without a callback, and the table  *)
(* is cleared at once, which frees every context in it.                    *)
Shutdown ==
    /\ pc \in {"script", "frame"}
    /\ handle'   = [c \in Timer |-> IF Live(c) THEN "closing" ELSE handle[c]]
    /\ protects' = [c \in Timer |-> IF Live(c) THEN protects[c] - 1 ELSE protects[c]]
    /\ uvTimers' = [i \in Id |-> NoTimer]
    /\ dangling' = dangling \cup {c \in Timer : Owned(c) /\ handle[c] \in InLoop}
    /\ pc' = "drain"
    /\ UNCHANGED <<created, base, reloads, intervals, id, cancelled, nextTimerId,
                   pending, toProcess, cancelledTimerIds, due, current, cleared, ran>>

(* Mutant: the loop is run once only, before the handles left are closed.  *)
DrainRunsOnce ==
    /\ pc = "drain"
    /\ handle' = [c \in Timer |-> CASE handle[c] = "closing"          -> "closed"
                                   [] handle[c] \in {"active", "fired"} -> "closing"
                                   [] OTHER                            -> handle[c]]
    /\ pc' = "down"
    /\ UNCHANGED <<created, base, reloads, intervals, id, cancelled, protects, uvTimers,
                   nextTimerId, pending, toProcess, cancelledTimerIds, due, current,
                   cleared, ran, dangling>>

(* EventLoop::shutdown closes whatever handle is left and runs the loop    *)
(* until no handle is left in it.                                          *)
DrainLoop ==
    /\ pc = "drain"
    /\ handle' = [c \in Timer |-> IF handle[c] \in InLoop THEN "closed" ELSE handle[c]]
    /\ pc' = "down"
    /\ UNCHANGED <<created, base, reloads, intervals, id, cancelled, protects, uvTimers,
                   nextTimerId, pending, toProcess, cancelledTimerIds, due, current,
                   cleared, ran, dangling>>

(* A handle in freed memory may bring the process down at any point; the   *)
(* other actions are the outcome in which the memory still has its content.*)
Crash ==
    /\ dangling # {}
    /\ pc \notin {"down", "crashed"}
    /\ pc' = "crashed"
    /\ UNCHANGED <<ctxVars, base, reloads, uvTimers, nextTimerId, pending, toProcess,
                   cancelledTimerIds, due, current, cleared, ran, dangling>>

-----------------------------------------------------------------------------
CallFromJS ==
    \/ SetTimeout
    \/ SetInterval
    \/ \E i \in Id : ClearTimer(i)

(* What the main thread does next by itself in every phase.                *)
LoopStep ==
    \/ ScriptLoaded
    \/ \E c \in Timer : CloseHandle(c)
    \/ CollectDue
    \/ \E c \in Timer : FireTimer(c)
    \/ AllFired
    \/ TakePending
    \/ SkipCancelled
    \/ CallTimer
    \/ ReturnFromTimer
    \/ TimersDone
    \/ EndFrame
    \/ DrainLoop

Next == CallFromJS \/ LoopStep \/ ReloadScript \/ Shutdown \/ Crash

Spec == Init /\ [][Next]_vars

(* The main thread goes on for as long as it can, JavaScript returns to it *)
(* after finitely many calls, and a running timer expires in the end.      *)
Fairness ==
    /\ WF_vars(LoopStep)
    /\ \A c \in Timer : SF_vars(CollectDue /\ c \in due')

FairSpec == Spec /\ Fairness

-----------------------------------------------------------------------------
(* The promise of TimerService, as this module keeps it.  It ends when the *)
(* runtime is shut down, and when a context in use was freed: nothing can  *)
(* be said of the process from then on.                                    *)
Ended == ~MemorySafe \/ pc \in {"drain", "down", "crashed"}

StatusOf(c) ==
    IF Ended THEN "over"
    ELSE IF c > created THEN "unset"
    ELSE IF Queued(c) THEN "due"
    ELSE IF handle[c] = "active" THEN "waiting" ELSE "over"

Service == INSTANCE TimerService WITH
    status    <- [c \in Timer |-> StatusOf(c)],
    intervals <- IF Ended THEN {} ELSE intervals,
    cleared   <- IF Ended THEN {} ELSE {c \in cleared : c > base},
    missed    <- {},
    early     <- {},
    calling   <- IF Ended THEN NoTimer ELSE current

(* The timers are a TimerService.                                          *)
ImplementsTimerService == Service!Spec

(* Every timer that waits is called in the end, time and again if it is an *)
(* interval, unless it is cleared, its script is reloaded or the program   *)
(* ends.                                                                   *)
EveryTimerResolves == Service!EveryTimerResolves

(* The types of the variables: in particular an id handed to JavaScript    *)
(* stays within the range of ids and the table only holds timers.          *)
TypeOK ==
    /\ pc \in Phase
    /\ created \in 0 .. MaxTimers /\ base \in 0 .. created
    /\ reloads \in 0 .. MaxReloads
    /\ intervals \subseteq Timer
    /\ id \in [Timer -> Id]
    /\ cancelled \subseteq Timer
    /\ handle \in [Timer -> HandleState]
    /\ protects \in [Timer -> Int]
    /\ uvTimers \in [Id -> Timer \cup {NoTimer}]
    /\ nextTimerId \in 1 .. MaxTimers + 1
    /\ pending \in Seq(Timer) /\ toProcess \in Seq(Timer)
    /\ cancelledTimerIds \subseteq Id
    /\ due \subseteq Timer
    /\ current \in Timer \cup {NoTimer}
    /\ cleared \subseteq Timer /\ ran \subseteq Timer /\ dangling \subseteq Timer

(* Until the script is reloaded, and as long as the runtime is up, no      *)
(* context is freed while libuv still refers to its handle: the promise of *)
(* onTimerClose ("Now it's safe to remove from the map - handle is fully   *)
(* closed").                                                               *)
SafeBeforeReload == reloads = 0 /\ pc \notin {"drain", "down", "crashed"} => MemorySafe

(* The callback of c may still be called, or is being called.  An interval *)
(* that JavaScript cleared while it waits in the queue is skipped there.   *)
Needed(c) ==
    handle[c] = "active" \/ (c \notin intervals /\ (Queued(c) \/ current = c))

(* The callback of a timer of the script that is running is protected from *)
(* the garbage collector exactly as long as it can still be called, or is  *)
(* being called: once as long, not at all afterwards.  A timer of a script *)
(* that was reloaded is never released twice; but a timeout that the       *)
(* reload dropped from the queue is never released either, which is what   *)
(* ReloadReleasesTimers below says.                                        *)
ProtectedWhileNeeded ==
    MemorySafe => \A c \in Timer :
        /\ protects[c] \in {0, 1}
        /\ c > base => protects[c] = IF Needed(c) THEN 1 ELSE 0

(* No timer is queued twice: a second entry would be called after the      *)
(* first one had been skipped and its callback released.                   *)
QueuedOnce ==
    /\ IsInjective(pending)
    /\ IsInjective(toProcess)
    /\ Range(pending) \cap Range(toProcess) = {}

(* A callback is called only while it is protected: never after the        *)
(* clear... or the reload that released it.                                *)
Calls(c) == pc = "timers" /\ pc' = "call" /\ current' = c
CalledOnlyWhileProtected ==
    [][\A c \in Timer : Calls(c) /\ MemorySafe => protects[c] = 1]_vars

(* An interval that JavaScript cleared is never called again, even if its  *)
(* callback was already in the queue or in the batch being executed.       *)
IntervalClearIsFinal ==
    [][\A c \in Timer : Calls(c) /\ c \in intervals /\ MemorySafe => c \notin cleared]_vars

(* "Check if cancelled while waiting in queue" (executeTimerCallbacks): a  *)
(* timer that JavaScript cleared is not called, be it timeout or interval. *)
ClearIsFinal == [][\A c \in Timer : Calls(c) /\ MemorySafe => c \notin cleared]_vars

(* A timeout is called at most once.                                       *)
TimeoutRunsOnce ==
    [][\A c \in Timer : Calls(c) /\ c \notin intervals /\ MemorySafe => c \notin ran]_vars

(* No timer of the script that ran before the last reload is ever called.  *)
OldTimersNeverRun == [][\A c \in Timer : Calls(c) /\ MemorySafe => c > base]_vars

(* After a reload nothing of the old script's timers is kept: "Stop and    *)
(* clean up all libuv timers" (clearAllTimers).                            *)
ReloadReleasesTimers == MemorySafe => \A c \in 1 .. base : protects[c] = 0

(* Reloading a script does not free a context that libuv still refers to:  *)
(* "Don't clear uvTimers_ here - onTimerClose will do that".               *)
ReloadIsMemorySafe == pc \notin {"drain", "down", "crashed"} => MemorySafe

(* Shutting down waits for pending handles to close before their contexts  *)
(* are freed ("waits for pending handles to close", shutdown).             *)
ShutdownIsMemorySafe == pc = "drain" /\ reloads = 0 => MemorySafe

(* A context whose handle is closing is freed in the end.                  *)
ClosedInTheEnd ==
    \A c \in Timer : handle[c] = "closing" ~> handle[c] = "closed" \/ pc = "crashed"
=============================================================================
