------------------------------ MODULE MainLoop ------------------------------
(***************************************************************************)
(* The main loop of the runtime: RuntimeImpl::run and pollEvents of        *)
(* src/src/runtime.cpp, requestAnimationFrame, process.exit, and the rule  *)
(* by which a program without a window ends by itself.                     *)
(*                                                                         *)
(* A frame callback is its id, 1, 2, ...  Everything else a script can     *)
(* wait for is a piece of work: a timer, a WebTransport session, or a      *)
(* request (HTTP, file read, mesh decode) whose callback is delivered      *)
(* when it completes.                                                      *)
(***************************************************************************)
EXTENDS Integers, Sequences, SequencesExt

CONSTANTS
    Timers,        \* the timers scripts may start
    Sessions,      \* the WebTransport sessions scripts may open
    Requests,      \* the requests scripts may make
    MaxFrameCalls  \* Bound: how often scripts call requestAnimationFrame

ASSUME FrameAssumption  == MaxFrameCalls \in Nat
ASSUME WorkAssumption   == Timers \cap Sessions = {} /\ (Timers \cup Sessions) \cap Requests = {}

Work == Timers \cup Sessions \cup Requests
RafId == 1 .. MaxFrameCalls
NoCallback == 0
maxIdleFrames == 3

VARIABLES
    noSdl,         \* config_.noSdl: there is no window
    pc,            \* where the main thread is, see Phase
    running,       \* running_
    idleFrames,    \* the frames without work that run() has counted
    rafCallbacks,  \* rafCallbacks_: the ids queued for the next frame
    batch,         \* the callbacks of this frame still to be called
    current,       \* the frame callback on the stack
    frameLimit,    \* history: nextRafId when the callbacks of the frame began
    nextRafId,     \* nextRafId_
    protects,      \* protect() minus unprotect() calls on a frame callback
    outstanding,   \* work that was started and has not ended
    started,       \* history: work started so far
    cancelled,     \* history: ids cancelled or dropped while still queued
    ran,           \* history: frame callbacks called
    reason         \* history: what ended the loop

loopVars == <<noSdl, pc, running, idleFrames, reason>>
rafVars  == <<rafCallbacks, batch, current, frameLimit, nextRafId, protects, cancelled, ran>>
workVars == <<outstanding, started>>
vars == <<loopVars, rafVars, workVars>>

(* load   the entry script runs            io      completed requests and  *)
(* poll   the window's events              reload    sessions report       *)
(* late   timers, file and mesh callbacks  frame   between frame callbacks *)
(* call   inside a frame callback          check   run() looks for work    *)
(* ended  run() has returned               down    shutdown is over        *)
Phase == {"load", "poll", "io", "reload", "late", "frame", "call", "check", "ended", "down"}
InJS  == pc \in {"load", "io", "reload", "late", "call"}

-----------------------------------------------------------------------------
Init ==
    /\ noSdl \in BOOLEAN
    /\ pc = "load" /\ running = TRUE /\ idleFrames = 0 /\ reason = "none"
    /\ rafCallbacks = <<>> /\ batch = <<>> /\ current = NoCallback
    /\ nextRafId = 1 /\ frameLimit = 1
    /\ protects = [i \in RafId |-> 0]
    /\ cancelled = {} /\ ran = {}
    /\ outstanding = {} /\ started = {}

(* requestAnimationFrame *)
RequestFrame ==
    /\ InJS
    /\ nextRafId \in RafId
    /\ rafCallbacks' = Append(rafCallbacks, nextRafId)
    /\ protects' = [protects EXCEPT ![nextRafId] = @ + 1]
    /\ nextRafId' = nextRafId + 1
    /\ UNCHANGED <<loopVars, batch, current, frameLimit, cancelled, ran, workVars>>

(* cancelAnimationFrame: a callback already moved into the batch of the    *)
(* running frame is not found, and nothing happens.                        *)
CancelFrame(i) ==
    /\ InJS
    /\ \E n \in DOMAIN rafCallbacks :
          rafCallbacks[n] = i /\ rafCallbacks' = RemoveAt(rafCallbacks, n)
    /\ protects' = [protects EXCEPT ![i] = @ - 1]
    /\ cancelled' = cancelled \cup {i}
    /\ UNCHANGED <<loopVars, batch, current, frameLimit, nextRafId, ran, workVars>>

StartWork(w) ==
    /\ InJS
    /\ w \notin started
    /\ started' = started \cup {w}
    /\ outstanding' = outstanding \cup {w}
    /\ UNCHANGED <<loopVars, rafVars>>

(* clearTimeout, clearInterval *)
ClearTimer(w) ==
    /\ InJS
    /\ w \in Timers \cap outstanding
    /\ outstanding' = outstanding \ {w}
    /\ UNCHANGED <<loopVars, rafVars, started>>

(* process.exit, and Runtime::quit called by the host: the current frame   *)
(* goes on to its end.                                                     *)
ProcessExit ==
    /\ InJS
    /\ running' = FALSE
    /\ reason' = "exit"
    /\ UNCHANGED <<noSdl, pc, idleFrames, rafVars, workVars>>

-----------------------------------------------------------------------------
(* The entry script has run; run() returns at once if it called exit.      *)
Loaded ==
    /\ pc = "load"
    /\ pc' = IF running THEN "poll" ELSE "ended"
    /\ UNCHANGED <<noSdl, running, idleFrames, reason, rafVars, workVars>>

(* pollEvents: the window may ask the program to end, there and then.      *)
PollWindow ==
    /\ pc = "poll"
    /\ \/ /\ pc' = "io"
          /\ UNCHANGED <<noSdl, running, reason>>
       \/ /\ ~noSdl
          /\ pc' = "ended"
          /\ running' = FALSE
          /\ reason' = "window"
    /\ UNCHANGED <<noSdl, idleFrames, rafVars, workVars>>

(* A request completes, a timer fires for the last time, or a session ends;*)
(* its callbacks run in this phase.                                        *)
EndWork(w) ==
    /\ \/ pc = "io"   /\ w \in Sessions \cup Requests
       \/ pc = "late" /\ w \in Timers \cup Requests
    /\ w \in outstanding
    /\ outstanding' = outstanding \ {w}
    /\ UNCHANGED <<loopVars, rafVars, started>>

(* Mutant: the frame callbacks are forgotten without being released.       *)
ReloadKeepsProtection ==
    /\ pc = "io"
    /\ pc' = "reload"
    /\ outstanding' = outstanding \ Timers
    /\ rafCallbacks' = <<>>
    /\ cancelled' = cancelled \cup ToSet(rafCallbacks)
    /\ UNCHANGED <<noSdl, running, idleFrames, reason, batch, current, frameLimit, nextRafId,
                   ran, started, protects>>

(* reloadScript: timers and frame callbacks are dropped, requests and      *)
(* sessions go on.                                                         *)
ReloadScript ==
    /\ pc = "io"
    /\ pc' = "reload"
    /\ outstanding' = outstanding \ Timers
    /\ rafCallbacks' = <<>>
    /\ protects' = [i \in RafId |-> protects[i] - IF Contains(rafCallbacks, i) THEN 1 ELSE 0]
    /\ cancelled' = cancelled \cup ToSet(rafCallbacks)
    /\ UNCHANGED <<noSdl, running, idleFrames, reason, batch, current, frameLimit, nextRafId,
                   ran, started>>

RunLateCallbacks ==
    /\ pc \in {"io", "reload"}
    /\ pc' = "late"
    /\ UNCHANGED <<noSdl, running, idleFrames, reason, rafVars, workVars>>

(* executeAnimationFrameCallbacks moves the queue out ...                  *)
TakeFrames ==
    /\ pc = "late"
    /\ pc' = "frame"
    /\ batch' = rafCallbacks
    /\ rafCallbacks' = <<>>
    /\ frameLimit' = nextRafId
    /\ UNCHANGED <<noSdl, running, idleFrames, reason, current, nextRafId, protects, cancelled,
                   ran, workVars>>

(* ... and calls each of them, releasing it afterwards.                    *)
CallFrame ==
    /\ pc = "frame"
    /\ batch # <<>>
    /\ pc' = "call"
    /\ current' = Head(batch)
    /\ batch' = Tail(batch)
    /\ ran' = ran \cup {current'}
    /\ UNCHANGED <<noSdl, running, idleFrames, reason, rafCallbacks, frameLimit, nextRafId, protects,
                   cancelled, workVars>>

(* Mutant: the callbacks requested meanwhile are called in the same frame. *)
ReturnTakesNewOnes ==
    /\ pc = "call"
    /\ pc' = "frame"
    /\ protects' = [protects EXCEPT ![current] = @ - 1]
    /\ current' = NoCallback
    /\ batch' = batch \o rafCallbacks
    /\ rafCallbacks' = <<>>
    /\ UNCHANGED <<noSdl, running, idleFrames, reason, frameLimit, nextRafId, cancelled, ran,
                   workVars>>

ReturnFromFrame ==
    /\ pc = "call"
    /\ pc' = "frame"
    /\ protects' = [protects EXCEPT ![current] = @ - 1]
    /\ current' = NoCallback
    /\ UNCHANGED <<noSdl, running, idleFrames, reason, rafCallbacks, batch, frameLimit, nextRafId,
                   cancelled, ran, workVars>>

(* Mutant: the queue is cleared after the callbacks, not before.           *)
EndPollClearsQueue ==
    /\ pc = "frame"
    /\ batch = <<>>
    /\ rafCallbacks' = <<>>
    /\ pc' = IF running THEN "check" ELSE "ended"
    /\ UNCHANGED <<noSdl, running, idleFrames, reason, batch, current, frameLimit, nextRafId,
                   protects, cancelled, ran, workVars>>

(* pollEvents returns running_.                                            *)
EndPoll ==
    /\ pc = "frame"
    /\ batch = <<>>
    /\ pc' = IF running THEN "check" ELSE "ended"
    /\ UNCHANGED <<noSdl, running, idleFrames, reason, rafVars, workVars>>

(* What run() takes for work: requests are not asked for.                  *)
HasWork == rafCallbacks # <<>> \/ outstanding \cap (Timers \cup Sessions) # {}

(* Mutant: the count of idle frames starts again in every frame.           *)
CheckNeverCounts ==
    /\ pc = "check"
    /\ idleFrames' = IF ~noSdl \/ HasWork THEN 0 ELSE 1
    /\ pc' = "poll"
    /\ UNCHANGED <<noSdl, running, reason, rafVars, workVars>>

(* run(): without a window, three frames in a row without work end it.     *)
CheckIdle ==
    /\ pc = "check"
    /\ idleFrames' = IF ~noSdl \/ HasWork THEN 0 ELSE idleFrames + 1
    /\ IF idleFrames' = maxIdleFrames
       THEN pc' = "ended" /\ running' = FALSE /\ reason' = "idle"
       ELSE pc' = "poll" /\ UNCHANGED <<noSdl, running, reason>>
    /\ UNCHANGED <<noSdl, rafVars, workVars>>

(* RuntimeImpl::shutdown releases what is still queued.                    *)
Shutdown ==
    /\ pc = "ended"
    /\ pc' = "down"
    /\ protects' = [i \in RafId |-> protects[i] - IF Contains(rafCallbacks, i) THEN 1 ELSE 0]
    /\ rafCallbacks' = <<>>
    /\ UNCHANGED <<noSdl, running, idleFrames, reason, batch, current, frameLimit, nextRafId, cancelled,
                   ran, workVars>>

-----------------------------------------------------------------------------
CallFromJS ==
    \/ RequestFrame
    \/ \E i \in RafId : CancelFrame(i)
    \/ \E w \in Work : StartWork(w) \/ ClearTimer(w)
    \/ ProcessExit

LoopStep ==
    \/ Loaded \/ PollWindow \/ RunLateCallbacks
    \/ TakeFrames \/ CallFrame \/ ReturnFromFrame
    \/ EndPoll \/ CheckIdle \/ Shutdown

Next == CallFromJS \/ LoopStep \/ ReloadScript \/ \E w \in Work : EndWork(w)

Spec == Init /\ [][Next]_vars

(* Scripts return to the loop, and the loop goes on for as long as it can. *)
FairSpec == Spec /\ WF_vars(LoopStep)

-----------------------------------------------------------------------------
(* The types of the variables.                                             *)
TypeOK ==
    /\ noSdl \in BOOLEAN /\ pc \in Phase
    /\ running \in BOOLEAN
    /\ idleFrames \in 0 .. maxIdleFrames
    /\ rafCallbacks \in Seq(RafId) /\ batch \in Seq(RafId)
    /\ current \in RafId \cup {NoCallback}
    /\ nextRafId \in 1 .. MaxFrameCalls + 1 /\ frameLimit \in 1 .. nextRafId
    /\ protects \in [RafId -> Int]
    /\ outstanding \subseteq started /\ started \subseteq Work
    /\ cancelled \subseteq RafId /\ ran \subseteq RafId
    /\ reason \in {"none", "exit", "window", "idle"}

(* A frame callback is protected exactly while it is queued, waits in the  *)
(* batch or runs: cancelling, reloading and shutting down release it once. *)
ProtectedWhileQueued ==
    \A i \in RafId :
        protects[i] = IF i = current \/ Contains(batch \o rafCallbacks, i) THEN 1 ELSE 0

(* Frame callbacks are called in the order in which they were requested;   *)
(* one requested while the callbacks of a frame run waits for the next     *)
(* frame, and one that was cancelled while it was queued is never called.  *)
CalledInOrder ==
    [][pc' = "call" /\ pc = "frame" =>
          /\ current' < frameLimit /\ \A i \in ran : i < current'
          /\ current' \notin cancelled]_vars

(* "exit when there's no more work to do" (run): no request is left whose  *)
(* callback has not been called.                                           *)
IdleExitDropsNothing == reason = "idle" /\ pc = "ended" => outstanding = {}

(* A requested frame callback is called, unless it is cancelled or the     *)
(* program ends.                                                           *)
EveryFrameRuns ==
    \A i \in RafId : i < nextRafId ~> i \in ran \cup cancelled \/ pc = "down"

(* A program without a window ends, unless there is work time and again    *)
(* when a frame is over.                                                   *)
IdleProgramEnds == noSdl => <>(pc = "down") \/ []<>(pc = "check" /\ HasWork)
=============================================================================
