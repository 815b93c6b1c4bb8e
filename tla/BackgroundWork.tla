--------------------------- MODULE BackgroundWork ---------------------------
(***************************************************************************)
(* Work that leaves the main thread and comes back as a JavaScript         *)
(* callback: file reads (src/src/fs/async_file.cpp and __readFileAsync of  *)
(* src/src/runtime.cpp) and Draco mesh decoding (runtime.cpp), both on     *)
(* libuv's thread pool.                                                    *)
(*                                                                         *)
(* A job is one call; its kind says what it meets:                         *)
(*   file       a file that exists or not       directory  a directory     *)
(*   embedded   a file of the embedded bundle, which needs no thread       *)
(*   mesh       a buffer to decode              badMesh    an empty buffer *)
(* The queue of completed reads is global: it outlives the runtime.        *)
(***************************************************************************)
EXTENDS Integers, Sequences, SequencesExt

CONSTANTS
    Job,          \* the calls the scripts make
    NoJob,        \* no callback is on the stack
    MaxRuntimes   \* Bound: how many runtimes the process creates in turn

ASSUME NoJobAssumption       == NoJob \notin Job
ASSUME MaxRuntimesAssumption == MaxRuntimes \in Nat \ {0}

Kind == {"file", "directory", "embedded", "mesh", "badMesh"}

VARIABLES
    phase,                 \* where the main thread is, see WorkPhase
    runtime,               \* the number of the current runtime
    kind,                  \* kind[j], "none" until j is called
    owner,                 \* owner[j]: the runtime that j belongs to
    pool,                  \* jobs on the thread pool
    finished,              \* jobs whose worker function has returned
    completedReads,        \* g_completedQueue
    pendingFileCallbacks,  \* pendingFileCallbacks_
    pendingDracoCallbacks, \* pendingDracoCallbacks_
    toProcess,             \* the batch of processPendingDracoCallbacks
    currentJob,            \* the job whose callback is on the stack
    jobProtects,           \* protect() minus unprotect() calls on j's callback
    fresh,                 \* history: file callbacks queued in this frame
    called,                \* history: jobs whose callback was called
    stale                  \* history: jobs completed into a destroyed runtime

jobVars   == <<kind, owner>>
poolVars  == <<pool, finished>>
queueVars == <<completedReads, pendingFileCallbacks, pendingDracoCallbacks, toProcess>>
callbackVars  == <<currentJob, jobProtects, fresh, called, stale>>
workVars == <<phase, runtime, jobVars, poolVars, queueVars, callbackVars>>

(* js      scripts and frame callbacks         loop    uv_run              *)
(* io      HTTP and WebTransport callbacks     timers  timer callbacks     *)
(* files   between two file callbacks          file    inside one          *)
(* meshes  between two Draco callbacks         mesh    inside one          *)
(* drain   EventLoop::shutdown                 down    no runtime          *)
(* aborted a worker thread threw: std::terminate                           *)
WorkPhase == {"js", "loop", "io", "timers", "files", "file", "meshes", "mesh", "drain", "down",
          "aborted"}
ScriptRuns  == phase \in {"js", "io", "timers", "file", "mesh"}

Queued == ToSet(completedReads) \cup ToSet(pendingFileCallbacks)
             \cup ToSet(pendingDracoCallbacks) \cup ToSet(toProcess)

-----------------------------------------------------------------------------
WorkInit ==
    /\ phase = "js" /\ runtime = 1
    /\ kind = [j \in Job |-> "none"] /\ owner = [j \in Job |-> 0]
    /\ pool = {} /\ finished = {}
    /\ completedReads = <<>> /\ pendingFileCallbacks = <<>>
    /\ pendingDracoCallbacks = <<>> /\ toProcess = <<>>
    /\ currentJob = NoJob
    /\ jobProtects = [j \in Job |-> 0]
    /\ fresh = {} /\ called = {} /\ stale = {}

(* A script calls j for the first time.                                    *)
Begin(j, k) ==
    /\ ScriptRuns
    /\ kind[j] = "none"
    /\ kind' = [kind EXCEPT ![j] = k]
    /\ owner' = [owner EXCEPT ![j] = runtime]
    /\ jobProtects' = IF k = "badMesh" THEN jobProtects ELSE [jobProtects EXCEPT ![j] = @ + 1]

(* __readFileAsync: a file that is not in the bundle goes to the pool.     *)
ReadFile(j) ==
    /\ \E k \in {"file", "directory"} : Begin(j, k)
    /\ pool' = pool \cup {j}
    /\ UNCHANGED <<phase, runtime, finished, queueVars, currentJob, fresh, called, stale>>

ReadEmbedded(j) ==
    /\ Begin(j, "embedded")
    /\ pendingFileCallbacks' = Append(pendingFileCallbacks, j)
    /\ fresh' = fresh \cup {j}
    /\ UNCHANGED <<phase, runtime, poolVars, completedReads, pendingDracoCallbacks, toProcess,
                   currentJob, called, stale>>

(* __mystralNativeDecodeDraco *)
DecodeMesh(j) ==
    /\ Begin(j, "mesh")
    /\ pool' = pool \cup {j}
    /\ UNCHANGED <<phase, runtime, finished, queueVars, currentJob, fresh, called, stale>>

(* It returns without a word when the buffer is empty.                     *)
DecodeNothing(j) ==
    /\ Begin(j, "badMesh")
    /\ UNCHANGED <<phase, runtime, poolVars, queueVars, currentJob, fresh, called, stale>>

-----------------------------------------------------------------------------
(* A worker thread, at any time: readFileWorker or the Draco worker.       *)
WorkerReturns(j) ==
    /\ phase # "aborted"
    /\ j \in pool
    /\ kind[j] # "directory"
    /\ pool' = pool \ {j}
    /\ finished' = finished \cup {j}
    /\ UNCHANGED <<phase, runtime, jobVars, queueVars, callbackVars>>

(* An ifstream opens a directory, and reports a size no vector can have:   *)
(* resize throws in the worker thread, where nothing catches it.           *)
WorkerThrows(j) ==
    /\ phase # "aborted"
    /\ j \in pool
    /\ kind[j] = "directory"
    /\ phase' = "aborted"
    /\ UNCHANGED <<runtime, jobVars, poolVars, queueVars, callbackVars>>

EnterPoll ==
    /\ phase = "js"
    /\ phase' = "loop"
    /\ fresh' = {}
    /\ UNCHANGED <<runtime, jobVars, poolVars, queueVars, currentJob, jobProtects, called,
                   stale>>

(* The loop calls the after-work callback: readFileAfterWork or the one of *)
(* the decoder.                                                            *)
AfterWork(j) ==
    /\ phase \in {"loop", "drain"}
    /\ j \in finished
    /\ finished' = finished \ {j}
    /\ IF kind[j] = "mesh"
       THEN /\ pendingDracoCallbacks' = Append(pendingDracoCallbacks, j)
            /\ UNCHANGED completedReads
       ELSE /\ completedReads' = Append(completedReads, j)
            /\ UNCHANGED pendingDracoCallbacks
    /\ UNCHANGED <<phase, runtime, jobVars, pool, pendingFileCallbacks, toProcess,
                   callbackVars>>

LeavePoll ==
    /\ phase = "loop"
    /\ phase' = "io"
    /\ UNCHANGED <<runtime, jobVars, poolVars, queueVars, callbackVars>>

(* The loop over the completed reads, for those of one runtime.            *)
Only(list, selected) ==
    LET only[n \in 0 .. Len(list)] ==
            IF n = 0 THEN <<>>
            ELSE IF list[n] \in selected THEN Append(only[n - 1], list[n]) ELSE only[n - 1]
    IN  only[Len(list)]

Mine == {j \in Job : owner[j] = runtime}

(* Mutant: what was queued in the meantime is overwritten.                 *)
TakeReadsOverwrites ==
    /\ phase = "io"
    /\ phase' = "timers"
    /\ pendingFileCallbacks' = Only(completedReads, Mine)
    /\ completedReads' = <<>>
    /\ UNCHANGED <<runtime, jobVars, poolVars, pendingDracoCallbacks, toProcess, callbackVars>>

(* processCompletedReads hands every completed read to the runtime that    *)
(* asked for it, by the pointer captured then.                             *)
TakeReads ==
    /\ phase = "io"
    /\ phase' = "timers"
    /\ pendingFileCallbacks' = pendingFileCallbacks \o Only(completedReads, Mine)
    /\ fresh' = fresh \cup (ToSet(completedReads) \cap Mine)
    /\ stale' = stale \cup (ToSet(completedReads) \ Mine)
    /\ completedReads' = <<>>
    /\ UNCHANGED <<runtime, jobVars, poolVars, pendingDracoCallbacks, toProcess, currentJob,
                   jobProtects, called>>

TimersDone ==
    /\ phase = "timers"
    /\ phase' = "files"
    /\ UNCHANGED <<runtime, jobVars, poolVars, queueVars, callbackVars>>

(* processPendingFileCallbacks: until the queue is empty, ...              *)
CallFile ==
    /\ phase = "files"
    /\ pendingFileCallbacks # <<>>
    /\ phase' = "file"
    /\ currentJob' = Head(pendingFileCallbacks)
    /\ pendingFileCallbacks' = Tail(pendingFileCallbacks)
    /\ called' = called \cup {currentJob'}
    /\ UNCHANGED <<runtime, jobVars, poolVars, completedReads, pendingDracoCallbacks,
                   toProcess, jobProtects, fresh, stale>>

(* Mutant: the callback is not released.                                   *)
CallbackStaysProtected ==
    /\ phase \in {"file", "mesh"}
    /\ phase' = IF phase = "file" THEN "files" ELSE "meshes"
    /\ currentJob' = NoJob
    /\ UNCHANGED <<runtime, jobVars, poolVars, queueVars, jobProtects, fresh, called, stale>>

(* ... and for either kind of callback: call it, then release it.          *)
JobReturns ==
    /\ phase \in {"file", "mesh"}
    /\ phase' = IF phase = "file" THEN "files" ELSE "meshes"
    /\ jobProtects' = [jobProtects EXCEPT ![currentJob] = @ - 1]
    /\ currentJob' = NoJob
    /\ UNCHANGED <<runtime, jobVars, poolVars, queueVars, fresh, called, stale>>

(* processPendingDracoCallbacks swaps its queue out first.                 *)
TakeMeshes ==
    /\ phase = "files"
    /\ pendingFileCallbacks = <<>>
    /\ phase' = "meshes"
    /\ toProcess' = pendingDracoCallbacks
    /\ pendingDracoCallbacks' = <<>>
    /\ UNCHANGED <<runtime, jobVars, poolVars, completedReads, pendingFileCallbacks,
                   callbackVars>>

CallMesh ==
    /\ phase = "meshes"
    /\ toProcess # <<>>
    /\ phase' = "mesh"
    /\ currentJob' = Head(toProcess)
    /\ toProcess' = Tail(toProcess)
    /\ called' = called \cup {currentJob'}
    /\ UNCHANGED <<runtime, jobVars, poolVars, completedReads, pendingFileCallbacks,
                   pendingDracoCallbacks, jobProtects, fresh, stale>>

MeshesDone ==
    /\ phase = "meshes"
    /\ toProcess = <<>>
    /\ phase' = "js"
    /\ UNCHANGED <<runtime, jobVars, poolVars, queueVars, callbackVars>>

-----------------------------------------------------------------------------
(* RuntimeImpl::shutdown runs the loop until no work is left ...           *)
Shutdown ==
    /\ phase = "js"
    /\ phase' = "drain"
    /\ UNCHANGED <<runtime, jobVars, poolVars, queueVars, callbackVars>>

(* Mutant: the engine is destroyed without waiting for the thread pool.    *)
DestroyAtOnce ==
    /\ phase = "drain"
    /\ phase' = "down"
    /\ pendingFileCallbacks' = <<>>
    /\ pendingDracoCallbacks' = <<>>
    /\ jobProtects' = [j \in Job |-> 0]
    /\ UNCHANGED <<runtime, jobVars, poolVars, completedReads, toProcess, currentJob, fresh,
                   called, stale>>

(* ... then the engine and the runtime's own queues are destroyed.         *)
Destroy ==
    /\ phase = "drain"
    /\ pool = {} /\ finished = {}
    /\ phase' = "down"
    /\ pendingFileCallbacks' = <<>>
    /\ pendingDracoCallbacks' = <<>>
    /\ jobProtects' = [j \in Job |-> 0]
    /\ UNCHANGED <<runtime, jobVars, poolVars, completedReads, toProcess, currentJob, fresh,
                   called, stale>>

(* Runtime::create again in the same process.                              *)
CreateRuntime ==
    /\ phase = "down"
    /\ runtime < MaxRuntimes
    /\ runtime' = runtime + 1
    /\ phase' = "js"
    /\ UNCHANGED <<jobVars, poolVars, queueVars, callbackVars>>

-----------------------------------------------------------------------------
AskFromJS == \E j \in Job : ReadFile(j) \/ ReadEmbedded(j) \/ DecodeMesh(j) \/ DecodeNothing(j)

WorkStep ==
    \/ EnterPoll \/ LeavePoll \/ TakeReads \/ TimersDone
    \/ CallFile \/ JobReturns
    \/ TakeMeshes \/ CallMesh \/ MeshesDone
    \/ Destroy

WorkNext ==
    \/ AskFromJS
    \/ WorkStep
    \/ \E j \in Job : WorkerReturns(j) \/ WorkerThrows(j) \/ AfterWork(j)
    \/ Shutdown
    \/ CreateRuntime

WorkSpec == WorkInit /\ [][WorkNext]_workVars

(* The main thread goes round its loop, worker threads finish their job,   *)
(* and the loop delivers finished work.                                    *)
FairWorkSpec ==
    /\ WorkSpec
    /\ WF_workVars(WorkStep)
    /\ \A j \in Job : /\ WF_workVars(WorkerReturns(j) \/ WorkerThrows(j))
                      /\ SF_workVars(AfterWork(j))

-----------------------------------------------------------------------------
(* The types of the variables.                                             *)
WorkTypeOK ==
    /\ phase \in WorkPhase
    /\ runtime \in 1 .. MaxRuntimes
    /\ kind \in [Job -> Kind \cup {"none"}] /\ owner \in [Job -> 0 .. runtime]
    /\ pool \subseteq Job /\ finished \subseteq Job
    /\ completedReads \in Seq({j \in Job : kind[j] \in {"file", "directory"}})
    /\ pendingFileCallbacks \in Seq(Job)
    /\ pendingDracoCallbacks \in Seq(Job) /\ toProcess \in Seq(Job)
    /\ currentJob \in Job \cup {NoJob}
    /\ jobProtects \in [Job -> Int]
    /\ fresh \subseteq Job /\ called \subseteq Job /\ stale \subseteq Job

(* A callback is protected from the call to the end of its own call,       *)
(* through every queue and thread it passes.                               *)
ProtectedUntilCalled ==
    phase # "down" =>
        \A j \in Job : owner[j] = runtime =>
            jobProtects[j] =
                IF j \in pool \cup finished \cup Queued \cup {currentJob} THEN 1 ELSE 0

(* No thread still works for a runtime that has been destroyed: the result *)
(* would be queued through a dangling pointer.                             *)
NoWorkForDestroyedRuntime == \A j \in pool \cup finished : owner[j] = runtime /\ phase # "down"

(* The runtime that j belongs to does not go on.                           *)
Over(j) == owner[j] # runtime \/ phase \in {"drain", "down", "aborted"}

(* Every read and every decode that was accepted is answered, unless the   *)
(* runtime is shut down or a worker brings the process down.               *)
AcceptedIsAnswered ==
    \A j \in Job : kind[j] \notin {"none", "badMesh"} ~>
                      j \in called \/ Over(j)

(* "calls callback(result, error) on main thread" (setupDraco): every      *)
(* decode is answered.                                                     *)
DecodeIsAnswered ==
    \A j \in Job : kind[j] \in {"mesh", "badMesh"} ~>
                      j \in called \/ Over(j)

(* "The callbacks will be processed next frame" (pollEvents).              *)
CalledNextFrame == [][phase = "files" /\ phase' = "file" => currentJob' \notin fresh]_workVars

(* "Failed to read file" is an error of the callback (readFileWorker): no  *)
(* read ends the process.                                                  *)
ReadsDoNotAbort == phase # "aborted"

(* No result of one runtime is delivered to the next one ("Shutdown and    *)
(* cleanup", AsyncFileReader::shutdown).                                   *)
ResultsStayInTheirRuntime == stale = {}
=============================================================================
