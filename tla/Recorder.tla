------------------------------ MODULE Recorder ------------------------------
(***************************************************************************)
(* One recording of GPUReadbackRecorder (src/src/video/                    *)
(* gpu_readback_recorder.cpp): on every submitted frame the main thread    *)
(* copies the texture to a buffer, asks the GPU library to map it, and     *)
(* hands the pixels of the buffers mapped meanwhile to the thread that     *)
(* encodes them.                                                           *)
(*                                                                         *)
(* WebGPU calls a map callback when it likes (AllowSpontaneous): it writes *)
(* its result to two heap cells that the recorder frees with the buffer.   *)
(* Whether the library does so from a thread of its own, or only inside    *)
(* the calls of the main thread, depends on the library: ownThread.  It    *)
(* finishes the copies in the order of their submission.                   *)
(*                                                                         *)
(* What a callback does that writes to cells that are freed is not         *)
(* defined; the model ends where that can no longer be avoided (Stray).    *)
(***************************************************************************)
EXTENDS Integers, SequencesExt

CONSTANTS
    MaxFrames,   \* Bound: how many frames are captured
    Rounds       \* how often stopRecording() looks for mapped buffers: 100

ASSUME MaxFramesAssumption == MaxFrames \in Nat
ASSUME RoundsAssumption == Rounds \in Nat \ {0}

Frame == 1 .. MaxFrames

VARIABLES
    ownThread,      \* the library has a thread that calls map callbacks
    inCallback,     \* the frame whose callback the main thread executes, or 0
    main,           \* what the main thread does, see MainPhase
    round,          \* 0 while frames are captured, then the round of stop
    frameNumber,    \* how many frames were captured
    map,            \* map[f], see MapState
    mapped,         \* the frames whose mapping has succeeded
    flags,          \* the frames whose mapComplete exists
    statuses,       \* the frames whose mapStatus exists
    pending,        \* pendingBuffers_
    next,           \* where processPendingBuffers is in it
    toProcess,      \* the mapped buffers it has found
    frameQueue,     \* frameQueue_
    encodingDone,   \* encodingDone_
    encoder,        \* what the encoder thread does, see EncoderPhase
    encoding,       \* the frame it has in hand
    encoded,        \* the frames of the animation, in their order
    failed,         \* the frames encodeFrame() gave up
    dropped,        \* the frames counted in droppedFrames_
    discarded       \* the frames not mapped when stopRecording() ended

gpuVars     == <<ownThread, inCallback, map, mapped, flags, statuses>>
mainVars    == <<main, round, frameNumber, pending, next, toProcess, dropped, discarded>>
encoderVars == <<encoder, encoding, encoded, failed>>
vars == <<gpuVars, mainVars, frameQueue, encodingDone, encoderVars>>

(* frame      between two submitted frames                                 *)
(* scan       processPendingBuffers, looking for mapped buffers            *)
(* process    processPendingBuffers, handing them on                       *)
(* capture    the rest of onVideoCaptureCallback                           *)
(* discard    stopRecording, destroying what is still pending              *)
(* free, freeStatus  and deleting mapComplete and mapStatus of it          *)
(* signal     stopRecording, about to tell the encoder thread              *)
(* join       stopRecording, waiting for it                                *)
(* finalize   writing the file                                             *)
MainPhase == {"frame", "scan", "process", "capture", "discard", "free", "freeStatus",
              "signal", "join", "finalize", "stopped"}

(* check      reading encodingDone_                                        *)
(* count      reading the length of the queue, once encodingDone_ is set   *)
(* get        in tryGetFrame()                                             *)
(* encode     in encodeFrame()                                             *)
EncoderPhase == {"check", "count", "get", "encode", "exit"}

(* mapping    requested             called     its callback is called      *)
(* written    *mapStatus is set     complete   *mapComplete is set         *)
MapState == {"none", "mapping", "called", "written", "complete"}
UnderWay(f) == map[f] \in {"called", "written"}
Complete(f) == map[f] = "complete"

-----------------------------------------------------------------------------
Init ==
    /\ ownThread \in BOOLEAN /\ inCallback = 0
    /\ main = "frame" /\ round = 0 /\ frameNumber = 0
    /\ map = [f \in Frame |-> "none"] /\ mapped = {} /\ flags = {} /\ statuses = {}
    /\ pending = <<>> /\ next = 1 /\ toProcess = <<>>
    /\ frameQueue = <<>> /\ encodingDone = FALSE
    /\ encoder = "check" /\ encoding = 0
    /\ encoded = <<>> /\ failed = {} /\ dropped = {} /\ discarded = {}

(* The library has finished the oldest copy, or lost the device, and calls *)
(* the map callback, on a thread that executes no other one.               *)
CallBack(f) ==
    /\ map[f] = "mapping"
    /\ \A g \in Frame : g < f => map[g] # "mapping"
    /\ \A g \in Frame : UnderWay(g) => g = inCallback
    /\ IF ownThread THEN UNCHANGED inCallback
       ELSE /\ inCallback = 0 /\ inCallback' = f
            /\ main \in {"frame", "process", "capture", "discard", "free"}
    /\ map' = [map EXCEPT ![f] = "called"]
    /\ mapped' \in {mapped, mapped \cup {f}}
    /\ UNCHANGED <<ownThread, flags, statuses, mainVars, frameQueue, encodingDone, encoderVars>>

(* The callback writes the status, then it sets the flag and returns.      *)
WriteStatus(f) ==
    /\ map[f] = "called"
    /\ map' = [map EXCEPT ![f] = "written"]
    /\ UNCHANGED <<ownThread, inCallback, mapped, flags, statuses, mainVars, frameQueue,
                   encodingDone, encoderVars>>

SetComplete(f) ==
    /\ map[f] = "written"
    /\ map' = [map EXCEPT ![f] = "complete"]
    /\ inCallback' = IF inCallback = f THEN 0 ELSE inCallback
    /\ UNCHANGED <<ownThread, mapped, flags, statuses, mainVars, frameQueue, encodingDone,
                   encoderVars>>

-----------------------------------------------------------------------------
(* onVideoCaptureCallback, called for a submitted frame, starts with       *)
(* processPendingBuffers.                                                  *)
BeginCapture ==
    /\ main = "frame" /\ frameNumber < MaxFrames
    /\ main' = "scan" /\ next' = 1
    /\ UNCHANGED <<gpuVars, round, frameNumber, pending, toProcess, dropped, discarded,
                   frameQueue, encodingDone, encoderVars>>

(* Mutant: the last pending buffer takes the place of the one taken out.   *)
ScanSwaps ==
    /\ main = "scan" /\ next <= Len(pending)
    /\ IF Complete(pending[next])
       THEN /\ toProcess' = Append(toProcess, pending[next])
            /\ pending' = Front([pending EXCEPT ![next] = Last(pending)])
            /\ UNCHANGED next
       ELSE /\ next' = next + 1
            /\ UNCHANGED <<pending, toProcess>>
    /\ UNCHANGED <<gpuVars, main, round, frameNumber, dropped, discarded, frameQueue,
                   encodingDone, encoderVars>>

(* It reads the flag of one pending buffer after the other.                *)
Scan ==
    /\ main = "scan" /\ next <= Len(pending)
    /\ IF Complete(pending[next])
       THEN /\ toProcess' = Append(toProcess, pending[next])
            /\ pending' = RemoveAt(pending, next)
            /\ UNCHANGED next
       ELSE /\ next' = next + 1
            /\ UNCHANGED <<pending, toProcess>>
    /\ UNCHANGED <<gpuVars, main, round, frameNumber, dropped, discarded, frameQueue,
                   encodingDone, encoderVars>>

ScanDone ==
    /\ main = "scan" /\ next > Len(pending)
    /\ main' = "process"
    /\ UNCHANGED <<gpuVars, round, frameNumber, pending, next, toProcess, dropped, discarded,
                   frameQueue, encodingDone, encoderVars>>

(* Each one found: its pixels are queued, unless it was not mapped or has  *)
(* no mapped range; the buffer is destroyed and its cells are freed.       *)
Process ==
    /\ main = "process" /\ toProcess # <<>>
    /\ LET f == Head(toProcess)
       IN  /\ flags' = flags \ {f} /\ statuses' = statuses \ {f}
           /\ \/ /\ f \in mapped
                 /\ frameQueue' = Append(frameQueue, f)
                 /\ UNCHANGED dropped
              \/ /\ dropped' = dropped \cup {f}
                 /\ UNCHANGED frameQueue
    /\ toProcess' = Tail(toProcess)
    /\ UNCHANGED <<ownThread, inCallback, map, mapped, main, round, frameNumber, pending, next,
                   discarded, encodingDone, encoderVars>>

(* Then the rest of the capture, or the next round of stopRecording().     *)
Processed ==
    /\ main = "process" /\ toProcess = <<>>
    /\ IF round = 0
       THEN main' = "capture" /\ UNCHANGED <<round, next>>
       ELSE IF round < Rounds
       THEN main' = "scan" /\ round' = round + 1 /\ next' = 1
       ELSE main' = "discard" /\ UNCHANGED <<round, next>>
    /\ UNCHANGED <<gpuVars, frameNumber, pending, toProcess, dropped, discarded,
                   frameQueue, encodingDone, encoderVars>>

(* The frame is copied to a new buffer and its mapping requested.          *)
Capture ==
    /\ main = "capture"
    /\ LET f == frameNumber + 1
       IN  /\ frameNumber' = f
           /\ map' = [map EXCEPT ![f] = "mapping"]
           /\ flags' = flags \cup {f} /\ statuses' = statuses \cup {f}
           /\ pending' = Append(pending, f)
    /\ main' = "frame"
    /\ UNCHANGED <<ownThread, inCallback, mapped, round, next, toProcess, dropped, discarded,
                   frameQueue, encodingDone, encoderVars>>

(* The buffer could not be created: droppedFrames_ counts it, the frame    *)
(* has no number.                                                          *)
CaptureFails ==
    /\ main = "capture"
    /\ main' = "frame"
    /\ UNCHANGED <<gpuVars, round, frameNumber, pending, next, toProcess, dropped, discarded,
                   frameQueue, encodingDone, encoderVars>>

-----------------------------------------------------------------------------
(* stopRecording: no frame is captured from now on.                        *)
StopRecording ==
    /\ main = "frame"
    /\ round' = 1 /\ next' = 1
    /\ main' = "scan"
    /\ UNCHANGED <<gpuVars, frameNumber, pending, toProcess, dropped, discarded, frameQueue,
                   encodingDone, encoderVars>>

(* What is still pending is given up.                                      *)
GiveUpOldest ==
    /\ main = "discard" /\ pending # <<>>
    /\ discarded' = discarded \cup {Head(pending)}
    /\ pending' = Tail(pending)
    /\ main' = "free"
    /\ UNCHANGED <<ownThread, mapped, flags, statuses, round, frameNumber, next, toProcess,
                   dropped, frameQueue, encodingDone, encoderVars>>

(* Mutant: the buffer is not destroyed.                                    *)
ReleaseBuffer == GiveUpOldest /\ UNCHANGED <<map, inCallback>>

(* Destroying a buffer that is being mapped calls its callback, with an    *)
(* error, before wgpuBufferDestroy returns; a callback that another thread *)
(* already executes goes on.                                               *)
DestroyBuffer ==
    /\ GiveUpOldest
    /\ LET f == Head(pending)
       IN  IF map[f] = "mapping" THEN map' = [map EXCEPT ![f] = "called"] /\ inCallback' = f
           ELSE UNCHANGED <<map, inCallback>>

(* Its cells are deleted, one after the other.                             *)
FreeFlag ==
    /\ main = "free"
    /\ flags' = flags \ discarded
    /\ main' = "freeStatus"
    /\ UNCHANGED <<ownThread, inCallback, map, mapped, statuses, round, frameNumber, pending, next,
                   toProcess, dropped, discarded, frameQueue, encodingDone, encoderVars>>

FreeStatus ==
    /\ main = "freeStatus"
    /\ statuses' = statuses \ discarded
    /\ main' = "discard"
    /\ UNCHANGED <<ownThread, inCallback, map, mapped, flags, round, frameNumber, pending, next,
                   toProcess, dropped, discarded, frameQueue, encodingDone, encoderVars>>

Discarded ==
    /\ main = "discard" /\ pending = <<>>
    /\ main' = "signal"
    /\ UNCHANGED <<gpuVars, round, frameNumber, pending, next, toProcess, dropped, discarded,
                   frameQueue, encodingDone, encoderVars>>

(* Mutant: the encoder thread is not told.                                 *)
JoinUntold ==
    /\ main = "signal"
    /\ main' = "join"
    /\ UNCHANGED <<gpuVars, round, frameNumber, pending, next, toProcess, dropped, discarded,
                   frameQueue, encodingDone, encoderVars>>

SignalEncoder ==
    /\ main = "signal"
    /\ encodingDone' = TRUE
    /\ main' = "join"
    /\ UNCHANGED <<gpuVars, round, frameNumber, pending, next, toProcess, dropped, discarded,
                   frameQueue, encoderVars>>

Join ==
    /\ main = "join" /\ encoder = "exit"
    /\ main' = "finalize"
    /\ UNCHANGED <<gpuVars, round, frameNumber, pending, next, toProcess, dropped, discarded,
                   frameQueue, encodingDone, encoderVars>>

(* finalizeWebP: the file is written, if there is a frame to write.        *)
Finalize ==
    /\ main = "finalize"
    /\ main' = "stopped"
    /\ UNCHANGED <<gpuVars, round, frameNumber, pending, next, toProcess, dropped, discarded,
                   frameQueue, encodingDone, encoderVars>>

-----------------------------------------------------------------------------
(* Mutant: the thread ends as soon as it is told to.                       *)
CheckDoneOnly ==
    /\ encoder = "check"
    /\ encoder' = IF encodingDone THEN "exit" ELSE "get"
    /\ UNCHANGED <<gpuVars, mainVars, frameQueue, encodingDone, encoding, encoded, failed>>

(* runEncoderThread: while (!encodingDone_ || getQueuedFrameCount() > 0),  *)
(* read in this order, the main thread running on in between.              *)
CheckDone ==
    /\ encoder = "check"
    /\ encoder' = IF encodingDone THEN "count" ELSE "get"
    /\ UNCHANGED <<gpuVars, mainVars, frameQueue, encodingDone, encoding, encoded, failed>>

CheckCount ==
    /\ encoder = "count"
    /\ encoder' = IF frameQueue = <<>> THEN "exit" ELSE "get"
    /\ UNCHANGED <<gpuVars, mainVars, frameQueue, encodingDone, encoding, encoded, failed>>

TryGetFrame ==
    /\ encoder = "get"
    /\ IF frameQueue = <<>>
       THEN encoder' = "check" /\ UNCHANGED <<encoding, frameQueue>>
       ELSE /\ encoding' = Head(frameQueue)
            /\ frameQueue' = Tail(frameQueue)
            /\ encoder' = "encode"
    /\ UNCHANGED <<gpuVars, mainVars, encodingDone, encoded, failed>>

(* encodeFrame adds the frame to the animation, or fails (no memory, or a  *)
(* frame of another size than the first).                                  *)
EncodeFrame ==
    /\ encoder = "encode"
    /\ \/ encoded' = Append(encoded, encoding) /\ UNCHANGED failed
       \/ failed' = failed \cup {encoding} /\ UNCHANGED encoded
    /\ encoding' = 0
    /\ encoder' = "check"
    /\ UNCHANGED <<gpuVars, mainVars, frameQueue, encodingDone>>

-----------------------------------------------------------------------------
(* A callback is left without a cell that it has still to write to.        *)
Stray ==
    \E f \in Frame :
        \/ map[f] = "called" /\ f \notin statuses
        \/ UnderWay(f) /\ f \notin flags

(* The main thread goes on when the callback that it executes has returned.*)
MainStep ==
    /\ inCallback = 0
    /\ \/ BeginCapture \/ Scan \/ ScanDone \/ Process \/ Processed \/ Capture \/ CaptureFails
       \/ DestroyBuffer \/ FreeFlag \/ FreeStatus \/ Discarded \/ SignalEncoder \/ Join
       \/ Finalize

EncoderStep == CheckDone \/ CheckCount \/ TryGetFrame \/ EncodeFrame

CallbackStep == \E f \in Frame : WriteStatus(f) \/ SetComplete(f)

Next ==
    /\ ~Stray
    /\ \/ \E f \in Frame : CallBack(f)
       \/ CallbackStep \/ MainStep \/ EncoderStep
       \/ inCallback = 0 /\ StopRecording

Spec == Init /\ [][Next]_vars

(* Both threads go on while they can, and a callback that is called comes  *)
(* to its end.  Nothing else is assumed of the library: it may never call  *)
(* back.                                                                   *)
Fairness ==
    /\ WF_vars(~Stray /\ MainStep) /\ WF_vars(~Stray /\ EncoderStep)
    /\ WF_vars(~Stray /\ CallbackStep)

FairSpec == Spec /\ Fairness

-----------------------------------------------------------------------------
Captured == 1 .. frameNumber

TypeOK ==
    /\ ownThread \in BOOLEAN /\ encodingDone \in BOOLEAN
    /\ main \in MainPhase /\ encoder \in EncoderPhase
    /\ round \in 0 .. Rounds /\ frameNumber \in 0 .. MaxFrames
    /\ map \in [Frame -> MapState] /\ inCallback \in Frame \cup {0}
    /\ mapped \subseteq Frame /\ flags \subseteq Frame /\ statuses \subseteq Frame
    /\ pending \in Seq(Frame) /\ toProcess \in Seq(Frame) /\ next \in Nat \ {0}
    /\ frameQueue \in Seq(Frame) /\ encoded \in Seq(Frame) /\ encoding \in Frame \cup {0}
    /\ failed \subseteq Frame /\ dropped \subseteq Frame /\ discarded \subseteq Frame

(* When the file is written, each captured frame is in it once, unless it  *)
(* is one of those that could not be mapped or encoded: none is left in    *)
(* the queue by an encoder thread that ended too early, none encoded twice.*)
EveryFrameIsAccountedFor ==
    main \in {"finalize", "stopped"} =>
        /\ IsInjective(encoded)
        /\ Range(encoded) = Captured \ (failed \cup dropped \cup discarded)

(* The animation shows the frames in the order in which they were drawn,   *)
(* where callbacks come only from the calls of the main thread.            *)
EncodedInOrder ==
    ~ownThread => \A i, j \in 1 .. Len(encoded) : i < j => encoded[i] < encoded[j]

(* The cells that a callback has still to write to exist, whichever thread *)
(* calls it.  The exception is a callback that the library executes on a   *)
(* thread of its own while stopRecording() gives up its buffer.            *)
FlagsOutliveMapping ==
    \A f \in Frame :
        (f \in discarded \ {inCallback} => ~ownThread) =>
            /\ map[f] \in {"mapping", "called"} => f \in statuses
            /\ map[f] \in {"mapping", "called", "written"} => f \in flags

(* stopRecording() returns, whatever the GPU does, unless a callback is    *)
(* left without its cells.                                                 *)
StopReturns == round > 0 ~> main = "stopped" \/ Stray

(* No callback loses the cells it writes to (not so, see README).          *)
NoStrayCallback == ~Stray

(* The order also holds if the library has a thread of its own (not so,    *)
(* see README).                                                            *)
AlwaysEncodedInOrder == \A i, j \in 1 .. Len(encoded) : i < j => encoded[i] < encoded[j]
=============================================================================
