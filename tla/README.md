# Verification of mystralnative

mystralnative is a native runtime for JavaScript games: a JavaScript engine
(V8, QuickJS, JavaScriptCore or Hermes), the browser APIs a game needs (WebGPU,
canvas, audio, timers, `fetch`, WebTransport, ...) in C++, and a main loop that
runs a frame at a time. This directory has TLA+ models of the parts of the
runtime whose behaviour depends on the order of events, TLC configurations that
check them on small instances, and proofs of the most important invariants for
every instance.

Paths below start at the root of the repository.

## 1. The system

Everything that can be observed from JavaScript happens on one thread. The main
loop (`RuntimeImpl::run`, `pollEvents`, `src/runtime.cpp:733-851`) goes round in
this order:

 1. `uv_run(UV_RUN_NOWAIT)`: close callbacks, expired timers, sockets of curl,
    results of the thread pool, file-system events;
 2. completed HTTP requests, then WebTransport (`processEvents`);
 3. completed file reads; then file-system events, and a reload if one is asked
    for;
 4. the queue of fired timers; file callbacks; mesh decoding callbacks;
 5. microtasks, `beginFrame`, `requestAnimationFrame` callbacks,
    `clearFrameHandles`;
 6. without a window: is there any work left?

A JavaScript callback may run in every one of these steps and call every API, so
that a handler finds its own tables changed after each callback. Worker threads
(libuv's pool), curl, quiche, the operating system and editors act in between,
in any order. Two components share their state with a thread of their own: the
mixer, which SDL calls on its audio thread, and the recorder of videos, which
encodes on another one. Most of what can go wrong is one of

 - a JavaScript value that native code keeps and that is released twice, never,
   or while it is still needed (`protect` / `unprotect`);
 - memory that libuv still refers to (`uv_close` is asynchronous) and that is
   freed;
 - a callback that is called after it was cancelled, twice, or never;
 - two threads that take each other's steps between the steps of their own;
 - a hot reload or a shutdown that finds work under way.

### Inventory

Component: its state; its operations; what makes it correct.

| Component | Sources | State and operations | Correct when | Module |
|---|---|---|---|---|
| Timers on libuv | `src/runtime.cpp`, `src/async/event_loop.cpp` | `uvTimers_`, queue of fired timers, cancelled ids; set, clear, fire, execute, reload, shutdown | callbacks protected exactly while needed, clear is final, no freed handle in the loop, every timer resolves | `Timers`, `Timers_proofs`, `TimerService` |
| Timers on std::chrono (Android, iOS) | `src/runtime.cpp` | list of timers, batch, set of cancelled ids | as above | `ChronoTimers`, `ChronoTimers_proofs`, `TimerService` |
| Main loop, animation frames | `src/runtime.cpp` | queue of frame callbacks, `running_`, count of idle frames | order, one frame at a time, cancel is final, a headless program ends when and only when nothing is left | `MainLoop`, `MainLoop_proofs` |
| Async HTTP client | `src/http/async_http_client.cpp` | table of requests, sockets, completed queue | every request answered once, sockets freed after their handle closed | `AsyncHttp`, `OffMainThread_proofs` |
| File reads, mesh decoding | `src/fs/async_file.cpp`, `src/runtime.cpp` | jobs on the thread pool, global queue of completed reads, queues of callbacks | every accepted call answered, nothing works for a runtime that is gone | `BackgroundWork`, `OffMainThread_proofs` |
| Watch mode | `src/fs/file_watcher.cpp`, `src/runtime.cpp`, module caches | watch contexts, events, reload flag | the script that runs is, in the end, the one on disk | `HotReload`, `Loading_proofs` |
| CommonJS modules | `src/js/module_system.cpp` | cache, `loading_`, stack of bodies | one execution and one exports object per module, whatever the cycles and errors | `ModuleLoading`, `Loading_proofs` |
| V8 handles | `src/js/v8_engine.cpp` | handles of calls, of the frame, protected ones | no handle deleted twice, in use, or leaked | `V8Handles`, `Handles_proofs` |
| QuickJS handles | `src/js/quickjs_engine.cpp` | boxes and reference counts | as above | `QuickJsHandles`, `Handles_proofs` |
| WebTransport | `src/webtransport/*.cpp` | connection, streams, events, promises | bytes in order and complete, session lists agree, `closed` settles | `WebTransport`, `WebTransport_proofs` |
| V8's ES modules | `src/js/v8_engine.cpp` | cache of linked modules | as CommonJS | as far as reloads see it: `HotReload` |
| Streams, fetch, URL, DOM events | polyfills in `src/runtime.cpp` | JavaScript classes | the WHATWG state machines | planned |
| Audio | `src/audio/` | sources, the list of active ones, both shared with SDL's audio thread; start, stop, resume, close, clean up, mix | a source that plays is in the list, a freed one is not, sources end | `AudioMixer`, `OffMainThread_proofs` |
| Video recording (GPU readback) | `src/video/gpu_readback_recorder.cpp` | buffers being mapped, frame queue, encoder thread; capture, map, encode, stop | every frame encoded once or accounted for, in order; `stopRecording` returns | `Recorder`, `Recorder_proofs` |
| Debug server | `src/debug/debug_server.cpp` | clients, pending requests | each request answered to its own client | planned |
| WebGPU bindings and context | `src/webgpu/` | current texture, submits, captures | one present per frame | planned, frame lifecycle only |
| Local storage | `src/storage/` | a map and its file | a crash leaves the old or the new file | planned |
| Module resolver | `src/js/` | none | Node's rules | planned, as operators |
| Transpilers, canvas 2D, input and windows, embedded bundle, synchronous HTTP, glTF, ray tracing, JavaScriptCore and Hermes, embedding API, command line | several | data translation and I/O | | not modelled, section 8 |
| Workers | `src/workers/` | | | not compiled by any build file |

How they interact: every asynchronous component delivers its results from a step
of the main loop, by a call of a protected JavaScript function. `HotReload`'s
events lead to `reloadScript`, which drops timers and frame callbacks, empties the
module caches, and leaves requests and sessions alone; that is why a reload is an
action of `Timers`, `ChronoTimers`, `MainLoop` and `ModuleLoading`, each with what
it does to that component. The handles of all of them come from the engine
(`V8Handles`, `QuickJsHandles`), whose model treats them as native code that
protects what it keeps and unprotects it once. The protection properties of the
other modules say that they do: what each keeps is protected once and released
once. They do not say that no unfinished call uses what is released; a request
that is refused at once releases an argument of its own call (`RefusalReturns` of
`AsyncHttp`), which the two handle modules therefore have as an action.

## 2. How to run

    tlc -config Timers.cfg Timers.tla          (likewise for the others)
    tlapm Timers_proofs.tla
    tlapm ChronoTimers_proofs.tla
    tlapm MainLoop_proofs.tla
    tlapm Loading_proofs.tla
    tlapm WebTransport_proofs.tla
    tlapm Handles_proofs.tla
    tlapm Recorder_proofs.tla
    tlapm OffMainThread_proofs.tla

A configuration has the name of its module. `TimerService` has none: it is what
`Timers` and `ChronoTimers` are checked to implement.

Operators introduced by a comment "Mutant: ..." are no part of a specification:
each is a definition as a plausible bug would have it, and putting it in place of
the definition after it breaks the property that is there to find that bug.
`PROJECT.json` pairs them, and names the lines that each definition models.

## 3. The modules

The common form: `pc` says where the main thread is; an action is a handler, or
the part of one between two calls of JavaScript; `InJS` is true where JavaScript
runs and may call the API. The properties are about histories as well (what has
run, what was cleared): such variables are marked "history" where they are
declared, and no guard reads them, except that a call is made once, and that a
crash needs memory that was freed too early.

Components whose proofs share a module have names of their own where two of them
would collide: `BackgroundWork` has `phase`, `workVars`, `WorkSpec`; `HotReload`
`reloadVars`, `ReloadSpec`; `AudioMixer` `MixerSpec`; `QuickJsHandles` `QuickSpec`,
and calls a handle a `Box` and a native call an `Activation`.

### Timers

One timer is one `UvTimerContext`. `CreateTimer` is `createUvTimer`
(`src/runtime.cpp:970` and below), `ClearTimer` `cancelUvTimer`, `CloseHandle`
`onTimerClose`, `FireTimer` `onUvTimerCallback`; `TakePending`, `SkipCancelled`,
`CallTimer` and `ReturnFromTimer` are `executeTimerCallbacks`, cut where it calls
JavaScript; `ReloadScript` is `clearAllTimers` followed by the script; `Shutdown`
and `DrainLoop` are the two halves of the shutdown. The table is a function from ids
to contexts, ids restart at 1 after a reload, and a context is freed when its
entry goes: `dangling` collects those whose `uv_timer_t` libuv still has. From
then on `Crash` may end the program at any time, and the other properties promise
nothing (their premise is `MemorySafe`).

A timeout that has fired and waits in the queue when the script is reloaded is
dropped and never released. `ProtectedWhileNeeded` is therefore exact for the
callbacks of the script that is running only, and says of older ones that none is
released twice (section 7, `ReloadReleasesTimers`).

Time is left out: any set of the active timers may be due in a poll.

### TimerService

What the two implementations of the timer API have in common, as a script sees
it: a timer is not set yet, waits, is due in the present frame, or is over, and at
most one callback is on the stack. `Timers` and `ChronoTimers` each say at their
end what the state of their tables is in these terms (`StatusOf`, and the
`INSTANCE ... WITH` after it) and have `ImplementsTimerService` as a property. The
service is as strong as both allow, and has three weaknesses: a timer that is due
may be called although it was cleared before its turn; an interval whose id was
cleared before it was given out may end early (`ClearEarly`); and `clearTimeout` of
an interval that is due or being called may have no effect (`ClearMissed`, section
7). The promise of `Timers` ends with
`MemorySafe` and with the shutdown, that of `ChronoTimers` with the shutdown;
`End` is the step for that.

### ChronoTimers

The same API without libuv: a list, a batch that is split off once a frame
(`CollectExpired`), intervals that are put back after their call
(`ReturnFromTimer`). `clearInterval` records the id also for a batch that may be
executing it; `clearTimeout` does not, so that an interval of the batch that is
passed to it goes on (`NotFound`). The histories `cleared` and `missed` together
count every call of the two functions.

### MainLoop

`run`, `pollEvents`, `requestAnimationFrame`, `cancelAnimationFrame` and
`process.exit`, with the rest of the system reduced to work that scripts start
and that ends: timers and sessions, which the idle rule of `run` (`HasWork`)
knows, and requests, which it does not. `noSdl` is chosen initially: with a window
the window may ask the program to end, without one the idle rule may.

### AsyncHttp

The multi handle of curl, the sockets libuv polls for it, the completed queue and
the callbacks, up to `shutdown()`. curl is external: a transfer is in flight, has
finished and waits for `curl_multi_info_read` (`messages`), or is over. In a call of
`request()`, `curl_multi_socket_action` goes on with every transfer whose time has
come: any of those in flight may be over when it returns, the new one or others
(`done` in `StartRequest`), and nobody reads their messages there. A request that
is refused is answered inside the call: `RefuseRequest` calls the callback, which may
make requests in turn, and `RefusalReturns` releases it while the call of
`__httpRequestAsync` is unfinished (`refusals` is that stack). `SocketCalls` is what
`socketCallback` may do in one call of curl.

### BackgroundWork

File reads and mesh decoding from the call to the callback: `pool` and `finished`
are libuv's thread pool, `completedReads` is the global queue of
`async_file.cpp` (`completedQueue` there), `pendingFileCallbacks` and
`pendingDracoCallbacks` belong to the runtime. `Shutdown`, `Destroy`, `CreateRuntime` let one process create a second
runtime after the first.

### HotReload

An editor (save in place, that is truncate and write; save by rename), the
operating system's watch, which names an inode, `FileWatcher`, `pollEvents` and
the loading of the entry file and one import through the module cache of the
engine. The contents of a file is a version number, 0 while it is truncated.

### ModuleLoading

`require()` and `loadEntry`. The program is a parameter: `imports` and `kind`
range over every graph of three modules and every behaviour of each (plain,
assigns `module.exports`, throws, does not compile, does not exist).
`nativeExceptions` separates the engines whose `throwException` throws in
JavaScript from those where the call returns. A module requires its imports in
any order, and again from callbacks after the load.

### V8Handles, QuickJsHandles

Who owns a handle. In V8 every handle that native code makes is in
`frameHandles_` until the frame ends, arguments belong to their call, and
`protect` moves a handle to its holder; in QuickJS a handle is a box with one
reference, of which only arguments are deleted. The "native code" that uses the
engine is any code that protects what it keeps and, as a rule, unprotects it when
no unfinished call uses it (`Disposable`, `DisposableBox`). The exception has an
action of its own, `UnprotectArgument` and `UnprotectArgumentBox`: a call may
unprotect the argument that it has protected, as `__httpRequestAsync` does with its
callback when the request is refused on the spot (`src/runtime.cpp:1731-1766`). The
end of such a call deletes the argument a second time, on QuickJS after reading it,
and so does on QuickJS the end of a call that returns its argument unprotected
(`connect()` of audio nodes). What the program does then is not defined: the return
sets `corrupted` or `misused`, and the behaviour ends. The properties speak of
everything up to there, nested calls, frames, other requests and all that the call
itself does after it has unprotected its argument included; section 7 lists that
the model does get there. Addresses are reused, also between the unprotect and the
return.

### WebTransport

One session with its streams: the QUIC client and its event queue in C++, and
the classes of the polyfill in JavaScript. The steps of `processEvents` are
actions (`ReceiveData` and `ReceiveControl` for packets, `EndPump`,
`PollHandshake`, `RetryWrites`, `DetectClosure`, `DispatchEvent`,
`EndProcess`), since scripts run while events are dispatched. `PumpResults` is
what one `pumpStream` may do: quiche takes any prefix, nothing, or refuses.
`ReadStream` parses the header and hands on the rest, however packets are cut.
`answer` is what came on the CONNECT stream: the response, and then perhaps the end
by which the server ends the session (`ended`). `readStream` drains the stream and
tells nobody, so that nothing in the model reacts to it (section 7,
`ServerEndIsSeen`); `ClosedIsSettled` is about sessions whose connection ends.

### AudioMixer

The first module with two threads of the runtime's own code. On the main thread
`Start` is `AudioBufferSourceNode::start`, cut at the locks it takes: it marks the
source as playing under the source's mutex, releases it (`Unlock`), and only then
registers the source under the mutex of the list (`RegisterSource`). `Stop`,
`SetBuffer`, `SetLoop`, `Resume`, `Suspend` and `Close` are the other calls of the
script; `Cleanup` and `DestroySource` are `cleanupAudioBindings`, after which SDL
still calls. On the audio thread `LockList`, `Process`, `AllMixed`, `Collect` and
`AllCollected` are `audioCallback`, one action for each time it takes the mutex of
a source. Destroying the stream waits for a callback that is under way
(`CloseDone`); SDL is external.

### Recorder

One recording from the first captured frame to the file. The main thread's
`BeginCapture`, `Scan`, `Process` and `Capture` are `onVideoCaptureCallback` with
`processPendingBuffers` inside; `StopRecording` goes through the same scan several
times (`round`), gives up what is not mapped and joins the encoder thread, whose
loop is `CheckDone`, `CheckCount`, `TryGetFrame`, `EncodeFrame`.

The GPU library may call a map callback at any time or never; `ownThread` tells
libraries that do so on a thread of their own from those that do so only inside
calls of the main thread, which goes on when the callback has returned
(`inCallback`). `CallBack` is the call, `WriteStatus` and `SetComplete` are the two
writes of the callback. Giving up a buffer is cut in the same way: `DestroyBuffer`,
`FreeFlag`, `FreeStatus` are `wgpuBufferDestroy` and the two `delete`s. Of the library
it is assumed that it does not execute two map callbacks at once, and that
`wgpuBufferDestroy` calls the callback of a buffer that is still being mapped before
it returns, as WebGPU demands; it does not wait for a callback that another thread
is executing. When that callback has still to write to a cell that is freed
(`Stray`), what follows is not defined and the behaviour ends. This is the one
exception of `FlagsOutliveMapping`, and section 7 lists that it occurs.

## 4. The runs

| Run | Bounds | Distinct states | Shows |
|---|---|---|---|
| `Timers` | 3 timers, 1 reload | 232,893 | safety until a reload, protection, cleared intervals stay silent, the timers are a `TimerService`, every timer resolves, every handle closes |
| `MainLoop` | 3 frame callbacks, a timer, a session, a request | 62,236 | order, protection and progress of frame callbacks; a headless program without work ends |
| `ChronoTimers` | 3 timers, 1 reload | 353,956 | protection, the timers are a `TimerService`, every timer resolves |
| `AsyncHttp` | 3 requests | 18,049 | callbacks protected from the request to the end of their call, refusals included; the shutdown answers all that is open; every request is answered or left unread with nothing in flight |
| `BackgroundWork` | 3 calls, 2 runtimes | 115,426 | protection, no thread for a dead runtime, progress |
| `HotReload` | 2 saves of each file, 2 loads | 66,214 | no save in place is missed |
| `ModuleLoading` | 3 modules, 2 loads | 312,476 | one execution, of what `loading_` says, and one exports object per module and load |
| `V8Handles` | 4 handles, 1 function, depth 2, symmetry | 156,280 | ownership of handles, up to the end of a call that unprotected its argument |
| `QuickJsHandles` | 3 boxes, 2 objects, 3 references, depth 3, symmetry | 527,480 | boxes in use are allocated, up to the end of a call that unprotected or returns its argument; reference counts |
| `WebTransport` | a bidirectional stream of the client, a unidirectional one of the server, 1 unit of payload after a header of 2 | 1,232,404 | order and completeness of streams, agreement of the session lists, `closed` settles |
| `AudioMixer` | 2 sources, a buffer of 1 callback, 5 calls | 379,780 | a source that plays is in the list or about to be, a freed one is not; sources end |
| `Recorder` | 4 frames, 2 rounds of `stopRecording` | 284,492 | every frame is accounted for, in order; callbacks find their cells, but for one under way on a thread of the library when its buffer is given up; `stopRecording` returns |

Why the bounds are enough for the cases they are for:

 - *Timers*: one timer that is being called, one in the same batch that it
   clears, and one that it creates; a reload needs one old and one new timer
   under the same id. `ChronoTimers` likewise.
 - *MainLoop*: a callback that is running, one behind it in the batch and one
   that it requests for the next frame. The idle counter is at its real limit, 3.
 - *AsyncHttp*: one request whose message waits, one in flight, one that is made
   by a callback, in the loop, in the shutdown and in a refusal; a request that ends
   in the call that starts another, with a third in flight or none.
 - *BackgroundWork*: a job on a thread, one in a queue and one whose callback
   runs, of any kinds; two runtimes, since the second is the first to inherit.
 - *HotReload*: two saves, so that one can fall into the reload caused by the
   other; two watches, so that one replaces the other.
 - *ModuleLoading*: three modules have every kind of cycle with a module inside
   and one outside of it. A second load shows what the first leaves behind.
 - *V8Handles*, *QuickJsHandles*: a call inside a call, each with its own
   argument and local, and an address that is used again, also one that a call has
   unprotected and not yet deleted again. Addresses, functions and objects are
   interchangeable, hence the symmetry; no liveness is checked there.
 - *WebTransport*: header and payload can be cut at every place; a stream each
   way and a stream that has both. The kinds of streams that are left out in the
   configuration follow the same branches (`Client`, `Server`, `Readable` and
   `Writable` in the module); larger instances, with a bidirectional stream of the
   server, were used while the model was written.

 - *AudioMixer*: a source that is restarted at every point of a callback, while
   another one is mixed; with five calls it can be given a buffer, the context
   resumed, and the source started, stopped and started again. The code has no
   limit on either; the theorems of section 6 hold for all.
 - *Recorder*: at the end of a recording one frame can be encoded, one queued, one
   mapped and one being mapped. `stopRecording` looks 100 times; two rounds have
   one that leads to another and one that is the last.

Deadlock is not checked where the system does stop: after the shutdown, after a
crash, when the bounded supply of calls is used up, or where memory is misused and
the model ends (`V8Handles`, `QuickJsHandles`, `Recorder`).

## 5. Fairness

Safety needs none. For liveness every `FairSpec` says no more than this:

 - *The main thread goes on* (`WF` of the step of the loop): `run` calls
   `pollEvents` until `running_` is false, and scripts return. A script that never
   returns stops every one of these promises, as in a browser. Nothing obliges a
   script to call anything, the host to shut down, or an editor to save.
 - *A running timer expires in the end* (`Timers`: `SF` of a poll in which it is
   due). Strong fairness, as a poll happens once a round and the phase `pc` is
   another one in between. libuv fires every timer whose time has come.
 - *curl finishes what it works on* (`AsyncHttp`: `SF` for each request in
   flight): every easy handle has a time limit, which runs as a libuv timer.
 - *Worker threads return, and the loop delivers their result*
   (`BackgroundWork`: `WF` for a worker, `SF` for the delivery): reads and decodes
   are finite, and libuv calls the after-work callback in the poll that finds it.
 - *A connection that is being closed is closed* (`WebTransport`: `SF` of a poll
   at which quiche's timer is due): the draining period is a timer of QUIC.
   Nothing is assumed of the server or the network while the connection is open.
 - *The host polls* (`ChronoTimers`: `WF` of the step, `SF` of a poll in which a
   timer is due): the embedding application's loop calls `pollEvents` every frame.
 - *Both threads go on while they can* (`AudioMixer`: `WF` of the audio thread, `SF`
   of the main thread; `Recorder`: `WF` of both). Strong fairness stands for the
   mutex of the list: the callback holds it again and again, but releases it for
   the milliseconds between two callbacks, in which the main thread gets it.
   Of the GPU library it is assumed that a callback it has called is executed to its
   end (`Recorder`: `WF` of `CallbackStep`), and nothing else: `stopRecording` returns
   even if it never calls back.

## 6. Proofs

All proofs are about the specification without fairness, for any value of the
constants. Sets of timers, requests, jobs, sources, modules, handles and objects
are any sets, of any size; the numeric bounds of section 4 are any numbers. The
assumptions on constants are those the modules name:

 - `MaxTimers`, `MaxRuntimes`, `MaxLoads`, `MaxWatches`, `MaxRefs`, `MaxNesting`,
   `Length` and `Rounds` are positive numbers; `MaxReloads`, `MaxFrameCalls`,
   `MaxSaves`, `MaxDepth`, `MaxWhen`, `MaxCalls`, `MaxUnits` and `MaxFrames` are
   natural numbers;
 - a value that stands for none (`NoRequest`, `NoJob`, `NoObject`, `Host`) is not
   one of its set, and sets that are to be disjoint are (timers, sessions and
   requests of `MainLoop`; the four kinds of streams of `WebTransport`); the entry
   script is a module;
 - the streams of a session are finitely many, as the id of a stream has 62 bits.

Every proof has the same form. An inductive invariant says, beside the property,
in which phase of the loop which queue may hold something, and where an element is
if it is not somewhere else; each of these was first checked by TLC as an
invariant of the run of its module. One lemma per action shows that the
invariant is preserved, with lemmas below it about what `Append`, `Tail`,
`RemoveAt` and the other operators do to the range, the order and the
repetitions of a queue. The theorems then follow from the invariant alone, or,
for properties of steps, from the invariant and the step.

### Timers_proofs

The properties are not inductive. That an interval is not called after it was
cleared holds because `clearInterval` records its id whenever the table still has
it, because only contexts of the current script are queued, because ids are
unique among these, and because a queued context whose handle is closing has its
id among the recorded ones. The invariant says all of this:

    IInv == TypeOK /\ IdInv /\ QueueInv /\ DanglingInv /\ SafeInv

 - `IdInv`: an id is the number of its context within the current script;
 - `QueueInv`: which queue may be non-empty in which phase, and that none has a
   timer twice (so a timeout cannot be called again by a second entry);
 - `DanglingInv`: before a reload, only the shutdown frees a context in use;
 - `SafeInv`: as long as no such context was freed, the table has exactly the
   contexts whose handle is in the loop (`OwnerInv`), the state of a handle says
   what else is true of the timer (`HandleInv`), an entry of the queue is of this
   script and callable or cancelled (`EntryInv`), and the protection counts are as
   they should be.

`SafeInv` is conditional since the code does free contexts in use (section 7);
the theorems are conditional in the same way. One lemma per action shows that it
preserves the invariant; lemmas about `Append`, `Head` and `Tail` say what a queue
does to ranges and duplicates.

Theorems: `InvHolds`, `TypeCorrect`, `SafeUntilReload`, `ProtectionIsBalanced`,
`NoDuplicates`, `CallsAreProtected`, `ClearedIntervalsStop`, `TimeoutsRunOnce`,
`ReloadSilencesOldTimers`.

That `Timers` implements `TimerService` is proved in the second half of the module.
Initial states map to initial states, and each action maps to the action of the
service it stands for or to a stuttering step. The invariant is the one above and
two facts the service needs:

    RInv == IInv /\ CallInv /\ (MemorySafe => CancelInv)

 - `CallInv`: a callback is on the stack only in the phase `call`, so that the
   service's `calling` changes with `CallTimer` and `ReturnFromTimer` alone;
 - `CancelInv`: an id that is recorded as cleared belongs to a timer the script did
   clear. It lets `SkipCancelled` be the service's `Drop`, which passes over cleared
   timers only.

While the promise lasts, the status of a timer depends on two things, whether it
is queued and the state of its handle (`StatusIs`); a step that changes neither is
a stuttering step (`StutterRefines`), which disposes of most actions.

Theorems: `RefinementInvariant`, `TimersAreAService`.

### ChronoTimers_proofs

    IInv == TypeOK /\ ListInv /\ PhaseInv /\ ClearInv /\ ProtectedWhilePending

 - `ListInv`: a timer is in the list, in the batch or on the stack, in one of them
   and once. Without it one entry could be released while another waits;
 - `PhaseInv`: the batch is empty outside of `executeTimerCallbacks`;
 - `ClearInv`: what a clear function has recorded. A cleared entry of the list has
   its flag, a cleared interval that is being executed has its id in
   `cancelledTimerIds`, and an id that is there belongs to an interval that was
   cleared, or to one that was not created yet (`early`).

`CollectExpired` splits the list with `Only`, a recursive function over the length
of the list. That it selects what it should, once, is proved by induction on that
length (`OnlyIsDefined`, `OnlyElements`).

`FallbackIsAService` is the second implementation of `TimerService`: the status of
a timer is read off the list, the batch and the stack, and `ClearInv` is what
makes a cleared interval that is due end as the service demands, and an interval
that ends early one whose id was cleared.

Theorems: `Invariance`, `Typing`, `TimerProtection`, `FallbackIsAService`.

### MainLoop_proofs

    RafInv == Ordered /\ Phases /\ Dropped /\ Protected
    IInv   == TypeOK /\ RafInv

 - `Ordered`: the ids that wait are increasing, those of the batch below
   `frameLimit` and those of the queue at or above it, and all that ran are below
   both. This is the strengthening of `CalledInOrder`: a callback that is requested
   in a frame cannot overtake one of the batch;
 - `Phases`: the batch exists only during a frame, and a callback is on the stack
   in the phase `call` and in no other;
 - `Dropped`: what was cancelled is in no queue, and its id is not given out again;
 - `Protected`: each id is protected once while it waits or runs, else not at all.

Theorems: `Invariance`, `Typing`, `FrameProtection`, `FrameOrder`.

### Loading_proofs

*ModuleLoading.* The graph of imports and what each module does are variables
that `Init` chooses, so the theorems hold for every program.

    IInv == TypeOK /\ StackInv /\ CacheInv /\ ObtainedInv
              /\ OneExportsObject /\ CachedIsProtected

 - `StackInv`: the bodies that are being executed are of different modules, which
   are exactly those in `loading_`; the exports object of each is in the cache
   since before the body began, or has been replaced by its module;
 - `CacheInv`: a module is in the cache from its first execution on, so that the
   cache is what stops a second one;
 - `ObtainedInv`: what a `require()` returned as complete is not executed any more.
   With `StackInv` it says that an object that is handed out can only be replaced
   while its module is still on the stack.

Theorems: `Invariance`, `Typing`, `ModulesRunOnce`, `ExportsAreShared`,
`CacheProtection`.

*HotReload.*

    HotInv == ReloadTypeOK /\ VersionInv /\ PhaseInv /\ FreshInv /\ OnItsWay

 - `OnItsWay` is `NothingMissed` in every phase: if the script that runs is not the
   one on disk then an event of the system is undelivered, or one was taken over,
   or a reload is requested, or the entry file is about to be read. A step that
   uses one of these up puts the next in its place;
 - `PhaseInv`: events taken over and requests are used up in the poll that finds
   them, so that an idle loop has none; nothing is loaded before `loadScript`;
 - `FreshInv`: a load with `require()` finds no entry file in the cache, unless
   there was a second `loadScript` (`Executed`);
 - `VersionInv`: no watch is on an inode that is still to come, so that a rename
   detaches every watch.

Theorems: `ReloadInvariance`, `NoSaveIsMissed`.

### WebTransport_proofs

    IInv == TypeOK /\ WriteInv /\ SessionInv

 - `WriteInv`: what quiche has taken of a stream and what still waits are together
   the header and everything the script has written, for as long as the client
   sends on the stream (`Flow`); the end was handed over only after all of that but
   what was written after `close()`. `WrittenInOrder` is about what quiche has taken
   only, and says nothing of what waits;
 - `SessionInv`: the event that ends a session is the last one of a session that
   `processEvents` is about to give up (`teardown`), and of no other. It holds of
   the events in the queue, so it has to be kept through every packet that is
   received; a session is in the list of C++ and in that of JavaScript or in
   neither, except while its events are dispatched.

`ReadInOrder` needs a second invariant, `ReadInv`, kept by the steps that keep
`IInv`. It says of each readable stream that what has arrived is what the script was
given, then what the events in `g_events` carry, then what waits in quiche. The
events carry it as a run: a sequence of states of the readable (how many units it
has been given; not yet known, open, closed or errored), one after each waiting
event, in which the events of other streams change nothing (`Run`). That the last of
them accounts for all that has arrived (`Account`) is not claimed of a stream that was
aborted (`shut`) or of one that the HTTP/3 layer drained before the session was up
(`lost`, a part of `early`).

 - A read appends to the run what `ReadStream` takes from the stream
   (`ReadKeeps`). The events of one `pollEvents` are the reads of all streams in an
   order that a hash table chooses, flattened; by induction on their number
   (`FlattenKeeps`) only the stream's own read concerns it;
 - a dispatch takes the first event, so the run starts one state later
   (`RunTail`, `DispatchReads`);
 - what the script and the sending side do leaves the run alone (`Quiet`), and so
   do the events that end a session (`Aside`).

Theorems: `Invariance`, `Typing`, `WritesInOrder`, `SessionLists`,
`ReadInvariance`, `ReadsInOrder`.

### Handles_proofs

*V8Handles.*

    OwnedInv == TypeOK /\ OwnerInv /\ CallInv /\ LiveInv
    IInv == TypeOK /\ (corrupted \/ OwnedInv)

 - `OwnerInv`: what the frame tracks or native code keeps is allocated, and the
   engine's set of protected handles is what native code keeps;
 - `CallInv`: the handles of two unfinished calls are disjoint, and arguments
   are never tracked by the frame. Without it the end of a nested call could
   delete what the call around it uses. An argument that its call has unprotected
   counts as the call's no longer (`Arguments`), and its address may belong to
   another handle by then;
 - `LiveInv`: every handle has an owner; without it a frame could leak.

Theorems: `InvHolds`, `ProtectionHolds`, `CallsKeepTheirHandles`,
`NoDoubleDelete`, `FramesDoNotLeak`. All hold up to the first return of a call that
has unprotected an argument of its own (`corrupted`), where the code deletes the
argument twice (section 7). The last also excepts arguments that a native function
returns, which the code loses.

*QuickJsHandles.*

    CountedInv == QuickTypeOK /\ BoxInv /\ CountInv
    QuickInv == QuickTypeOK /\ (misused \/ CountedInv)

 - `BoxInv` is ownership as above: what native code keeps and what the calls in
   progress use is allocated, and no two calls use the same box;
 - `CountInv` is reference counting: the count of an object covers the references
   of the script, one for each of its boxes and one more for each that is kept,
   unless a kept box of it was returned (`handedOut`, section 7). It is an
   inequality, since boxes that are forgotten leave their reference behind. The
   proof counts with the cardinalities of the sets of boxes of an object, and
   needs that a set of boxes that a return deletes loses as many references as it
   has members (`SpentRefs`).

Theorems: `QuickInvariance`, `NoBoxIsUsedAfterDelete`, `KeptObjectsSurvive`. They
hold up to the first return of a call that has unprotected its argument, or returns
it unprotected (`misused`), where the code reads a deleted box (section 7).

### Recorder_proofs

    IInv == TypeOK /\ PhaseInv /\ NoRepetition /\ FramesInv /\ MapInv

 - `FramesInv`: each captured frame is in exactly one of eight places, from the
   pending buffers to the file or to those given up;
 - `NoRepetition`: and only once in that place;
 - `PhaseInv`: which of these places are empty in which phase, above all that the
   encoder thread ends only after `encodingDone_` and with an empty queue. Since
   the flag is set after the last frame is queued and read before the length of
   the queue, nothing can be queued after the thread has found it empty;
 - `MapInv`: the callback of a buffer that a scan has found has ended, so that
   freeing its cells takes them from no callback; a buffer that is still being
   mapped has both cells and is not given up, so that destroying it calls a callback
   that finds them; and without a thread of the library's own the only callback under
   way is the one the main thread executes, which does not delete anything before
   it returns. What is left is the exception of `FlagsOutliveMapping`.

`EveryFrameIsAccountedFor` is `FramesInv` with the places that `PhaseInv` says are
empty left out. The order of the frames needs more, and holds only for a library
without a thread of its own: the stages are sorted and each is behind the one
before it (`StagesInOrder`), the copies are done in order (`MappingInOrder`), and a
scan leaves no mapped buffer behind it (`ScanInOrder`), because none becomes mapped
while it goes on. `OrderInv` is these three. Lemmas about `Append`, `Tail`, `Head`
and `RemoveAt` say what they do to sorted sequences.

Theorems: `InvHolds`, `CallbacksFindTheirFlags`, `NoFrameIsLost`,
`FramesKeepTheirOrder`.

### OffMainThread_proofs

The three components that hand work to curl, to the thread pool and to SDL.

*AsyncHttp.* `HttpInv`: a request is in the table, in the completed queue or on the
stack, of callbacks or of refusals, in one of them and once, and its callback is
protected as long as it is in one of them. Without "in one of them" the release of
an entry of the queue could take the callback of the table's. Its part `AnswerInv`
says where the requests are that have not been answered, and that after the
shutdown has emptied the table only those its own callbacks started are left.
Theorems: `HttpInvariance`, `RequestProtection`, `ShutdownAnswers`.

*BackgroundWork.* `WorkInv` says that there is a function that gives each job its
place: with a thread, finished, in one of the four queues, on the stack, or
nowhere; that each of these holds the jobs whose place it is and no others; and
that the callback of a job of this runtime is protected as long as the place of
the job is not "nowhere". A step that moves a job changes the function at one
point, so that the disjointness of seven sets need not be shown seven times. The
place is existentially quantified and no variable of the model. The global queue
may hold jobs of a runtime that is gone (section 7), so that what is said of
protection is said of the jobs of the present one.
Theorems: `WorkInvariance`, `CallbackProtection`, `IdleWhenDestroyed`.

*AudioMixer.*

    MixerInv == MixerTypeOK /\ AliveInv /\ TodoInv /\ PlayingIsListed /\ FreedIsUnlisted

`PlayingIsListed` and `FreedIsUnlisted` are nearly inductive. What they lack is that
a source is destroyed only after the script (`AliveInv`; otherwise `start` could
register a freed one), and that the entries the callback has still to look at are
in the list, which it looks at only under the lock (`TodoInv`; otherwise a source
could be freed between two of its steps).
Theorems: `MixerInvariance`, `PlayingSourcesAreMixed`, `FreedSourcesAreForgotten`.

### Checked by TLC only

Liveness, which is out of the prover's reach: `EveryTimerResolves` (of both kinds
of timers), `ClosedInTheEnd`, `EveryFrameRuns`, `IdleProgramEnds`,
`AnsweredUnlessStranded`, `AcceptedIsAnswered`, `SaveInPlaceIsLoaded`,
`ClosedIsSettled`, `SourcesEnd`, `StopReturns`, and the last property of
`TimerService`. Every safety invariant and every action property that a run
checks has a theorem.

The theorems of the library that do induction take the property as an operator,
which the installed provers cannot instantiate. Where an induction over the
naturals was needed it is stated with a set (`SetInduction` in
`ChronoTimers_proofs`, `OffMainThread_proofs` and `WebTransport_proofs`, from the
well-foundedness of `<`).

## 7. Where the code and its documentation disagree

These are stated as properties in the modules, are named by no configuration,
and are violated when they are added to the one of their module (for the
WebTransport ones, with `ServerBidi = {sb}`). The passing properties are worded so
that they say what does hold next to each of them.

| Module | Property | What the code does |
|---|---|---|
| Timers | `ReloadIsMemorySafe` | `clearAllTimers` leaves closing contexts in the table for `onTimerClose` to erase (`src/runtime.cpp:685`) but restarts the ids (`src/runtime.cpp:703`): the first timer of the reloaded script replaces the entry of an old context and so frees a `uv_timer_t` that libuv is still to close |
| Timers | `ClearIsFinal` | a timeout that has fired is marked cancelled at once (`src/runtime.cpp:1026`), so that `clearTimeout` by another callback of the same batch finds nothing to cancel and the timeout is called |
| Timers | `ReloadReleasesTimers` | for the same reason a reload does not release the callback of a timeout that is queued (`src/runtime.cpp:678`): it stays protected for ever |
| Timers | `ShutdownIsMemorySafe` | the table is cleared, and with it the contexts, before the loop has closed their handles |
| ChronoTimers | `UnclearedIntervalStays` | `clearInterval` records an id whatever it names and however long ago; an interval that gets the id later ends after its first call |
| ChronoTimers | `ClearStopsInterval` | `clearTimeout` looks for the id in the list only (`src/runtime.cpp:1184`): for an interval that is in the batch or being executed it does nothing, and the interval goes on |
| MainLoop | `IdleExitDropsNothing` | the loop is to "exit when there's no more work to do" (`src/runtime.cpp:738`), but the rule does not count requests: a program without a window that only waits for `fetch`, a file or a mesh is ended after three idle frames |
| AsyncHttp | `EveryRequestIsAnswered` | the message of a transfer that is over inside `request()`, the one it starts or any other in flight (`src/http/async_http_client.cpp:526`), is only read when another event makes the client look, and there may be none |
| AsyncHttp | `ShutdownAnswersAll` | a request made by one of the last callbacks of the shutdown is never answered |
| AsyncHttp | `ShutdownFreesAfterClose` | `shutdown` frees the socket contexts right after `uv_close` |
| BackgroundWork | `ReadsDoNotAbort` | the read of a directory throws in the worker thread (`src/fs/async_file.cpp:78`) |
| BackgroundWork | `DecodeIsAnswered` | an empty buffer is refused without a call of the callback (`src/runtime.cpp:3053`) |
| BackgroundWork | `CalledNextFrame` | callbacks that `processCompletedReads` defers to "the next frame" are called later in the same one |
| BackgroundWork | `ResultsStayInTheirRuntime` | the queue of completed reads is global (`src/fs/async_file.cpp:36`); what the shutdown leaves in it is delivered through the pointer to the runtime that is gone |
| HotReload | `ImportsAreFresh` | a reload does not clear the cache of the modules that V8 links (`src/js/v8_engine.cpp:962`); `docs/docs/guides/running-games.mdx:46` says that module caches are cleared |
| HotReload | `ChangeIsLoaded` | after a save by rename the watch is on the old inode (`src/fs/file_watcher.cpp:192`) and later changes are not seen |
| HotReload | `ContextHeldUntilClosed` | `unwatch` and `shutdown` free the context while its handle is closing (`src/fs/file_watcher.cpp:218`) |
| HotReload | `LoadExecutesTheFile` | a second `loadScript` of the same file finds it in the cache of `require()` and executes nothing |
| ModuleLoading | `SuccessIsTrue` | `loadEntry` returns true for a script that does not compile or throws (`src/js/module_system.cpp:145`) |
| V8Handles | `HeldFunctionsAreCallable` | the C++ object of a function made inside a frame is deleted at the end of the frame although the script may still hold the function (`src/js/v8_engine.cpp:810`) |
| V8Handles | `NothingIsDeletedTwice` | a request that is refused on the spot (`src/http/async_http_client.cpp:437-452`, and always in the stub, `598-607`) unprotects an argument of the unfinished call of `__httpRequestAsync` (`src/runtime.cpp:1731-1766`): `unprotect` deletes it (`src/js/v8_engine.cpp:782`), the end of the call deletes it again (`src/js/v8_engine.cpp:1134`) |
| QuickJsHandles | `NoBoxIsUsedAfterwards` | the same on QuickJS, where the end of the call also reads the box (`src/js/quickjs_engine.cpp:607-613`, `748-757`); and a native function that returns its argument, as `connect()` of audio nodes does (`src/audio/audio_bindings.cpp:139`, `204`), has it deleted before the result is read |
| QuickJsHandles | `ProtectedObjectsExist` | a native function that returns a handle it also keeps, as `require()` does with cached exports, gives away the reference of the box (`src/js/quickjs_engine.cpp:761`); done often enough, the object goes while it is kept |
| QuickJsHandles | `UnprotectedObjectsGo` | a box that native code makes and does not protect is forgotten together with its reference (`src/js/quickjs_engine.cpp:315`) |
| WebTransport | `ReadyIsSettled` | a connection that ends before the answer settles `closed` and leaves `ready` pending |
| WebTransport | `ServerEndIsSeen` | the CONNECT stream is drained and its end ignored (`src/webtransport/webtransport.cpp:512-524`), although "a FIN here means the server ended the session": `closed` stays pending until the connection ends |
| WebTransport | `IncomingIsWritable` | a stream of the server is never marked as outgoing (`src/webtransport/webtransport.cpp:917`), so that the writer of an incoming bidirectional stream always fails |
| WebTransport | `AcceptedIsKept` | a reset by the peer, or the end of an incoming stream, makes the client forget what is still to be sent; what is written after `close()` is accepted and never sent |
| AudioMixer | `MixedOnce` | `start` registers a source without looking whether it is in the list (`src/audio/audio_context.cpp:295`): one that has ended in the callback and is restarted before the callback removes it is there twice, and is mixed twice until it ends |
| Recorder | `NoStrayCallback` | a callback that a thread of the GPU library is executing when `stopRecording` gives up its buffer may write its status and its flag (`src/video/gpu_readback_recorder.cpp:324-325`) after they were deleted (`458-459`) |
| Recorder | `AlwaysEncodedInOrder` | a library with a thread of its own can finish a buffer that the scan has passed and the one after it (`src/video/gpu_readback_recorder.cpp:188`); the later frame is then encoded first |

Further facts about the recorder: `stats_.droppedFrames` is never set, so that the
command line (`src/cli/main.cpp:1753`) never reports a dropped frame; frames given
up by `stopRecording` are not counted as dropped either; the queue of the encoder
has no limit.

Further facts about WebTransport that the model has and no property is about:
data that arrive before the answer to CONNECT wait for the next packet, or are
drained by the HTTP/3 layer that is still attached (`early`, `lost`); the end of a
stream whose header is incomplete is forgotten.

## 8. What is not modelled, and why

 - *Within modelled components.* Delays and the order in which libuv fires timers
   of different delays (any set may be due); arguments and results of callbacks,
   bodies and headers of requests; `registerRelease` and private data of handles;
   what a program does after it has used a deleted handle or cell; the translation of ES modules to CommonJS; datagrams,
   flow control and several sessions of WebTransport; exceptions thrown by
   timer, frame and request callbacks, which the runtime reports and otherwise
   treats as a return.
 - *Audio as data*: samples, gain, resampling and the decoding of files. Of
   the recorders only the one that reads back from the GPU is modelled; the captures
   of macOS and Windows hand frames to the operating system.
 - *JavaScript files*: apart from the polyfills, which are strings in the C++
   sources, the repository's JavaScript is examples, bundles of third-party
   libraries, build scripts and tests of the runtime.
 - *Translation of data without a state machine of its own*: descriptors of
   WebGPU, canvas drawing, glTF, the transpilers, URL parsing, the embedded
   bundle's format, the options of the command line, ray tracing.
 - *Blocking I/O without concurrency*: the synchronous HTTP client, the compile
   command.
 - *Not built*: `src/workers/`, and `AsyncCapture` of `src/video/`, which is
   compiled but never created. Hermes is off unless a build asks for it.
 - *Third-party code*: the engines, libuv, curl, quiche, Dawn and SDL appear only
   as what they may do to the runtime.

The library models have limits that follow from this: V8's and QuickJS's
garbage collectors may drop an object whenever no reference is left
(`CollectFunction`, reference counts), libuv closes handles in any order within a
poll, curl finishes any set of transfers in one event.

## 9. Plan

Next modules, the most important behaviour first:

 1. `Streams`: `ReadableStream`, `WritableStream` and their readers and writers in
    the polyfill (`src/runtime.cpp`, from about line 2100), against an abstract
    queue with an end; then WebTransport's streams as users of it, datagrams and
    several sessions in `WebTransport`.
 2. `DebugServer`: clients, pending requests, answers that come in a later frame
    (`src/debug/debug_server.cpp:614`).
 3. `EsModules`: linking, evaluation and cycles of V8's modules.
 4. `FrameTexture`: the current texture, submit, present and capture.
 5. `LocalStorage`: a write that is cut short by the end of the process.
 6. `Resolver`: the rules of the module resolver as operators, against Node's.

Abstract specifications, each to be implemented by a detailed module through a
refinement mapping:

 - `CallbackService`: a call is accepted and answered once; implemented by
   `AsyncHttp` and `BackgroundWork`.
 - `ByteStream`: a sequence and an end; implemented by each stream of
   `WebTransport`.

Theorems: the refinements of `CallbackService` and `ByteStream`.
