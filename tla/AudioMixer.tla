----------------------------- MODULE AudioMixer -----------------------------
(***************************************************************************)
(* Web Audio: src/src/audio/audio_context.cpp and audio_bindings.cpp.  The *)
(* script starts and stops AudioBufferSourceNodes on the main thread while *)
(* the callback of SDL's audio thread mixes them.  Each source has a mutex *)
(* of its own (mutex_), the context has one for its list of active sources *)
(* (sourcesMutex_).                                                        *)
(*                                                                         *)
(* Time is counted in callbacks, which is how currentTime advances; a      *)
(* start or stop time is kept as the number of callbacks still to come.    *)
(* How long a source plays is abstracted to the end of its buffer, which a *)
(* loop puts off, and an end that may come at any time (the duration       *)
(* argument, a shorter or an empty buffer).  The order of the list does    *)
(* not matter to the sum: it is a bag.                                     *)
(***************************************************************************)
EXTENDS Integers

CONSTANTS
    Source,     \* the source nodes the script has created
    Length,     \* how many callbacks the buffer of a source lasts
    MaxWhen,    \* Bound: the latest start or stop time, in callbacks
    MaxCalls    \* Bound: how many calls the script makes

ASSUME LengthAssumption == Length \in Nat \ {0}
ASSUME MaxWhenAssumption == MaxWhen \in Nat
ASSUME MaxCallsAssumption == MaxCalls \in Nat

Never == -1             \* stopTime_ of a source that was never stopped

VARIABLES
    main,       \* what the main thread does, see MainPhase
    target,     \* the source it does it to
    calls,      \* how many calls the script has made
    alive,      \* the sources not destroyed
    hasBuffer,  \* the sources with a buffer_
    loop,       \* the sources with loop_ set
    playing,    \* the sources with isPlaying_ set
    position,   \* playbackPosition_
    startIn,    \* startTime_ - currentTime, 0 when it has come
    stopIn,     \* stopTime_ - currentTime, 0 when it has come
    listed,     \* activeSources_: how often each source is in the list
    state,      \* state_ of the context
    stream,     \* audioStream_ is open
    shuttingDown,
    audio,      \* what the audio thread does, see AudioPhase
    todo        \* the entries of the list it has still to look at

sourceVars == <<hasBuffer, loop, playing, position, startIn, stopIn>>
contextVars == <<state, stream, shuttingDown>>
mixerVars == <<main, target, calls, alive, sourceVars, listed, contextVars, audio, todo>>

(* js       the script runs                                                *)
(* start    inside start(), holding the mutex_ of target                   *)
(* register inside start(), to register target                             *)
(* close    inside SDL_DestroyAudioStream                                  *)
(* cleanup  inside cleanupAudioBindings                                    *)
MainPhase == {"js", "start", "register", "close", "cleanup", "exit"}

(* idle     between two callbacks                                          *)
(* enter    in the callback, to lock sourcesMutex_                         *)
(* mix      calling process() for each entry of the list                   *)
(* collect  removing the entries that do not play                          *)
(* count    the list is unlocked, sampleCount_ still to be advanced        *)
AudioPhase == {"idle", "enter", "mix", "collect", "count"}

(* Who holds the locks: a source's own is held over more than one step     *)
(* only by start(), the list's only by the callback.                       *)
Locked(s) == main = "start" /\ target = s
ListLocked == audio \in {"mix", "collect"}

Running == stream /\ ~shuttingDown /\ state = "running"

-----------------------------------------------------------------------------
(* The context opens its stream, paused, or fails to.                      *)
MixerInit ==
    /\ main = "js" /\ target \in Source /\ calls = 0
    /\ alive = Source
    /\ hasBuffer \in SUBSET Source /\ loop = {} /\ playing = {}
    /\ position = [s \in Source |-> 0]
    /\ startIn = [s \in Source |-> 0]
    /\ stopIn = [s \in Source |-> Never]
    /\ listed = [s \in Source |-> 0]
    /\ state = "suspended" /\ stream \in BOOLEAN /\ shuttingDown = FALSE
    /\ audio = "idle"
    /\ todo = [s \in Source |-> 0]

Call ==
    /\ main = "js"
    /\ calls < MaxCalls
    /\ calls' = calls + 1

(* start(): nothing happens if the source plays or has no buffer; a stop   *)
(* time set for an earlier run is kept.                                    *)
Start(s, when, offset) ==
    /\ Call
    /\ s \in hasBuffer \ playing
    /\ playing'  = playing \cup {s}
    /\ startIn'  = [startIn EXCEPT ![s] = when]
    /\ position' = [position EXCEPT ![s] = offset]
    /\ main' = "start" /\ target' = s
    /\ UNCHANGED <<alive, hasBuffer, loop, stopIn, listed, contextVars, audio, todo>>

(* Mutant: the source is registered before its lock is released.           *)
RegisterUnderLock ==
    /\ main = "start"
    /\ ~ListLocked
    /\ listed' = [listed EXCEPT ![target] = @ + 1]
    /\ main' = "js"
    /\ UNCHANGED <<target, calls, alive, sourceVars, contextVars, audio, todo>>

(* start() releases the lock of the source ...                             *)
Unlock ==
    /\ main = "start"
    /\ main' = "register"
    /\ UNCHANGED <<target, calls, alive, sourceVars, listed, contextVars, audio, todo>>

(* ... and registers it, whether or not an entry of it is still there.     *)
RegisterSource ==
    /\ main = "register"
    /\ ~ListLocked
    /\ listed' = [listed EXCEPT ![target] = @ + 1]
    /\ main' = "js"
    /\ UNCHANGED <<target, calls, alive, sourceVars, contextVars, audio, todo>>

(* stop(): only a source that plays.                                       *)
Stop(s, when) ==
    /\ Call
    /\ s \in playing
    /\ stopIn' = [stopIn EXCEPT ![s] = when]
    /\ UNCHANGED <<main, target, alive, hasBuffer, loop, playing, position, startIn, listed,
                   contextVars, audio, todo>>

SetBuffer(s) ==
    /\ Call
    /\ hasBuffer' \in {hasBuffer \cup {s}, hasBuffer \ {s}}
    /\ UNCHANGED <<main, target, alive, loop, playing, position, startIn, stopIn, listed,
                   contextVars, audio, todo>>

SetLoop(s) ==
    /\ Call
    /\ loop' \in {loop \cup {s}, loop \ {s}}
    /\ UNCHANGED <<main, target, alive, hasBuffer, playing, position, startIn, stopIn, listed,
                   contextVars, audio, todo>>

Resume ==
    /\ Call
    /\ state # "closed"
    /\ state' = "running"
    /\ UNCHANGED <<main, target, alive, sourceVars, listed, stream, shuttingDown, audio, todo>>

Suspend ==
    /\ Call
    /\ state # "closed"
    /\ state' = "suspended"
    /\ UNCHANGED <<main, target, alive, sourceVars, listed, stream, shuttingDown, audio, todo>>

(* close() tells the callback to stop ...                                  *)
Close ==
    /\ Call
    /\ state # "closed"
    /\ shuttingDown' = TRUE
    /\ main' = "close"
    /\ UNCHANGED <<target, alive, sourceVars, listed, state, stream, audio, todo>>

(* ... and destroys the stream, for which SDL waits until it has ended.    *)
CloseDone ==
    /\ main = "close"
    /\ stream => audio = "idle"
    /\ stream' = FALSE
    /\ state' = "closed"
    /\ main' = "js"
    /\ UNCHANGED <<target, calls, alive, sourceVars, listed, shuttingDown, audio, todo>>

-----------------------------------------------------------------------------
(* cleanupAudioBindings, when the runtime shuts down, leaks the contexts,  *)
(* so that the callback goes on ...                                        *)
Cleanup ==
    /\ main = "js"
    /\ main' = "cleanup"
    /\ UNCHANGED <<target, calls, alive, sourceVars, listed, contextVars, audio, todo>>

(* Mutant: only the first entry of the source is removed.                  *)
DestroyErasesOne(s) ==
    /\ main = "cleanup"
    /\ s \in alive
    /\ ~ListLocked
    /\ listed' = [listed EXCEPT ![s] = IF @ > 0 THEN @ - 1 ELSE 0]
    /\ alive' = alive \ {s}
    /\ UNCHANGED <<main, target, calls, sourceVars, contextVars, audio, todo>>

(* ... and destroys the sources in the order of a hash table: each removes *)
(* all its entries from the list before it is freed.                       *)
DestroySource(s) ==
    /\ main = "cleanup"
    /\ s \in alive
    /\ ~ListLocked
    /\ listed' = [listed EXCEPT ![s] = 0]
    /\ alive' = alive \ {s}
    /\ UNCHANGED <<main, target, calls, sourceVars, contextVars, audio, todo>>

CleanupDone ==
    /\ main = "cleanup"
    /\ alive = {}
    /\ main' = "exit"
    /\ UNCHANGED <<target, calls, alive, sourceVars, listed, contextVars, audio, todo>>

-----------------------------------------------------------------------------
(* sdlAudioCallback: SDL wants data.  During close() it gets silence.      *)
EnterCallback ==
    /\ audio = "idle"
    /\ Running
    /\ audio' = "enter"
    /\ UNCHANGED <<main, target, calls, alive, sourceVars, listed, contextVars, todo>>

(* audioCallback locks the list and goes through it.                       *)
LockList ==
    /\ audio = "enter"
    /\ audio' = "mix"
    /\ todo' = listed
    /\ UNCHANGED <<main, target, calls, alive, sourceVars, listed, contextVars>>

(* AudioBufferSourceNode::process: a stop time that has come ends the      *)
(* source, even one that has not started; otherwise it ends with its       *)
(* buffer, unless it loops.  A source that does not play, or has no        *)
(* buffer, is passed over.                                                 *)
Mixable(s) == s \in playing \cap hasBuffer
Due(s)     == Mixable(s) /\ stopIn[s] = 0
Sounds(s)  == Mixable(s) /\ stopIn[s] # 0 /\ startIn[s] = 0

Process(s) ==
    /\ audio = "mix"
    /\ todo[s] > 0
    /\ ~Locked(s)
    /\ todo' = [todo EXCEPT ![s] = @ - 1]
    /\ \/ /\ ~Due(s) /\ ~Sounds(s)
          /\ UNCHANGED <<playing, position>>
       \/ /\ Due(s) \/ Sounds(s)
          /\ playing' = playing \ {s}
          /\ UNCHANGED position
       \/ /\ Sounds(s)
          /\ position[s] < Length \/ s \in loop
          /\ position' = [position EXCEPT ![s] = (IF @ < Length THEN @ ELSE 0) + 1]
          /\ UNCHANGED playing
    /\ UNCHANGED <<main, target, calls, alive, hasBuffer, loop, startIn, stopIn, listed,
                   contextVars, audio>>

AllMixed ==
    /\ audio = "mix"
    /\ \A s \in Source : todo[s] = 0
    /\ audio' = "collect"
    /\ todo' = listed
    /\ UNCHANGED <<main, target, calls, alive, sourceVars, listed, contextVars>>

(* Mutant: a source whose stop time has come is removed as well.           *)
CollectStopped(s) ==
    /\ audio = "collect"
    /\ todo[s] > 0
    /\ ~Locked(s)
    /\ todo' = [todo EXCEPT ![s] = @ - 1]
    /\ listed' = IF s \in playing /\ stopIn[s] # 0 THEN listed ELSE [listed EXCEPT ![s] = @ - 1]
    /\ UNCHANGED <<main, target, calls, alive, sourceVars, contextVars, audio>>

(* Then it removes the entries of which isPlaying() is false by now.       *)
Collect(s) ==
    /\ audio = "collect"
    /\ todo[s] > 0
    /\ ~Locked(s)
    /\ todo' = [todo EXCEPT ![s] = @ - 1]
    /\ listed' = IF s \in playing THEN listed ELSE [listed EXCEPT ![s] = @ - 1]
    /\ UNCHANGED <<main, target, calls, alive, sourceVars, contextVars, audio>>

AllCollected ==
    /\ audio = "collect"
    /\ \A s \in Source : todo[s] = 0
    /\ audio' = "count"
    /\ UNCHANGED <<main, target, calls, alive, sourceVars, listed, contextVars, todo>>

(* sampleCount_, from which currentTime is computed, advances.             *)
Advance ==
    /\ audio = "count"
    /\ startIn' = [s \in Source |-> IF startIn[s] > 0 THEN startIn[s] - 1 ELSE startIn[s]]
    /\ stopIn'  = [s \in Source |-> IF stopIn[s] > 0 THEN stopIn[s] - 1 ELSE stopIn[s]]
    /\ audio' = "idle"
    /\ UNCHANGED <<main, target, calls, alive, hasBuffer, loop, playing, position, listed,
                   contextVars, todo>>

-----------------------------------------------------------------------------
Script ==
    \/ \E s \in Source, when \in 0 .. MaxWhen, offset \in 0 .. Length : Start(s, when, offset)
    \/ \E s \in Source, when \in 0 .. MaxWhen : Stop(s, when)
    \/ \E s \in Source : SetBuffer(s) \/ SetLoop(s)
    \/ Resume \/ Suspend \/ Close \/ Cleanup

MainStep ==
    \/ Unlock \/ RegisterSource \/ CloseDone
    \/ \E s \in Source : DestroySource(s)
    \/ CleanupDone

AudioStep ==
    \/ EnterCallback \/ LockList
    \/ \E s \in Source : Process(s) \/ Collect(s)
    \/ AllMixed \/ AllCollected \/ Advance

MixerNext == Script \/ MainStep \/ AudioStep

MixerSpec == MixerInit /\ [][MixerNext]_mixerVars

(* Both threads go on while they can.  The main thread gets the lock of    *)
(* the list in the end: the callback releases it between two callbacks.    *)
Fairness == SF_mixerVars(MainStep) /\ WF_mixerVars(AudioStep)

FairMixerSpec == MixerSpec /\ Fairness

-----------------------------------------------------------------------------
MixerTypeOK ==
    /\ main \in MainPhase /\ target \in Source /\ calls \in 0 .. MaxCalls
    /\ alive \subseteq Source /\ hasBuffer \subseteq Source
    /\ loop \subseteq Source /\ playing \subseteq Source
    /\ position \in [Source -> 0 .. Length]
    /\ startIn \in [Source -> 0 .. MaxWhen]
    /\ stopIn \in [Source -> {Never} \cup 0 .. MaxWhen]
    /\ listed \in [Source -> Nat] /\ todo \in [Source -> Nat]
    /\ state \in {"suspended", "running", "closed"}
    /\ stream \in BOOLEAN /\ shuttingDown \in BOOLEAN
    /\ audio \in AudioPhase

(* A source that plays is in the list, or start() is about to put it there:*)
(* one that is restarted while the callback removes what has ended is not  *)
(* lost.                                                                   *)
PlayingIsListed ==
    \A s \in playing \cap alive :
        listed[s] > 0 \/ (main \in {"start", "register"} /\ target = s)

(* The callback, which goes on after the script has ended, never sees a    *)
(* source that is freed, however often it was registered.                  *)
FreedIsUnlisted == \A s \in Source \ alive : listed[s] = 0 /\ todo[s] = 0

(* A source ends that was stopped, or that does not loop, as long as it    *)
(* has a buffer and the context runs: neither thread waits for the other   *)
(* for ever.                                                               *)
SourcesEnd ==
    \A s \in Source :
        s \in playing ~> \/ s \notin playing \cap hasBuffer \cap alive
                         \/ s \in loop /\ stopIn[s] = Never
                         \/ ~Running

(* A source is mixed once in a callback (not so, see README).              *)
MixedOnce == \A s \in Source : listed[s] <= 1
=============================================================================
