---------------------------- MODULE ChronoTimers ----------------------------
(***************************************************************************)
(* setTimeout / setInterval on std::chrono, the fallback of                *)
(* src/src/runtime.cpp where libuv is missing (iOS, Android): the list of  *)
(* timers, the batch of expired ones executed once a frame, and the set of *)
(* ids passed to clearInterval.                                            *)
(*                                                                         *)
(* A timer c is the c-th TimerCallback; its id is c - base, since          *)
(* clearAllTimers restarts the ids.  Any set of timers may have expired    *)
(* when a frame looks at the clock.                                        *)
(***************************************************************************)
EXTENDS Integers, Sequences, Functions

CONSTANTS
    MaxTimers,   \* Bound: how many timers the scripts create altogether
    MaxReloads   \* Bound: how often the host reloads the script

ASSUME MaxTimersAssumption  == MaxTimers \in Nat \ {0}
ASSUME MaxReloadsAssumption == MaxReloads \in Nat

Timer   == 1 .. MaxTimers
NoTimer == 0

VARIABLES
    pc,                 \* where the main thread is, see Phase
    created,            \* number of timers created so far
    base,               \* timers created before the last reload
    reloads,            \* number of reloads so far
    intervals,          \* the timers with intervalMs > 0
    timerCallbacks,     \* timerCallbacks_
    cancelled,          \* the entries of it whose cancelled flag is set
    toExecute,          \* the expired timers still to be called
    current,            \* the timer whose callback is on the stack
    cancelledTimerIds,  \* cancelledTimerIds_, each id i as the timer base + i
    protects,           \* protect() minus unprotect() calls on c's callback
    cleared,            \* history: timers cleared after they were created,
                        \*   but for the calls that missed records
    missed,             \* history: intervals passed to clearTimeout while
                        \*   in the batch or being executed
    early               \* history: ids cleared before they were given out

vars == <<pc, created, base, reloads, intervals, timerCallbacks, cancelled, toExecute,
          current, cancelledTimerIds, protects, cleared, missed, early>>

(* script  the host runs the script     call   inside a timer's callback   *)
(* idle    between two pollEvents       frame  other callbacks of a frame  *)
(* timers  executeTimerCallbacks, between two callbacks                    *)
Phase == {"script", "idle", "timers", "call", "frame", "down"}
InJS  == pc \in {"script", "call", "frame"}

Listed  == Range(timerCallbacks)
Batched == Range(toExecute)

-----------------------------------------------------------------------------
Init ==
    /\ pc = "script"
    /\ created = 0 /\ base = 0 /\ reloads = 0
    /\ intervals = {}
    /\ timerCallbacks = <<>> /\ cancelled = {}
    /\ toExecute = <<>> /\ current = NoTimer
    /\ cancelledTimerIds = {}
    /\ protects = [c \in Timer |-> 0]
    /\ cleared = {} /\ missed = {} /\ early = {}

(* setTimeout, setInterval *)
CreateTimer(isInterval) ==
    /\ InJS
    /\ created < MaxTimers
    /\ created' = created + 1
    /\ intervals' = IF isInterval THEN intervals \cup {created'} ELSE intervals
    /\ timerCallbacks' = Append(timerCallbacks, created')
    /\ protects' = [protects EXCEPT ![created'] = @ + 1]
    /\ UNCHANGED <<pc, base, reloads, cancelled, toExecute, current, cancelledTimerIds,
                   cleared, missed, early>>

SetTimeout  == CreateTimer(FALSE)
SetInterval == CreateTimer(TRUE)

(* Mutant: an entry already cancelled is released once more.               *)
CancelEntryTwice(c) ==
    IF c \in Listed
    THEN /\ cancelled' = cancelled \cup {c}
         /\ protects'  = [protects EXCEPT ![c] = @ - 1]
    ELSE UNCHANGED <<cancelled, protects>>

(* Both clear functions mark the entry of the list, if there is one.       *)
CancelEntry(c) ==
    IF c \in Listed \ cancelled
    THEN /\ cancelled' = cancelled \cup {c}
         /\ protects'  = [protects EXCEPT ![c] = @ - 1]
    ELSE UNCHANGED <<cancelled, protects>>

(* clearTimeout notes no id: where the timer is not in the list it does    *)
(* nothing, although an interval of the batch will be put back there.      *)
NotFound(c, isInterval) ==
    ~isInterval /\ c \in intervals \cap (Batched \cup {current})

(* What the properties remember of a call, until the script is reloaded.   *)
Remember(c, isInterval) ==
    /\ cleared' = IF c <= created /\ ~NotFound(c, isInterval) THEN cleared \cup {c} ELSE cleared
    /\ missed'  = IF NotFound(c, isInterval) THEN missed \cup {c} ELSE missed
    /\ early' = IF c > created /\ isInterval THEN early \cup {c} ELSE early

ClearTimeout(c) ==
    /\ InJS
    /\ base < c
    /\ CancelEntry(c)
    /\ Remember(c, FALSE)
    /\ UNCHANGED <<pc, created, base, reloads, intervals, timerCallbacks, toExecute,
                   current, cancelledTimerIds>>

(* Mutant: an interval being executed is not told that it was cleared.     *)
ClearIntervalForgetsBatch(c) ==
    /\ InJS
    /\ base < c
    /\ CancelEntry(c)
    /\ Remember(c, TRUE)
    /\ UNCHANGED <<pc, created, base, reloads, intervals, timerCallbacks, toExecute,
                   current, cancelledTimerIds>>

(* clearInterval also notes the id, whatever it names.                     *)
ClearInterval(c) ==
    /\ InJS
    /\ base < c
    /\ CancelEntry(c)
    /\ cancelledTimerIds' = cancelledTimerIds \cup {c}
    /\ Remember(c, TRUE)
    /\ UNCHANGED <<pc, created, base, reloads, intervals, timerCallbacks, toExecute,
                   current>>

ReturnToHost ==
    /\ pc \in {"script", "frame"}
    /\ pc' = "idle"
    /\ UNCHANGED <<created, base, reloads, intervals, timerCallbacks, cancelled, toExecute,
                   current, cancelledTimerIds, protects, cleared, missed, early>>

(* reloadScript: clearAllTimers, then the script runs again.               *)
ReloadScript ==
    /\ pc = "idle"
    /\ reloads < MaxReloads
    /\ reloads' = reloads + 1
    /\ base' = created
    /\ protects' = [c \in Timer |-> protects[c] - IF c \in Listed \ cancelled THEN 1 ELSE 0]
    /\ timerCallbacks' = <<>>
    /\ cancelled' = {}
    /\ cancelledTimerIds' = {}
    /\ cleared' = {} /\ missed' = {} /\ early' = {}
    /\ pc' = "script"
    /\ UNCHANGED <<created, intervals, toExecute, current>>

-----------------------------------------------------------------------------
(* The loop over the list pushes each entry it selects to a new list.      *)
Only(list, selected) ==
    LET only[n \in 0 .. Len(list)] ==
            IF n = 0 THEN <<>>
            ELSE IF list[n] \in selected THEN Append(only[n - 1], list[n]) ELSE only[n - 1]
    IN  only[Len(list)]

(* executeTimerCallbacks: drop the cancelled timers, split the others into *)
(* those that expired and those that remain.                               *)
CollectExpired ==
    /\ pc = "idle"
    /\ \E expired \in SUBSET (Listed \ cancelled) :
          /\ toExecute' = Only(timerCallbacks, expired)
          /\ timerCallbacks' = Only(timerCallbacks, Listed \ (expired \cup cancelled))
    /\ cancelled' = {}
    /\ pc' = "timers"
    /\ UNCHANGED <<created, base, reloads, intervals, current, cancelledTimerIds, protects,
                   cleared, missed, early>>

(* Mutant: a cleared interval is not called, nor taken from the batch.      *)
CallTimerSticks ==
    /\ pc = "timers"
    /\ toExecute # <<>>
    /\ Head(toExecute) \notin cancelledTimerIds
    /\ current' = Head(toExecute)
    /\ toExecute' = Tail(toExecute)
    /\ pc' = "call"
    /\ UNCHANGED <<created, base, reloads, intervals, timerCallbacks, cancelled,
                   cancelledTimerIds, protects, cleared, missed, early>>

CallTimer ==
    /\ pc = "timers"
    /\ toExecute # <<>>
    /\ current' = Head(toExecute)
    /\ toExecute' = Tail(toExecute)
    /\ pc' = "call"
    /\ UNCHANGED <<created, base, reloads, intervals, timerCallbacks, cancelled,
                   cancelledTimerIds, protects, cleared, missed, early>>

(* After the callback an interval is put back, unless its id was passed to *)
(* clearInterval in the meantime; everything else is released.             *)
ReturnFromTimer ==
    /\ pc = "call"
    /\ IF current \in intervals /\ current \notin cancelledTimerIds
       THEN /\ timerCallbacks' = Append(timerCallbacks, current)
            /\ UNCHANGED <<protects, cancelledTimerIds>>
       ELSE /\ protects' = [protects EXCEPT ![current] = @ - 1]
            /\ cancelledTimerIds' = IF current \in intervals
                                    THEN cancelledTimerIds \ {current}
                                    ELSE cancelledTimerIds
            /\ UNCHANGED timerCallbacks
    /\ current' = NoTimer
    /\ pc' = "timers"
    /\ UNCHANGED <<created, base, reloads, intervals, cancelled, toExecute, cleared, missed,
                   early>>

TimersDone ==
    /\ pc = "timers"
    /\ toExecute = <<>>
    /\ pc' = "frame"
    /\ UNCHANGED <<created, base, reloads, intervals, timerCallbacks, cancelled, toExecute,
                   current, cancelledTimerIds, protects, cleared, missed, early>>

(* RuntimeImpl::shutdown *)
Shutdown ==
    /\ pc = "idle"
    /\ protects' = [c \in Timer |-> protects[c] - IF c \in Listed \ cancelled THEN 1 ELSE 0]
    /\ timerCallbacks' = <<>>
    /\ cancelled' = {}
    /\ cancelledTimerIds' = {}
    /\ pc' = "down"
    /\ UNCHANGED <<created, base, reloads, intervals, toExecute, current, cleared, missed, early>>

-----------------------------------------------------------------------------
CallFromJS ==
    \/ SetTimeout
    \/ SetInterval
    \/ \E c \in Timer : ClearTimeout(c) \/ ClearInterval(c)

(* What the host and the runtime do next by themselves in every phase.     *)
LoopStep ==
    \/ ReturnToHost
    \/ CollectExpired \/ CallTimer \/ ReturnFromTimer \/ TimersDone

Next == CallFromJS \/ LoopStep \/ ReloadScript \/ Shutdown

Spec == Init /\ [][Next]_vars

(* The host goes on polling, JavaScript returns after finitely many calls, *)
(* and the time of every timer in the list comes.                          *)
Fairness ==
    /\ WF_vars(LoopStep)
    /\ \A c \in Timer : SF_vars(CollectExpired /\ c \in Range(toExecute'))

FairSpec == Spec /\ Fairness

-----------------------------------------------------------------------------
(* The types of the variables.                                             *)
TypeOK ==
    /\ pc \in Phase
    /\ created \in 0 .. MaxTimers /\ base \in 0 .. created
    /\ reloads \in 0 .. MaxReloads
    /\ intervals \subseteq Timer
    /\ timerCallbacks \in Seq(Timer) /\ toExecute \in Seq(Timer)
    /\ cancelled \subseteq Listed
    /\ current \in Timer \cup {NoTimer}
    /\ cancelledTimerIds \subseteq Timer
    /\ protects \in [Timer -> Int]
    /\ cleared \subseteq Timer /\ missed \subseteq Timer /\ early \subseteq Timer

(* A callback is protected exactly while its timer is in the list and not  *)
(* cancelled, waits in the batch or runs; no path releases it twice.       *)
ProtectedWhilePending ==
    \A c \in Timer :
        protects[c] = IF c \in (Listed \ cancelled) \cup Batched \cup {current} THEN 1 ELSE 0

(* The promise of TimerService, as this module keeps it, until shutdown.   *)
StatusOf(c) ==
    IF pc = "down" THEN "over"
    ELSE IF c > created THEN "unset"
    ELSE IF c \in Batched THEN "due"
    ELSE IF \/ c \in Listed \ cancelled
            \/ pc = "call" /\ c = current /\ c \in intervals \ cancelledTimerIds
         THEN "waiting" ELSE "over"

Service == INSTANCE TimerService WITH
    status    <- [c \in Timer |-> StatusOf(c)],
    intervals <- IF pc = "down" THEN {} ELSE intervals,
    cleared   <- IF pc = "down" THEN {} ELSE cleared,
    missed    <- IF pc = "down" THEN {} ELSE missed,
    early     <- IF pc = "down" THEN {} ELSE early,
    calling   <- current

(* The timers are a TimerService: in particular an interval passed to      *)
(* clearInterval while it is called or about to be called is not scheduled *)
(* again ("Check if interval was cancelled during callback execution"),    *)
(* and a timer cleared with either function in any other state is over.    *)
ImplementsTimerService == Service!Spec

(* As long as the host polls, every timer that waits is called in the end, *)
(* time and again if it is an interval, unless it is cleared, its script   *)
(* is reloaded or the program ends.                                        *)
EveryTimerResolves == Service!EveryTimerResolves

(* cancelledTimerIds_ holds "IDs cancelled during callback execution", so  *)
(* an interval that was not cleared since it was created stays scheduled.  *)
UnclearedIntervalStays ==
    \A c \in intervals : \/ c <= base \/ c \in cleared \cup missed
                         \/ c \in Listed \cup Batched \cup {current}
                         \/ pc = "down"

(* A script may clear an interval with clearTimeout as well: the two       *)
(* functions look the id up in the same list.  An interval that was        *)
(* cleared with either is not scheduled from then on.                      *)
ClearStopsInterval ==
    pc = "idle" => \A c \in intervals \cap (cleared \cup missed) : c \notin Listed \ cancelled
=============================================================================
