---------------------------- MODULE TimerService ----------------------------
(***************************************************************************)
(* What setTimeout, setInterval, clearTimeout and clearInterval of         *)
(* src/src/runtime.cpp promise to a script, whichever of their two         *)
(* implementations is built: Timers (libuv) or ChronoTimers (std::chrono). *)
(* Both are shown to implement this specification.                         *)
(*                                                                         *)
(* It is weaker than the promise of a browser in three places, each the    *)
(* strongest that both implementations keep: a timer that is already due   *)
(* when it is cleared may still be called, once; an interval whose id was  *)
(* passed to clearInterval before that id was given out may end after its  *)
(* first call; and an interval cleared with the function of the other kind *)
(* while it is due or being called may go on, as if nothing had happened.  *)
(***************************************************************************)
CONSTANTS
    Timer,      \* the timers a script may set, in whatever order
    NoTimer     \* not a timer: no callback is being called

VARIABLES
    status,     \* status[c], see Status
    intervals,  \* the timers set with setInterval
    cleared,    \* the timers cleared after they were set
    missed,     \* the intervals a call of clearTimeout did not reach
    early,      \* the timers whose id was cleared before they were set
    calling     \* the timer whose callback is on the stack

vars == <<status, intervals, cleared, missed, early, calling>>

(* unset    not set yet                                                    *)
(* waiting  its time has not come                                          *)
(* due      its time has come, its callback is to be called in this frame  *)
(* over     never to be called again                                       *)
Status == {"unset", "waiting", "due", "over"}

Init ==
    /\ status = [c \in Timer |-> "unset"]
    /\ intervals = {} /\ cleared = {} /\ missed = {} /\ early = {}
    /\ calling = NoTimer

(* setTimeout, setInterval *)
Set(c) ==
    /\ status[c] = "unset"
    /\ status' = [status EXCEPT ![c] = "waiting"]
    /\ intervals' \in {intervals, intervals \cup {c}}
    /\ UNCHANGED <<cleared, missed, early, calling>>

(* clearTimeout, clearInterval: a timer that waits is not called again.    *)
Clear(c) ==
    /\ status[c] # "unset"
    /\ status' = IF status[c] = "waiting" THEN [status EXCEPT ![c] = "over"] ELSE status
    /\ cleared' = cleared \cup {c}
    /\ UNCHANGED <<intervals, missed, early, calling>>

(* clearTimeout of an interval that is due or being called may be lost.    *)
ClearMissed(c) ==
    /\ c \in intervals
    /\ status[c] = "due" \/ calling = c
    /\ missed' = missed \cup {c}
    /\ UNCHANGED <<status, intervals, cleared, early, calling>>

ClearEarly(c) ==
    /\ status[c] = "unset"
    /\ early' = early \cup {c}
    /\ UNCHANGED <<status, intervals, cleared, missed, calling>>

Expire(S) ==
    /\ \A c \in S : status[c] = "waiting"
    /\ status' = [c \in Timer |-> IF c \in S THEN "due" ELSE status[c]]
    /\ UNCHANGED <<intervals, cleared, missed, early, calling>>

(* A due timer is called, never while another one is.  A timeout is over   *)
(* then; so is an interval that was cleared, and no other.                 *)
Call(c) ==
    /\ calling = NoTimer
    /\ status[c] = "due"
    /\ calling' = c
    /\ \/ /\ c \notin intervals \/ c \in cleared \cup early
          /\ status' = [status EXCEPT ![c] = "over"]
       \/ /\ c \in intervals \ cleared
          /\ status' = [status EXCEPT ![c] = "waiting"]
    /\ UNCHANGED <<intervals, cleared, missed, early>>

Return ==
    /\ calling' = NoTimer
    /\ UNCHANGED <<status, intervals, cleared, missed, early>>

(* A due timer is passed over only if it was cleared.                      *)
Drop(c) ==
    /\ status[c] = "due"
    /\ c \in cleared
    /\ status' = [status EXCEPT ![c] = "over"]
    /\ UNCHANGED <<intervals, cleared, missed, early, calling>>

(* A reload of the script ends all its timers, between two callbacks.  The *)
(* ids start again, so that what was cleared before it no longer counts.   *)
Discard ==
    /\ calling = NoTimer
    /\ status' = [c \in Timer |-> IF status[c] = "unset" THEN "unset" ELSE "over"]
    /\ cleared' = {} /\ missed' = {} /\ early' = {}
    /\ UNCHANGED <<intervals, calling>>

(* The end of the program: nothing is called from then on.                 *)
End ==
    /\ status' = [c \in Timer |-> "over"]
    /\ intervals' = {} /\ cleared' = {} /\ missed' = {} /\ early' = {}
    /\ calling' = NoTimer

Next ==
    \/ \E c \in Timer : \/ Set(c) \/ Clear(c) \/ ClearMissed(c) \/ ClearEarly(c)
                       \/ Call(c) \/ Drop(c)
    \/ \E S \in SUBSET Timer : Expire(S)
    \/ Return \/ Discard \/ End

Spec == Init /\ [][Next]_vars

(* A timer that waits or is due is called in the end, unless it is cleared,*)
(* its script is reloaded or the program ends.                             *)
EveryTimerResolves ==
    \A c \in Timer : status[c] \in {"waiting", "due"} ~> calling = c \/ status[c] = "over"
=============================================================================
