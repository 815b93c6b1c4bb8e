---------------------------- MODULE Timers_proofs ---------------------------
(***************************************************************************)
(* Proofs about Timers, for every number of timers and reloads.            *)
(***************************************************************************)
EXTENDS Timers, TLAPS

(* What fixes the ids: they count the contexts of the current script.      *)
IdInv ==
    /\ nextTimerId = created - base + 1
    /\ \A c \in Timer : base < c /\ c <= created => id[c] = c - base
    /\ \A c \in Timer : handle[c] = "none" <=> c > created
    /\ \A i \in Id : uvTimers[i] <= created
    /\ \A c \in due : c <= created
    /\ reloads = 0 => base = 0
    /\ pc = "call" => current \in Timer

(* The queue is filled while libuv fires timers and is empty again before  *)
(* the next poll, so each timer enters it at most once.                    *)
QueueInv ==
    /\ pc \notin {"fire", "events", "crashed"} => pending = <<>>
    /\ pc \notin {"timers", "call", "crashed"} => toProcess = <<>>
    /\ pending = <<>> \/ toProcess = <<>>
    /\ pc \notin {"fire", "crashed"} => due = {}
    /\ IsInjective(pending)
    /\ IsInjective(toProcess)
    /\ due \cap Range(pending) = {}
    /\ pc = "call" => current \notin Range(toProcess)

(* The table holds exactly the contexts whose handle is in the loop.       *)
OwnerInv ==
    /\ \A c \in Timer : handle[c] \in InLoop => Owned(c)
    /\ \A i \in Id, c \in Timer :
          uvTimers[i] = c => id[c] = i /\ handle[c] \in InLoop

(* What the state of a timer's handle says about the rest of its state.    *)
HandleInv ==
    /\ \A c \in Timer : handle[c] = "active" => /\ c \notin cancelled /\ c \notin cleared
                                                /\ base < c
                                                /\ c \in intervals \/ c \notin ran
    /\ \A c \in Timer : c <= created /\ c \notin cancelled => handle[c] = "active"
    /\ \A c \in Timer : handle[c] = "fired" => c \notin intervals
    /\ \A c \in due : handle[c] = "active"
    /\ \A c \in cleared \cup ran : c <= created
    /\ pc = "call" /\ current \notin intervals => handle[current] = "fired"
    /\ pc = "drain" => \A c \in Timer : handle[c] \notin InLoop

(* An entry of the queue belongs to the current script.  A timeout there   *)
(* has not been called; an interval is running, or its id is in the set of *)
(* cancelled ids.                                                          *)
EntryInv ==
    \A c \in Range(pending) \cup Range(toProcess) :
       /\ base < c /\ c <= created
       /\ c \notin intervals => handle[c] = "fired" /\ c \notin ran
       /\ c \in intervals => \/ handle[c] = "active"
                             \/ handle[c] = "closing" /\ id[c] \in cancelledTimerIds

(* A callback is protected once while the handle of its timer is running,  *)
(* or has fired and its callback has not returned.                         *)
ProtectInv ==
    \A c \in Timer : protects[c] = IF handle[c] \in {"active", "fired"} THEN 1 ELSE 0

(* Before a reload only shutting down frees a context that is in use.       *)
DanglingInv ==
    /\ ~MemorySafe /\ reloads = 0 => pc \in {"drain", "down", "crashed"}
    /\ pc = "crashed" => ~MemorySafe

SafeInv == MemorySafe => OwnerInv /\ HandleInv /\ EntryInv /\ ProtectInv

IInv == TypeOK /\ IdInv /\ QueueInv /\ DanglingInv /\ SafeInv

-----------------------------------------------------------------------------
USE MaxTimersAssumption, MaxReloadsAssumption

(* What Append does to the elements of a queue.                            *)
LEMMA AppendFacts ==
    ASSUME NEW S, NEW s \in Seq(S), NEW e \in S
    PROVE  /\ Range(Append(s, e)) = Range(s) \cup {e}
           /\ IsInjective(s) /\ e \notin Range(s) => IsInjective(Append(s, e))
<1>1. /\ Append(s, e) \in Seq(S)
      /\ DOMAIN Append(s, e) = 1 .. Len(s) + 1
      /\ DOMAIN s = 1 .. Len(s)
      /\ Len(s) \in Nat
      /\ \A i \in 1 .. Len(s) : Append(s, e)[i] = s[i]
      /\ Append(s, e)[Len(s) + 1] = e
    OBVIOUS
<1>2. \A i \in 1 .. Len(s) + 1 : i \in 1 .. Len(s) \/ i = Len(s) + 1
    BY <1>1
<1>3. Range(Append(s, e)) = Range(s) \cup {e}
    BY <1>1, <1>2 DEF Range
<1>4. ASSUME IsInjective(s), e \notin Range(s)
      PROVE  IsInjective(Append(s, e))
    BY <1>1, <1>2, <1>4 DEF IsInjective, Range
<1>5. QED BY <1>3, <1>4

(* What Head and Tail take from a queue.                                   *)
LEMMA TailFacts ==
    ASSUME NEW S, NEW s \in Seq(S), s # <<>>
    PROVE  /\ Head(s) \in S
           /\ Head(s) \in Range(s)
           /\ Tail(s) \in Seq(S)
           /\ Range(s) = Range(Tail(s)) \cup {Head(s)}
           /\ IsInjective(s) => IsInjective(Tail(s)) /\ Head(s) \notin Range(Tail(s))
<1>1. /\ Len(s) \in Nat \ {0}
      /\ DOMAIN s = 1 .. Len(s)
      /\ Head(s) = s[1] /\ s[1] \in S
      /\ Tail(s) \in Seq(S)
      /\ Len(Tail(s)) = Len(s) - 1
      /\ DOMAIN Tail(s) = 1 .. Len(s) - 1
      /\ \A i \in 1 .. Len(s) - 1 : Tail(s)[i] = s[i + 1]
    OBVIOUS
<1>2. \A i \in 1 .. Len(s) : i = 1 \/ (i - 1 \in 1 .. Len(s) - 1 /\ Tail(s)[i - 1] = s[i])
    BY <1>1
<1>3. \A i \in 1 .. Len(s) - 1 : i + 1 \in 1 .. Len(s) /\ i + 1 # 1
    BY <1>1
<1>4. Range(s) = Range(Tail(s)) \cup {Head(s)}
    <2>1. ASSUME NEW x \in Range(s) PROVE x \in Range(Tail(s)) \cup {Head(s)}
        <3>1. PICK i \in 1 .. Len(s) : x = s[i] BY <1>1 DEF Range
        <3>2. QED BY <1>1, <1>2, <3>1 DEF Range
    <2>2. ASSUME NEW x \in Range(Tail(s)) PROVE x \in Range(s)
        <3>1. PICK i \in 1 .. Len(s) - 1 : x = Tail(s)[i] BY <1>1 DEF Range
        <3>2. QED BY <1>1, <1>3, <3>1 DEF Range
    <2>3. Head(s) \in Range(s) BY <1>1 DEF Range
    <2>4. QED BY <2>1, <2>2, <2>3
<1>5. ASSUME IsInjective(s)
      PROVE  IsInjective(Tail(s)) /\ Head(s) \notin Range(Tail(s))
    <2>1. \A i, j \in 1 .. Len(s) - 1 : Tail(s)[i] = Tail(s)[j] => i = j
        <3>1. TAKE i, j \in 1 .. Len(s) - 1
        <3>2. HAVE Tail(s)[i] = Tail(s)[j]
        <3>3. s[i + 1] = s[j + 1] BY <1>1, <3>2
        <3>4. i + 1 = j + 1 BY <1>1, <1>3, <1>5, <3>3 DEF IsInjective
        <3>5. QED BY <1>1, <3>4
    <2>2. \A i \in 1 .. Len(s) - 1 : Tail(s)[i] # s[1]
        BY <1>1, <1>3, <1>5 DEF IsInjective
    <2>3. QED BY <1>1, <2>1, <2>2 DEF IsInjective, Range
<1>6. QED BY <1>1, <1>4, <1>5 DEF Range

-----------------------------------------------------------------------------
(* The initial state satisfies every part of the invariant.                *)
LEMMA InitEstablishes == Init => IInv
<1> SUFFICES ASSUME Init PROVE IInv
    OBVIOUS
<1>1. TypeOK
    BY DEF Init, TypeOK, Phase, HandleState, Timer, Id, NoTimer
<1>2. IdInv
    BY DEF Init, IdInv, Timer, Id, NoTimer
<1>3. QueueInv
    BY DEF Init, QueueInv, IsInjective, Range
<1>4. DanglingInv
    BY DEF Init, DanglingInv, MemorySafe
<1>5. SafeInv
    <2>1. OwnerInv /\ HandleInv
        BY DEF Init, OwnerInv, HandleInv, InLoop, Timer, Id, NoTimer
    <2>2. EntryInv
        BY DEF Init, EntryInv, Range
    <2>3. ProtectInv
        BY DEF Init, ProtectInv
    <2>4. QED BY <2>1, <2>2, <2>3 DEF SafeInv
<1>6. QED BY <1>1, <1>2, <1>3, <1>4, <1>5 DEF IInv

(* Every step keeps the types, and the ids in step with the contexts.      *)
LEMMA TypeStep ==
    ASSUME TypeOK, IdInv, [Next]_vars
    PROVE  TypeOK' /\ IdInv'
<1>1. ASSUME NEW b \in BOOLEAN, CreateTimer(b)
      PROVE  TypeOK' /\ IdInv'
    <2>1. /\ nextTimerId \in Id /\ created + 1 \in Timer
          /\ nextTimerId = created - base + 1
          /\ created \in Int /\ base \in 0 .. created
        BY <1>1 DEF TypeOK, IdInv, CreateTimer, Timer, Id
    <2>2. TypeOK'
        <3>1. created' \in 0 .. MaxTimers /\ base' \in 0 .. created' /\ nextTimerId' \in 1 .. MaxTimers + 1
            BY <1>1, <2>1 DEF TypeOK, CreateTimer, Timer, Id
        <3>2. intervals' \subseteq Timer /\ cancelled' \subseteq Timer
            BY <1>1, <2>1 DEF TypeOK, CreateTimer
        <3>3. id' \in [Timer -> Id] /\ handle' \in [Timer -> HandleState] /\ protects' \in [Timer -> Int]
            BY <1>1, <2>1 DEF TypeOK, CreateTimer, HandleState
        <3>4. uvTimers' \in [Id -> Timer \cup {NoTimer}] /\ dangling' \subseteq Timer
            BY <1>1, <2>1 DEF TypeOK, CreateTimer
        <3>5. QED BY <1>1, <3>1, <3>2, <3>3, <3>4 DEF TypeOK, CreateTimer
    <2>3. IdInv'
        <3>1. nextTimerId' = created' - base' + 1
            BY <1>1, <2>1 DEF TypeOK, CreateTimer
        <3>2. ASSUME NEW c \in Timer, base' < c, c <= created'
              PROVE  id'[c] = c - base'
            <4>1. /\ created' = created + 1 /\ base' = base
                  /\ id' = [id EXCEPT ![created + 1] = nextTimerId]
                BY <1>1 DEF CreateTimer
            <4>2. CASE c = created + 1
                BY <2>1, <4>1, <4>2 DEF TypeOK
            <4>3. CASE c # created + 1
                BY <2>1, <3>2, <4>1, <4>3 DEF TypeOK, IdInv, Timer
            <4>4. QED BY <4>2, <4>3
        <3>3. ASSUME NEW c \in Timer
              PROVE  handle'[c] = "none" <=> c > created'
            <4>1. created' = created + 1 /\ handle' = [handle EXCEPT ![created + 1] = "active"]
                BY <1>1 DEF CreateTimer
            <4>2. CASE c = created + 1
                BY <2>1, <4>1, <4>2 DEF TypeOK
            <4>3. CASE c # created + 1
                BY <2>1, <4>1, <4>3 DEF TypeOK, IdInv, Timer
            <4>4. QED BY <4>2, <4>3
        <3>4. ASSUME NEW i \in Id
              PROVE  uvTimers'[i] <= created'
            <4>1. /\ created' = created + 1
                  /\ uvTimers' = [uvTimers EXCEPT ![nextTimerId] = created + 1]
                BY <1>1 DEF CreateTimer
            <4>2. uvTimers[i] \in Int /\ uvTimers[i] <= created
                BY DEF TypeOK, IdInv, Timer, NoTimer
            <4>3. uvTimers'[i] = created + 1 \/ uvTimers'[i] = uvTimers[i]
                BY <2>1, <4>1 DEF TypeOK
            <4>4. QED BY <2>1, <4>1, <4>2, <4>3
        <3>5. \A c \in due' : c <= created'
            BY <1>1, <2>1 DEF TypeOK, IdInv, CreateTimer, Timer
        <3>6. QED BY <1>1, <3>1, <3>2, <3>3, <3>4, <3>5 DEF IdInv, CreateTimer
    <2>4. QED BY <2>2, <2>3
<1>2. ASSUME NEW i \in Id, ClearTimer(i)
      PROVE  TypeOK' /\ IdInv'
    <2>1. CASE Cancellable(i)
        <3>1. uvTimers[i] \in Timer
            BY <2>1 DEF TypeOK, Cancellable
        <3>2. TypeOK'
            <4>1. /\ handle' = [handle EXCEPT ![uvTimers[i]] = "closing"]
                  /\ protects' = [protects EXCEPT ![uvTimers[i]] = @ - 1]
                  /\ protects[uvTimers[i]] - 1 \in Int
                BY <1>2, <2>1, <3>1 DEF TypeOK, ClearTimer
            <4>2. /\ cancelled' \subseteq Timer /\ cleared' \subseteq Timer
                  /\ cancelledTimerIds' \subseteq Id
                BY <1>2, <2>1, <3>1 DEF TypeOK, ClearTimer
            <4>3. handle' \in [Timer -> HandleState] /\ protects' \in [Timer -> Int]
                BY <4>1 DEF TypeOK, HandleState
            <4>4. QED BY <1>2, <4>2, <4>3 DEF TypeOK, ClearTimer
        <3>3. IdInv'
            BY <1>2, <2>1, <3>1 DEF TypeOK, IdInv, ClearTimer, InJS, Timer
        <3>4. QED BY <3>2, <3>3
    <2>2. CASE ~Cancellable(i)
        BY <1>2, <2>2 DEF TypeOK, IdInv, ClearTimer, InJS
    <2>3. QED BY <2>1, <2>2
<1>3. CASE ScriptLoaded
    BY <1>3 DEF TypeOK, IdInv, ScriptLoaded, ctxVars, Phase
<1>4. ASSUME NEW c \in Timer, CloseHandle(c)
      PROVE  TypeOK' /\ IdInv'
    <2>1. TypeOK'
        BY <1>4 DEF TypeOK, CloseHandle, HandleState, NoTimer
    <2>2. IdInv'
        BY <1>4 DEF TypeOK, IdInv, CloseHandle, NoTimer, Timer
    <2>3. QED BY <2>1, <2>2
<1>5. CASE CollectDue
    BY <1>5 DEF TypeOK, IdInv, CollectDue, ctxVars, Phase, Timer
<1>6. ASSUME NEW c \in Timer, FireTimer(c)
      PROVE  TypeOK' /\ IdInv'
    <2>1. TypeOK'
        <3>1. CASE c \in cancelled
            BY <1>6, <3>1 DEF TypeOK, FireTimer
        <3>2. CASE c \notin cancelled
            <4>1. handle' \in [Timer -> HandleState] /\ cancelled' \subseteq Timer
                BY <1>6, <3>2 DEF TypeOK, FireTimer, HandleState
            <4>2. pending' \in Seq(Timer) /\ due' \subseteq Timer
                <5>1. pending' = Append(pending, c) /\ due' = due \ {c}
                    BY <1>6, <3>2 DEF FireTimer
                <5>2. QED BY <5>1 DEF TypeOK
            <4>3. QED BY <1>6, <4>1, <4>2 DEF TypeOK, FireTimer
        <3>3. QED BY <3>1, <3>2
    <2>2. IdInv'
        BY <1>6 DEF TypeOK, IdInv, FireTimer, Timer
    <2>3. QED BY <2>1, <2>2
<1>7. CASE AllFired
    BY <1>7 DEF TypeOK, IdInv, AllFired, ctxVars, Phase
<1>8. CASE TakePending
    BY <1>8 DEF TypeOK, IdInv, TakePending, ctxVars, Phase
<1>9. CASE SkipCancelled
    BY <1>9, TailFacts DEF TypeOK, IdInv, SkipCancelled, ctxVars
<1>10. CASE CallTimer
    <2>1. Head(toProcess) \in Timer /\ Tail(toProcess) \in Seq(Timer)
        BY <1>10, TailFacts DEF TypeOK, CallTimer
    <2>2. QED
        BY <1>10, <2>1 DEF TypeOK, IdInv, CallTimer, ctxVars, Phase
<1>11. CASE ReturnFromTimer
    <2>1. current \in Timer /\ uvTimers[id[current]] \in Timer \cup {NoTimer}
        BY <1>11 DEF TypeOK, IdInv, ReturnFromTimer
    <2>2. TypeOK'
        BY <1>11, <2>1 DEF TypeOK, ReturnFromTimer, HandleState, Phase
    <2>3. IdInv'
        BY SMTT(20), <1>11, <2>1 DEF TypeOK, IdInv, ReturnFromTimer, Timer
    <2>4. QED BY <2>2, <2>3
<1>12. CASE TimersDone
    BY <1>12 DEF TypeOK, IdInv, TimersDone, ctxVars, Phase
<1>13. CASE EndFrame
    BY <1>13 DEF TypeOK, IdInv, EndFrame, ctxVars, Phase
<1>14. CASE ReloadScript
    <2>1. TypeOK'
        BY <1>14 DEF TypeOK, ReloadScript, HandleState, Phase
    <2>2. IdInv'
        <3>1. \A c \in Timer : Live(c) => handle[c] # "none"
            BY <1>14 DEF TypeOK, IdInv, Live, Owned, Timer
        <3>2. QED
            BY <1>14, <3>1 DEF TypeOK, IdInv, ReloadScript, Timer
    <2>3. QED BY <2>1, <2>2
<1>15. CASE Shutdown
    <2>1. TypeOK'
        BY <1>15 DEF TypeOK, Shutdown, HandleState, Phase
    <2>2. IdInv'
        <3>1. \A c \in Timer : Live(c) => handle[c] # "none"
            BY <1>15 DEF TypeOK, IdInv, Live, Owned, Timer
        <3>2. QED
            BY <1>15, <3>1 DEF TypeOK, IdInv, Shutdown, Timer, NoTimer
    <2>3. QED BY <2>1, <2>2
<1>16. CASE DrainLoop
    BY <1>16 DEF TypeOK, IdInv, DrainLoop, HandleState, Phase, InLoop
<1>17. CASE Crash
    BY <1>17 DEF TypeOK, IdInv, Crash, ctxVars, Phase
<1>18. CASE UNCHANGED vars
    BY <1>18 DEF TypeOK, IdInv, vars
<1>19. QED
    BY <1>1, <1>2, <1>3, <1>4, <1>5, <1>6, <1>7, <1>8, <1>9, <1>10, <1>11, <1>12,
       <1>13, <1>14, <1>15, <1>16, <1>17, <1>18
    DEF Next, CallFromJS, LoopStep, SetTimeout, SetInterval

(* Every step keeps the queue free of duplicates and empty between frames. *)
LEMMA QueueStep ==
    ASSUME TypeOK, IdInv, QueueInv, [Next]_vars
    PROVE  QueueInv'
<1>1. ASSUME NEW b \in BOOLEAN, CreateTimer(b)
      PROVE  QueueInv'
    BY <1>1 DEF QueueInv, CreateTimer
<1>2. ASSUME NEW i \in Id, ClearTimer(i)
      PROVE  QueueInv'
    BY <1>2 DEF QueueInv, ClearTimer
<1>3. CASE ScriptLoaded
    BY <1>3 DEF QueueInv, ScriptLoaded, ctxVars
<1>4. ASSUME NEW c \in Timer, CloseHandle(c)
      PROVE  QueueInv'
    BY <1>4 DEF QueueInv, CloseHandle
<1>5. CASE CollectDue
    <2>1. pending = <<>> /\ Range(<<>>) = {}
        BY <1>5 DEF QueueInv, CollectDue, Range
    <2>2. QED
        BY <1>5, <2>1 DEF QueueInv, CollectDue
<1>6. ASSUME NEW c \in Timer, FireTimer(c)
      PROVE  QueueInv'
    <2>1. toProcess = <<>> /\ c \notin Range(pending) /\ pending \in Seq(Timer)
        BY <1>6 DEF QueueInv, FireTimer, TypeOK
    <2>2. CASE c \in cancelled
        BY <1>6, <2>2 DEF QueueInv, FireTimer
    <2>3. CASE c \notin cancelled
        <3>1. pending' = Append(pending, c) /\ due' = due \ {c} /\ pc' = "fire" /\ pc = "fire"
            BY <1>6, <2>3 DEF FireTimer
        <3>2. /\ Range(pending') = Range(pending) \cup {c}
              /\ IsInjective(pending')
            BY <2>1, <3>1, AppendFacts DEF QueueInv
        <3>3. due' \cap Range(pending') = {}
            BY <3>1, <3>2 DEF QueueInv
        <3>4. toProcess' = <<>> /\ IsInjective(toProcess')
            BY <1>6, <2>1 DEF FireTimer, QueueInv
        <3>5. QED BY <3>1, <3>2, <3>3, <3>4 DEF QueueInv
    <2>4. QED BY <2>2, <2>3
<1>7. CASE AllFired
    BY <1>7 DEF QueueInv, AllFired, ctxVars
<1>8. CASE TakePending
    <2>1. IsInjective(<<>>) /\ Range(<<>>) = {}
        BY DEF IsInjective, Range
    <2>2. QED
        BY <1>8, <2>1 DEF QueueInv, TakePending, ctxVars
<1>9. CASE SkipCancelled
    <2>1. IsInjective(Tail(toProcess))
        BY <1>9, TailFacts DEF QueueInv, SkipCancelled, TypeOK
    <2>2. QED
        BY <1>9, <2>1 DEF QueueInv, SkipCancelled, ctxVars
<1>10. CASE CallTimer
    <2>1. IsInjective(Tail(toProcess)) /\ Head(toProcess) \notin Range(Tail(toProcess))
        BY <1>10, TailFacts DEF QueueInv, CallTimer, TypeOK
    <2>2. QED
        BY <1>10, <2>1 DEF QueueInv, CallTimer, ctxVars
<1>11. CASE ReturnFromTimer
    BY <1>11 DEF QueueInv, ReturnFromTimer
<1>12. CASE TimersDone
    BY <1>12 DEF QueueInv, TimersDone, ctxVars
<1>13. CASE EndFrame
    BY <1>13 DEF QueueInv, EndFrame, ctxVars
<1>14. CASE ReloadScript
    <2>1. IsInjective(<<>>) /\ Range(<<>>) = {}
        BY DEF IsInjective, Range
    <2>2. QED
        BY <1>14, <2>1 DEF QueueInv, ReloadScript
<1>15. CASE Shutdown
    BY <1>15 DEF QueueInv, Shutdown
<1>16. CASE DrainLoop
    BY <1>16 DEF QueueInv, DrainLoop
<1>17. CASE Crash
    BY <1>17 DEF QueueInv, Crash, ctxVars
<1>18. CASE UNCHANGED vars
    BY <1>18 DEF QueueInv, vars
<1>19. QED
    BY <1>1, <1>2, <1>3, <1>4, <1>5, <1>6, <1>7, <1>8, <1>9, <1>10, <1>11, <1>12,
       <1>13, <1>14, <1>15, <1>16, <1>17, <1>18
    DEF Next, CallFromJS, LoopStep, SetTimeout, SetInterval

(* A context that dangles does so for good.                                *)
LEMMA DanglingGrows ==
    ASSUME [Next]_vars
    PROVE  dangling \subseteq dangling'
<1>1. ASSUME NEW b \in BOOLEAN, CreateTimer(b)
      PROVE  dangling \subseteq dangling'
    BY <1>1 DEF CreateTimer
<1>2. ASSUME NEW i \in Id, ClearTimer(i)
      PROVE  dangling \subseteq dangling'
    BY <1>2 DEF ClearTimer
<1>3. ASSUME NEW c \in Timer, CloseHandle(c) \/ FireTimer(c)
      PROVE  dangling \subseteq dangling'
    BY <1>3 DEF CloseHandle, FireTimer
<1>4. CASE ReturnFromTimer \/ Shutdown
    BY <1>4 DEF ReturnFromTimer, Shutdown
<1>5. CASE ScriptLoaded \/ CollectDue \/ AllFired \/ TakePending \/ SkipCancelled
           \/ CallTimer \/ TimersDone \/ EndFrame \/ ReloadScript \/ DrainLoop \/ Crash
           \/ UNCHANGED vars
    BY <1>5 DEF ScriptLoaded, CollectDue, AllFired, TakePending, SkipCancelled,
                CallTimer, TimersDone, EndFrame, ReloadScript, DrainLoop, Crash, vars
<1>6. QED
    BY <1>1, <1>2, <1>3, <1>4, <1>5
    DEF Next, CallFromJS, LoopStep, SetTimeout, SetInterval

(* Every step that frees no context in use keeps the rest of the invariant.*)
LEMMA SafeStep ==
    ASSUME TypeOK, IdInv, QueueInv, OwnerInv, HandleInv, EntryInv, ProtectInv,
           MemorySafe, MemorySafe', [Next]_vars
    PROVE  OwnerInv' /\ HandleInv' /\ EntryInv' /\ ProtectInv'
<1>a. /\ \A c \in Timer : c \in Int /\ c # NoTimer
      /\ created \in Int /\ base \in Int /\ base <= created
      /\ \A c \in Timer : /\ id[c] \in Id /\ protects[c] \in Int
                          /\ protects[c] = IF handle[c] \in {"active", "fired"} THEN 1 ELSE 0
      /\ pending \in Seq(Timer) /\ toProcess \in Seq(Timer)
      /\ Range(pending) \subseteq Timer /\ Range(toProcess) \subseteq Timer
    BY DEF TypeOK, Timer, NoTimer, ProtectInv, Range
<1>1. ASSUME NEW b \in BOOLEAN, CreateTimer(b)
      PROVE  OwnerInv' /\ HandleInv' /\ EntryInv' /\ ProtectInv'
    <2> DEFINE n == created + 1
    <2>1. /\ n \in Timer /\ nextTimerId \in Id /\ nextTimerId = n - base
          /\ created' = n /\ base' = base /\ pc' = pc /\ current' = current /\ due' = due
          /\ id' = [id EXCEPT ![n] = nextTimerId]
          /\ handle' = [handle EXCEPT ![n] = "active"]
          /\ protects' = [protects EXCEPT ![n] = @ + 1]
          /\ uvTimers' = [uvTimers EXCEPT ![nextTimerId] = n]
          /\ cancelled' = cancelled \ {n}
          /\ intervals \subseteq intervals' /\ intervals' \subseteq intervals \cup {n}
          /\ UNCHANGED <<cleared, ran, pending, toProcess, cancelledTimerIds>>
          /\ pc # "drain"
        BY <1>1 DEF TypeOK, IdInv, CreateTimer, Timer, Id, InJS
    <2>2. uvTimers[nextTimerId] = NoTimer
        BY <1>1, <2>1 DEF CreateTimer, MemorySafe, OwnerInv, TypeOK
    <2>3. handle[n] = "none"
        BY <1>a, <2>1 DEF IdInv
    <2>4. ASSUME NEW c \in Timer, c # n
          PROVE  /\ handle'[c] = handle[c] /\ id'[c] = id[c] /\ protects'[c] = protects[c]
                 /\ c \in cancelled' <=> c \in cancelled
                 /\ c \in intervals' <=> c \in intervals
        BY <2>1, <2>4 DEF TypeOK
    <2>5. handle'[n] = "active" /\ id'[n] = nextTimerId /\ protects'[n] = 1 /\ n \notin cancelled'
        <3>1. protects[n] = 0
            BY <1>a, <2>1, <2>3
        <3>2. protects'[n] = protects[n] + 1 /\ handle'[n] = "active" /\ id'[n] = nextTimerId
            BY <2>1 DEF TypeOK
        <3>3. QED BY <2>1, <3>1, <3>2
    <2>6. OwnerInv'
        <3>1. ASSUME NEW c \in Timer, handle'[c] \in InLoop
              PROVE  uvTimers'[id'[c]] = c
            BY <1>a, <2>1, <2>2, <2>4, <2>5, <3>1 DEF TypeOK, OwnerInv, Owned
        <3>2. ASSUME NEW i \in Id, NEW c \in Timer, uvTimers'[i] = c
              PROVE  id'[c] = i /\ handle'[c] \in InLoop
            <4>1. CASE i = nextTimerId
                BY <2>1, <2>5, <3>2, <4>1 DEF TypeOK, InLoop
            <4>2. CASE i # nextTimerId
                <5>1. uvTimers[i] = c
                    BY <2>1, <3>2, <4>2 DEF TypeOK
                <5>2. c # n
                    BY <2>3, <5>1 DEF OwnerInv, InLoop
                <5>3. QED BY <2>4, <5>1, <5>2 DEF OwnerInv
            <4>3. QED BY <4>1, <4>2
        <3>3. QED BY <3>1, <3>2 DEF OwnerInv, Owned
    <2>7. HandleInv'
        <3>1. n \notin cleared /\ n \notin ran
            BY <1>a, <2>1 DEF HandleInv
        <3>2. pc = "call" => current \in Timer
            BY DEF IdInv
        <3>3. ASSUME NEW c \in Timer
              PROVE  /\ handle'[c] = "active" => /\ c \notin cancelled' /\ c \notin cleared'
                                                 /\ base' < c
                                                 /\ c \in intervals' \/ c \notin ran'
                     /\ c <= created' /\ c \notin cancelled' => handle'[c] = "active"
                     /\ handle'[c] = "fired" => c \notin intervals'
            BY <1>a, <2>1, <2>4, <2>5, <3>1 DEF HandleInv
        <3>4. \A c \in due' : handle'[c] = "active"
            BY <2>1, <2>4, <2>5 DEF HandleInv, TypeOK
        <3>5. \A c \in cleared' \cup ran' : c <= created'
            BY <1>a, <2>1 DEF HandleInv, TypeOK
        <3>6. pc' = "call" /\ current' \notin intervals' => handle'[current'] = "fired"
            BY <2>1, <2>3, <2>4, <3>2 DEF HandleInv
        <3>7. QED BY <2>1, <3>3, <3>4, <3>5, <3>6 DEF HandleInv
    <2>8. EntryInv'
        <3>1. \A c \in Range(pending) \cup Range(toProcess) : c \in Timer /\ c # n
            BY <1>a, <2>1 DEF EntryInv
        <3>2. QED BY <1>a, <2>1, <2>4, <3>1 DEF EntryInv
    <2>9. ProtectInv'
        BY <1>a, <2>4, <2>5 DEF ProtectInv
    <2>10. QED BY <2>6, <2>7, <2>8, <2>9
<1>2. ASSUME NEW i \in Id, ClearTimer(i)
      PROVE  OwnerInv' /\ HandleInv' /\ EntryInv' /\ ProtectInv'
    <2>1. /\ cleared' = cleared \cup {c \in Timer : c = base + i /\ c <= created}
          /\ UNCHANGED <<pc, created, base, intervals, id, uvTimers, pending, toProcess, due,
                         current, ran>>
          /\ pc # "drain" /\ due = {}
        BY <1>2 DEF ClearTimer, InJS, QueueInv
    <2>2. ASSUME NEW c \in Timer, handle[c] = "active", c \in cleared'
          PROVE  Cancellable(i) /\ uvTimers[i] = c
        <3>1. c = base + i /\ c <= created /\ base < c
            BY <2>1, <2>2 DEF HandleInv
        <3>2. id[c] = i
            BY <1>a, <3>1 DEF IdInv, Id
        <3>3. uvTimers[i] = c
            BY <2>2, <3>2 DEF OwnerInv, Owned, InLoop
        <3>4. QED BY <1>a, <2>2, <3>3 DEF Cancellable, HandleInv
    <2>3. CASE ~Cancellable(i)
        <3>1. UNCHANGED <<cancelled, handle, protects, cancelledTimerIds>>
            BY <1>2, <2>3 DEF ClearTimer
        <3>2. HandleInv'
            BY <2>1, <2>2, <2>3, <3>1 DEF HandleInv
        <3>3. QED
            BY <2>1, <3>1, <3>2 DEF OwnerInv, Owned, EntryInv, ProtectInv
    <2>4. CASE Cancellable(i)
        <3> DEFINE d == uvTimers[i]
        <3>1. d \in Timer /\ d \notin cancelled
            BY <2>4 DEF Cancellable, TypeOK
        <3>2. /\ cancelled' = cancelled \cup {d}
              /\ handle' = [handle EXCEPT ![d] = "closing"]
              /\ protects' = [protects EXCEPT ![d] = @ - 1]
              /\ cancelledTimerIds' = cancelledTimerIds \cup {i}
            BY <1>2, <2>4 DEF ClearTimer
        <3>3. id[d] = i /\ handle[d] = "active"
            BY <3>1 DEF OwnerInv, HandleInv, IdInv, TypeOK, InLoop
        <3>4. /\ handle'[d] = "closing" /\ protects'[d] = 0
              /\ \A c \in Timer : c # d => handle'[c] = handle[c] /\ protects'[c] = protects[c]
            BY <1>a, <3>1, <3>2, <3>3 DEF TypeOK
        <3>5. OwnerInv'
            BY <2>1, <3>1, <3>3, <3>4 DEF OwnerInv, Owned, InLoop
        <3>6. HandleInv'
            <4>1. pc = "call" => current \in Timer
                BY DEF IdInv
            <4>2. QED
                BY <1>a, <2>1, <2>2, <3>1, <3>2, <3>3, <3>4, <4>1 DEF HandleInv
        <3>7. EntryInv'
            BY <1>a, <2>1, <3>1, <3>2, <3>3, <3>4 DEF EntryInv
        <3>8. ProtectInv'
            BY <1>a, <3>4 DEF ProtectInv
        <3>9. QED BY <3>5, <3>6, <3>7, <3>8
    <2>5. QED BY <2>3, <2>4
<1>3. CASE ScriptLoaded
    <2>1. OwnerInv'
        BY <1>3 DEF TypeOK, IdInv, OwnerInv, HandleInv, ScriptLoaded, InLoop, Owned, ctxVars
    <2>2. HandleInv'
        BY <1>3 DEF TypeOK, IdInv, QueueInv, OwnerInv, HandleInv, EntryInv, ScriptLoaded, InLoop, Owned, ctxVars
    <2>3. EntryInv'
        BY <1>3 DEF TypeOK, IdInv, QueueInv, OwnerInv, HandleInv, EntryInv, ScriptLoaded, InLoop, Owned, ctxVars
    <2>4. ProtectInv'
        BY <1>3 DEF TypeOK, OwnerInv, HandleInv, ProtectInv, MemorySafe, ScriptLoaded, InLoop, Owned, ctxVars
    <2>5. QED BY <2>1, <2>2, <2>3, <2>4
<1>4. ASSUME NEW c \in Timer, CloseHandle(c)
      PROVE  OwnerInv' /\ HandleInv' /\ EntryInv' /\ ProtectInv'
    <2>1. /\ handle[c] = "closing" /\ uvTimers[id[c]] = c
          /\ handle' = [handle EXCEPT ![c] = "closed"]
          /\ uvTimers' = [uvTimers EXCEPT ![id[c]] = NoTimer]
          /\ pc = "close" /\ pending = <<>> /\ toProcess = <<>> /\ due = {}
          /\ UNCHANGED <<pc, created, base, intervals, id, cancelled, protects, pending, due,
                         toProcess, current, cleared, ran>>
        BY <1>4 DEF CloseHandle, OwnerInv, Owned, InLoop, QueueInv
    <2>2. /\ handle'[c] = "closed"
          /\ \A d \in Timer : d # c => handle'[d] = handle[d]
        BY <2>1 DEF TypeOK
    <2>3. OwnerInv'
        <3>1. ASSUME NEW d \in Timer, handle'[d] \in InLoop
              PROVE  uvTimers'[id'[d]] = d
            <4>1. d # c /\ handle[d] \in InLoop
                BY <2>2, <3>1 DEF InLoop
            <4>2. uvTimers[id[d]] = d /\ id[d] # id[c]
                BY <2>1, <4>1 DEF OwnerInv, Owned
            <4>3. QED BY <1>a, <2>1, <4>2 DEF TypeOK
        <3>2. ASSUME NEW i \in Id, NEW d \in Timer, uvTimers'[i] = d
              PROVE  id'[d] = i /\ handle'[d] \in InLoop
            <4>1. i # id[c] /\ uvTimers[i] = d
                BY <1>a, <2>1, <3>2 DEF TypeOK
            <4>2. d # c
                BY <4>1 DEF OwnerInv
            <4>3. QED BY <2>1, <2>2, <4>1, <4>2 DEF OwnerInv
        <3>3. QED BY <3>1, <3>2 DEF OwnerInv, Owned
    <2>4. HandleInv'
        BY <1>a, <2>1, <2>2 DEF HandleInv
    <2>5. EntryInv'
        BY <2>1 DEF EntryInv, Range
    <2>6. ProtectInv'
        BY <1>a, <2>1, <2>2 DEF ProtectInv
    <2>7. QED BY <2>3, <2>4, <2>5, <2>6
<1>5. CASE CollectDue
    <2>1. OwnerInv'
        BY <1>5 DEF TypeOK, IdInv, OwnerInv, HandleInv, CollectDue, InLoop, Owned, ctxVars
    <2>2. HandleInv'
        BY <1>5 DEF TypeOK, IdInv, QueueInv, OwnerInv, HandleInv, EntryInv, CollectDue, InLoop, Owned, ctxVars
    <2>3. EntryInv'
        BY <1>5 DEF TypeOK, IdInv, QueueInv, OwnerInv, HandleInv, EntryInv, CollectDue, InLoop, Owned, ctxVars
    <2>4. ProtectInv'
        BY <1>5 DEF TypeOK, OwnerInv, HandleInv, ProtectInv, MemorySafe, CollectDue, InLoop, Owned, ctxVars
    <2>5. QED BY <2>1, <2>2, <2>3, <2>4
<1>6. ASSUME NEW c \in Timer, FireTimer(c)
      PROVE  OwnerInv' /\ HandleInv' /\ EntryInv' /\ ProtectInv'
    <2>1. /\ c \in due /\ pc = "fire" /\ handle[c] = "active" /\ c \notin cancelled
          /\ base < c /\ c <= created
          /\ c \in intervals \/ c \notin ran
          /\ due' = due \ {c} /\ pending' = Append(pending, c)
          /\ UNCHANGED <<pc, created, base, intervals, id, protects, uvTimers, toProcess,
                         cancelledTimerIds, current, cleared, ran>>
        BY <1>6, <1>a DEF FireTimer, HandleInv, IdInv
    <2>2. Range(pending') = Range(pending) \cup {c}
        BY <1>a, <2>1, AppendFacts
    <2>3. CASE c \in intervals
        <3>1. UNCHANGED <<cancelled, handle>>
            BY <1>6, <2>1, <2>3 DEF FireTimer
        <3>2. EntryInv'
            <4>1. ASSUME NEW e \in Range(pending') \cup Range(toProcess')
                  PROVE  e = c \/ e \in Range(pending) \cup Range(toProcess)
                BY <2>1, <2>2
            <4>2. ASSUME NEW e \in Range(pending') \cup Range(toProcess'), e \in intervals
                  PROVE  handle[e] = "active" \/ (handle[e] = "closing" /\ id[e] \in cancelledTimerIds)
                BY <2>1, <4>1, <4>2 DEF EntryInv
            <4>3. ASSUME NEW e \in Range(pending') \cup Range(toProcess'), e \notin intervals
                  PROVE  handle[e] = "fired" /\ e \notin ran
                BY <2>3, <4>1, <4>3 DEF EntryInv
            <4>4. \A e \in Range(pending') \cup Range(toProcess') : base < e /\ e <= created
                BY <2>1, <4>1 DEF EntryInv
            <4>5. QED BY <2>1, <3>1, <4>2, <4>3, <4>4 DEF EntryInv
        <3>3. QED
            BY <2>1, <3>1, <3>2 DEF OwnerInv, HandleInv, ProtectInv, Owned
    <2>4. CASE c \notin intervals
        <3>1. cancelled' = cancelled \cup {c} /\ handle' = [handle EXCEPT ![c] = "fired"]
            BY <1>6, <2>1, <2>4 DEF FireTimer
        <3>2. /\ handle'[c] = "fired"
              /\ \A d \in Timer : d # c => handle'[d] = handle[d]
            BY <3>1 DEF TypeOK
        <3>3. OwnerInv'
            BY <2>1, <3>2 DEF OwnerInv, Owned, InLoop
        <3>4. HandleInv'
            BY <1>a, <2>1, <2>4, <3>1, <3>2 DEF HandleInv, TypeOK
        <3>5. EntryInv'
            <4>1. ASSUME NEW e \in Range(pending') \cup Range(toProcess')
                  PROVE  e = c \/ (e \in Range(pending) \cup Range(toProcess) /\ e # c)
                BY <2>1, <2>2
            <4>2. Range(pending) \cup Range(toProcess) \subseteq Timer
                BY <1>a
            <4>3. ASSUME NEW e \in Range(pending') \cup Range(toProcess'), e \in intervals
                  PROVE  handle'[e] = "active" \/ (handle'[e] = "closing" /\ id[e] \in cancelledTimerIds)
                BY <2>4, <3>2, <4>1, <4>2, <4>3 DEF EntryInv
            <4>4. ASSUME NEW e \in Range(pending') \cup Range(toProcess'), e \notin intervals
                  PROVE  handle'[e] = "fired" /\ e \notin ran
                BY <2>1, <2>4, <3>2, <4>1, <4>2, <4>4 DEF EntryInv
            <4>5. \A e \in Range(pending') \cup Range(toProcess') : base < e /\ e <= created
                BY <2>1, <4>1 DEF EntryInv
            <4>6. QED BY <2>1, <4>3, <4>4, <4>5 DEF EntryInv
        <3>6. ProtectInv'
            BY <1>a, <2>1, <3>2 DEF ProtectInv
        <3>7. QED BY <3>3, <3>4, <3>5, <3>6
    <2>5. QED BY <2>3, <2>4
<1>7. CASE AllFired
    <2>1. OwnerInv'
        BY <1>7 DEF TypeOK, IdInv, OwnerInv, HandleInv, AllFired, InLoop, Owned, ctxVars
    <2>2. HandleInv'
        BY <1>7 DEF TypeOK, IdInv, QueueInv, OwnerInv, HandleInv, EntryInv, AllFired, InLoop, Owned, ctxVars
    <2>3. EntryInv'
        BY <1>7 DEF TypeOK, IdInv, QueueInv, OwnerInv, HandleInv, EntryInv, AllFired, InLoop, Owned, ctxVars
    <2>4. ProtectInv'
        BY <1>7 DEF TypeOK, OwnerInv, HandleInv, ProtectInv, MemorySafe, AllFired, InLoop, Owned, ctxVars
    <2>5. QED BY <2>1, <2>2, <2>3, <2>4
<1>8. CASE TakePending
    <2>1. OwnerInv'
        BY <1>8 DEF TypeOK, IdInv, OwnerInv, HandleInv, TakePending, InLoop, Owned, ctxVars, Range
    <2>2. HandleInv'
        BY <1>8 DEF TypeOK, IdInv, QueueInv, OwnerInv, HandleInv, EntryInv, TakePending, InLoop, Owned, ctxVars, Range
    <2>3. EntryInv'
        BY <1>8 DEF TypeOK, IdInv, QueueInv, OwnerInv, HandleInv, EntryInv, TakePending, InLoop, Owned, ctxVars, Range
    <2>4. ProtectInv'
        BY <1>8 DEF TypeOK, OwnerInv, HandleInv, ProtectInv, MemorySafe, TakePending, InLoop, Owned, ctxVars, Range
    <2>5. QED BY <2>1, <2>2, <2>3, <2>4
<1>9. CASE SkipCancelled
    <2> DEFINE h == Head(toProcess)
    <2>1. /\ UNCHANGED <<pc, ctxVars, base, uvTimers, pending, due, current, cleared, ran>>
          /\ toProcess' = Tail(toProcess) /\ toProcess # <<>>
          /\ cancelledTimerIds' = cancelledTimerIds \ {id[h]}
        BY <1>9 DEF SkipCancelled
    <2>2. OwnerInv' /\ HandleInv' /\ ProtectInv'
        BY <2>1 DEF OwnerInv, HandleInv, ProtectInv, Owned, ctxVars
    <2>3. EntryInv'
        <3>1. /\ h \in Timer /\ h \in Range(toProcess)
              /\ Range(Tail(toProcess)) \subseteq Range(toProcess)
              /\ h \notin Range(Tail(toProcess))
            BY <1>a, <2>1, TailFacts DEF QueueInv
        <3>2. pending = <<>> /\ Range(pending') = {}
            BY <1>9, <2>1 DEF QueueInv, SkipCancelled, Range
        <3>3. ASSUME NEW c \in Range(Tail(toProcess))
              PROVE  id[c] # id[h]
            <4>1. c \in Timer /\ c \in Range(toProcess) /\ c # h
                BY <1>a, <3>1
            <4>2. base < c /\ c <= created /\ base < h /\ h <= created
                BY <3>1, <4>1 DEF EntryInv
            <4>3. QED BY <1>a, <3>1, <4>1, <4>2 DEF IdInv
        <3>4. QED
            BY <2>1, <3>1, <3>2, <3>3 DEF EntryInv, ctxVars
    <2>4. QED BY <2>2, <2>3
<1>10. CASE CallTimer
    <2> DEFINE h == Head(toProcess)
    <2>1. /\ UNCHANGED <<ctxVars, base, uvTimers, pending, cancelledTimerIds, due, cleared>>
          /\ pc = "timers" /\ pc' = "call" /\ current' = h /\ ran' = ran \cup {h}
          /\ toProcess' = Tail(toProcess) /\ toProcess # <<>>
          /\ id[h] \notin cancelledTimerIds
        BY <1>10 DEF CallTimer
    <2>2. /\ h \in Timer /\ h \in Range(toProcess)
          /\ Range(Tail(toProcess)) \subseteq Range(toProcess)
          /\ h \notin Range(Tail(toProcess))
        BY <1>a, <2>1, TailFacts DEF QueueInv
    <2>3. /\ base < h /\ h <= created
          /\ h \notin intervals => handle[h] = "fired"
        BY <2>2 DEF EntryInv
    <2>4. OwnerInv' /\ ProtectInv'
        BY <2>1 DEF OwnerInv, ProtectInv, Owned, ctxVars
    <2>5. HandleInv'
        BY <1>a, <2>1, <2>2, <2>3 DEF HandleInv, ctxVars
    <2>6. EntryInv'
        <3>1. pending = <<>> /\ Range(pending') = {}
            BY <2>1 DEF QueueInv, Range
        <3>2. QED BY <1>a, <2>1, <2>2, <3>1 DEF EntryInv, ctxVars
    <2>7. QED BY <2>4, <2>5, <2>6
<1>11. CASE ReturnFromTimer
    <2>1. /\ UNCHANGED <<created, base, intervals, id, cancelled, uvTimers, pending, toProcess,
                         cancelledTimerIds, due, cleared, ran>>
          /\ pc = "call" /\ pc' = "timers" /\ current \in Timer
          /\ current \notin Range(toProcess) /\ pending = <<>> /\ Range(pending) = {}
        BY <1>11 DEF ReturnFromTimer, QueueInv, IdInv, Range
    <2>2. CASE current \in intervals
        <3>1. UNCHANGED <<handle, protects>>
            BY <1>11, <2>2 DEF ReturnFromTimer
        <3>2. QED
            BY <2>1, <3>1 DEF OwnerInv, HandleInv, EntryInv, ProtectInv, Owned
    <2>3. CASE current \notin intervals
        <3>1. handle[current] = "fired" /\ uvTimers[id[current]] = current
            BY <2>1, <2>3 DEF HandleInv, OwnerInv, Owned, InLoop
        <3>2. /\ protects' = [protects EXCEPT ![current] = @ - 1]
              /\ handle'   = [handle EXCEPT ![current] = "closing"]
            BY <1>11, <1>a, <2>1, <2>3, <3>1 DEF ReturnFromTimer
        <3>3. /\ handle'[current] = "closing" /\ protects'[current] = protects[current] - 1
              /\ \A c \in Timer : c # current => handle'[c] = handle[c] /\ protects'[c] = protects[c]
            BY <2>1, <3>2 DEF TypeOK
        <3>4. protects[current] = 1
            BY <1>a, <2>1, <3>1
        <3>5. OwnerInv'
            BY <2>1, <3>1, <3>3 DEF OwnerInv, Owned, InLoop
        <3>6. HandleInv'
            BY <1>a, <2>1, <3>1, <3>3 DEF HandleInv, TypeOK
        <3>7. EntryInv'
            BY <1>a, <2>1, <3>3 DEF EntryInv
        <3>8. ProtectInv'
            BY <1>a, <3>3, <3>4 DEF ProtectInv
        <3>9. QED BY <3>5, <3>6, <3>7, <3>8
    <2>4. QED BY <2>2, <2>3
<1>12. CASE TimersDone
    <2>1. OwnerInv'
        BY <1>12 DEF TypeOK, IdInv, OwnerInv, HandleInv, TimersDone, InLoop, Owned, ctxVars
    <2>2. HandleInv'
        BY <1>12 DEF TypeOK, IdInv, QueueInv, OwnerInv, HandleInv, EntryInv, TimersDone, InLoop, Owned, ctxVars
    <2>3. EntryInv'
        BY <1>12 DEF TypeOK, IdInv, QueueInv, OwnerInv, HandleInv, EntryInv, TimersDone, InLoop, Owned, ctxVars
    <2>4. ProtectInv'
        BY <1>12 DEF TypeOK, OwnerInv, HandleInv, ProtectInv, MemorySafe, TimersDone, InLoop, Owned, ctxVars
    <2>5. QED BY <2>1, <2>2, <2>3, <2>4
<1>13. CASE EndFrame
    <2>1. OwnerInv'
        BY <1>13 DEF TypeOK, IdInv, OwnerInv, HandleInv, EndFrame, InLoop, Owned, ctxVars
    <2>2. HandleInv'
        BY <1>13 DEF TypeOK, IdInv, QueueInv, OwnerInv, HandleInv, EntryInv, EndFrame, InLoop, Owned, ctxVars
    <2>3. EntryInv'
        BY <1>13 DEF TypeOK, IdInv, QueueInv, OwnerInv, HandleInv, EntryInv, EndFrame, InLoop, Owned, ctxVars
    <2>4. ProtectInv'
        BY <1>13 DEF TypeOK, OwnerInv, HandleInv, ProtectInv, MemorySafe, EndFrame, InLoop, Owned, ctxVars
    <2>5. QED BY <2>1, <2>2, <2>3, <2>4
<1>14. CASE ReloadScript
    <2>1. OwnerInv'
        BY <1>14 DEF TypeOK, IdInv, OwnerInv, HandleInv, ReloadScript, InLoop, Live, Owned, Range
    <2>2. HandleInv'
        BY <1>14 DEF TypeOK, IdInv, QueueInv, OwnerInv, HandleInv, EntryInv, ReloadScript, InLoop, Live, Owned, Range
    <2>3. EntryInv'
        BY <1>14 DEF TypeOK, IdInv, QueueInv, OwnerInv, HandleInv, EntryInv, ReloadScript, InLoop, Live, Owned, Range
    <2>4. ProtectInv'
        <3>1. \A c \in Timer : Live(c) => handle[c] = "active"
            BY <1>a DEF HandleInv, IdInv, OwnerInv, Live, Owned
        <3>2. \A c \in Timer : handle[c] = "active" => Live(c)
            BY DEF HandleInv, OwnerInv, Live, InLoop
        <3>3. QED BY <1>14, <1>a, <3>1, <3>2 DEF ReloadScript, ProtectInv
    <2>5. QED BY <2>1, <2>2, <2>3, <2>4
<1>15. CASE Shutdown
    <2>1. OwnerInv'
        BY <1>15 DEF TypeOK, IdInv, OwnerInv, HandleInv, Shutdown, InLoop, Live, Owned, MemorySafe, NoTimer
    <2>2. HandleInv'
        BY <1>15 DEF TypeOK, IdInv, QueueInv, OwnerInv, HandleInv, EntryInv, Shutdown, InLoop, Live, Owned, MemorySafe, NoTimer
    <2>3. EntryInv'
        BY SMTT(20), <1>15 DEF TypeOK, IdInv, QueueInv, OwnerInv, HandleInv, EntryInv, Shutdown, InLoop, Live, Owned, MemorySafe, NoTimer
    <2>4. ProtectInv'
        BY <1>15 DEF TypeOK, OwnerInv, HandleInv, ProtectInv, MemorySafe, Shutdown, InLoop, Live, Owned, MemorySafe, NoTimer
    <2>5. QED BY <2>1, <2>2, <2>3, <2>4
<1>16. CASE DrainLoop
    <2>1. OwnerInv'
        BY <1>16 DEF TypeOK, IdInv, OwnerInv, HandleInv, DrainLoop, InLoop, Owned
    <2>2. HandleInv'
        BY <1>16 DEF TypeOK, IdInv, QueueInv, OwnerInv, HandleInv, EntryInv, DrainLoop, InLoop, Owned
    <2>3. EntryInv'
        BY <1>16 DEF TypeOK, IdInv, QueueInv, OwnerInv, HandleInv, EntryInv, DrainLoop, InLoop, Owned
    <2>4. ProtectInv'
        BY <1>16 DEF TypeOK, OwnerInv, HandleInv, ProtectInv, MemorySafe, DrainLoop, InLoop, Owned
    <2>5. QED BY <2>1, <2>2, <2>3, <2>4
<1>17. CASE Crash
    <2>1. OwnerInv'
        BY <1>17 DEF TypeOK, IdInv, OwnerInv, HandleInv, Crash, InLoop, Owned, MemorySafe
    <2>2. HandleInv'
        BY <1>17 DEF TypeOK, IdInv, QueueInv, OwnerInv, HandleInv, EntryInv, Crash, InLoop, Owned, MemorySafe
    <2>3. EntryInv'
        BY <1>17 DEF TypeOK, IdInv, QueueInv, OwnerInv, HandleInv, EntryInv, Crash, InLoop, Owned, MemorySafe
    <2>4. ProtectInv'
        BY <1>17 DEF TypeOK, OwnerInv, HandleInv, ProtectInv, MemorySafe, Crash, InLoop, Owned, MemorySafe
    <2>5. QED BY <2>1, <2>2, <2>3, <2>4
<1>18. CASE UNCHANGED vars
    <2>1. OwnerInv'
        BY <1>18 DEF TypeOK, IdInv, OwnerInv, HandleInv, vars, InLoop, Owned
    <2>2. HandleInv'
        BY <1>18 DEF TypeOK, IdInv, QueueInv, OwnerInv, HandleInv, EntryInv, vars, InLoop, Owned
    <2>3. EntryInv'
        BY <1>18 DEF TypeOK, IdInv, QueueInv, OwnerInv, HandleInv, EntryInv, vars, InLoop, Owned
    <2>4. ProtectInv'
        BY <1>18 DEF TypeOK, OwnerInv, HandleInv, ProtectInv, MemorySafe, vars, InLoop, Owned
    <2>5. QED BY <2>1, <2>2, <2>3, <2>4
<1>19. QED
    BY <1>1, <1>2, <1>3, <1>4, <1>5, <1>6, <1>7, <1>8, <1>9, <1>10, <1>11, <1>12,
       <1>13, <1>14, <1>15, <1>16, <1>17, <1>18
    DEF Next, CallFromJS, LoopStep, SetTimeout, SetInterval

(* Before a reload no step frees a context in use while the runtime is up. *)
LEMMA DanglingStep ==
    ASSUME IInv, [Next]_vars
    PROVE  DanglingInv'
<1> SUFFICES ASSUME reloads' = 0, pc' \notin {"drain", "down", "crashed"}
             PROVE  MemorySafe'
    <2>1. pc' = "crashed" => dangling' # {}
        <3>1. CASE Crash
            BY <3>1 DEF Crash
        <3>2. CASE pc = "crashed"
            BY <3>2, DanglingGrows DEF IInv, DanglingInv, MemorySafe
        <3>3. CASE ~Crash /\ pc # "crashed"
            BY <3>3 DEF Next, CallFromJS, LoopStep, SetTimeout, SetInterval, CreateTimer,
               ClearTimer, ScriptLoaded, CloseHandle, CollectDue, FireTimer, AllFired,
               TakePending, SkipCancelled, CallTimer, ReturnFromTimer, TimersDone, EndFrame,
               DrainLoop, ReloadScript, Shutdown, vars
        <3>4. QED BY <3>1, <3>2, <3>3
    <2>2. QED BY <2>1 DEF DanglingInv, MemorySafe
<1>1. reloads = 0 /\ pc \notin {"drain", "down", "crashed"}
    <2>1. reloads \in Nat
        BY DEF IInv, TypeOK
    <2>2. CASE ReloadScript
        BY <2>1, <2>2 DEF ReloadScript
    <2>3. CASE ~ReloadScript
        BY <2>3 DEF Next, CallFromJS, LoopStep, SetTimeout, SetInterval, CreateTimer,
           ClearTimer, ScriptLoaded, CloseHandle, CollectDue, FireTimer, AllFired,
           TakePending, SkipCancelled, CallTimer, ReturnFromTimer, TimersDone, EndFrame,
           DrainLoop, Shutdown, Crash, vars
    <2>4. QED BY <2>2, <2>3
<1>2. MemorySafe /\ OwnerInv /\ HandleInv
    BY <1>1 DEF IInv, DanglingInv, SafeInv
<1>3. ASSUME NEW b \in BOOLEAN, CreateTimer(b)
      PROVE  MemorySafe'
    <2>1. /\ nextTimerId \in Id /\ nextTimerId = created + 1 /\ created + 1 \in Timer
          /\ created \in Int /\ base = 0
        BY <1>1, <1>3 DEF IInv, TypeOK, IdInv, CreateTimer, Id, Timer
    <2>2. uvTimers[nextTimerId] = NoTimer
        <3>1. SUFFICES ASSUME uvTimers[nextTimerId] # NoTimer PROVE FALSE
            OBVIOUS
        <3>2. PICK c \in Timer : uvTimers[nextTimerId] = c
            BY <2>1, <3>1 DEF IInv, TypeOK
        <3>3. c <= created /\ 0 < c
            BY <2>1, <3>2 DEF IInv, IdInv, Timer
        <3>4. id[c] = c /\ c \in Int
            BY <2>1, <3>3 DEF IInv, IdInv, Timer
        <3>5. id[c] = nextTimerId
            BY <1>2, <2>1, <3>2 DEF OwnerInv
        <3>6. QED BY <2>1, <3>3, <3>4, <3>5
    <2>3. QED BY <1>2, <1>3, <2>2 DEF CreateTimer, MemorySafe
<1>4. ASSUME NEW c \in Timer, CloseHandle(c)
      PROVE  MemorySafe'
    <2>1. uvTimers[id[c]] = c
        BY <1>2, <1>4 DEF CloseHandle, OwnerInv, Owned, InLoop
    <2>2. QED BY <1>2, <1>4, <2>1 DEF CloseHandle, MemorySafe
<1>5. CASE ReturnFromTimer
    <2>1. current \in Timer
        BY <1>5 DEF IInv, IdInv, ReturnFromTimer
    <2>2. CASE current \in intervals
        BY <1>2, <1>5, <2>2 DEF ReturnFromTimer, MemorySafe
    <2>3. CASE current \notin intervals
        <3>1. handle[current] = "fired" /\ uvTimers[id[current]] = current
            BY <1>2, <1>5, <2>1, <2>3 DEF ReturnFromTimer, HandleInv, OwnerInv, Owned, InLoop
        <3>2. QED BY <1>2, <1>5, <3>1 DEF ReturnFromTimer, MemorySafe
    <2>4. QED BY <2>2, <2>3
<1>6. CASE Shutdown
    BY <1>6 DEF Shutdown
<1>7. CASE UNCHANGED dangling
    BY <1>2, <1>7 DEF MemorySafe
<1>8. QED
    BY <1>3, <1>4, <1>5, <1>6, <1>7
    DEF Next, CallFromJS, LoopStep, SetTimeout, SetInterval, ClearTimer, ScriptLoaded,
        CollectDue, FireTimer, AllFired, TakePending, SkipCancelled, CallTimer, TimersDone,
        EndFrame, DrainLoop, ReloadScript, Crash, ctxVars, vars

(* The invariant is inductive.                                             *)
LEMMA InvStep == IInv /\ [Next]_vars => IInv'
<1> SUFFICES ASSUME IInv, [Next]_vars PROVE IInv'
    OBVIOUS
<1>1. TypeOK' /\ IdInv' /\ QueueInv'
    BY TypeStep, QueueStep DEF IInv
<1>2. DanglingInv'
    BY DanglingStep
<1>3. SafeInv'
    <2>1. SUFFICES ASSUME MemorySafe' PROVE OwnerInv' /\ HandleInv' /\ EntryInv' /\ ProtectInv'
        BY DEF SafeInv
    <2>2. MemorySafe
        BY <2>1, DanglingGrows DEF MemorySafe
    <2>3. QED BY <2>1, <2>2, SafeStep DEF IInv, SafeInv
<1>4. QED BY <1>1, <1>2, <1>3 DEF IInv

(* The inductive invariant holds in every reachable state.                 *)
THEOREM InvHolds == Spec => []IInv
<1>1. QED BY InitEstablishes, InvStep, PTL DEF Spec

-----------------------------------------------------------------------------
(* The variables keep their types for any number of timers and reloads.    *)
THEOREM TypeCorrect == Spec => []TypeOK
<1>1. IInv => TypeOK BY DEF IInv
<1>2. QED BY <1>1, InvHolds, PTL

(* As long as no script was reloaded and the runtime is up, libuv never    *)
(* holds the handle of a freed timer context.                              *)
THEOREM SafeUntilReload == Spec => []SafeBeforeReload
<1>1. IInv => SafeBeforeReload
    BY DEF IInv, DanglingInv, SafeBeforeReload
<1>2. QED BY <1>1, InvHolds, PTL

(* No timer is queued twice.                                               *)
THEOREM NoDuplicates == Spec => []QueuedOnce
<1>1. IInv => QueuedOnce
    BY DEF IInv, QueueInv, QueuedOnce, Range
<1>2. QED BY <1>1, InvHolds, PTL

(* What holds of the entry at the head of the batch when it is called.     *)
LEMMA HeadIsCallable ==
    ASSUME IInv, MemorySafe, [Next]_vars, NEW c \in Timer, Calls(c)
    PROVE  /\ protects[c] = 1 /\ base < c
           /\ c \in intervals => c \notin cleared
           /\ c \notin intervals => c \notin ran
<1>1. CallTimer
    BY DEF Calls, Next, CallFromJS, LoopStep, SetTimeout, SetInterval, CreateTimer,
       ClearTimer, ScriptLoaded, CloseHandle, CollectDue, FireTimer, AllFired,
       TakePending, SkipCancelled, ReturnFromTimer, TimersDone, EndFrame,
       DrainLoop, ReloadScript, Shutdown, Crash, vars
<1>2. c \in Range(toProcess) /\ id[c] \notin cancelledTimerIds
    BY <1>1, TailFacts DEF CallTimer, Calls, IInv, TypeOK
<1>3. OwnerInv /\ HandleInv /\ EntryInv /\ ProtectInv
    BY DEF IInv, SafeInv
<1>4. \/ c \in intervals /\ handle[c] = "active"
      \/ c \notin intervals /\ handle[c] = "fired" /\ c \notin ran
    BY <1>2, <1>3 DEF EntryInv
<1>5. QED BY <1>2, <1>3, <1>4 DEF EntryInv, HandleInv, ProtectInv

(* A callback that clear... or a reload released is never called.          *)
THEOREM CallsAreProtected == Spec => CalledOnlyWhileProtected
<1>1. IInv /\ [Next]_vars => [\A c \in Timer : Calls(c) /\ MemorySafe => protects[c] = 1]_vars
    BY HeadIsCallable
<1>2. QED BY <1>1, InvHolds, PTL DEF Spec, CalledOnlyWhileProtected

(* Clearing an interval is final, wherever its callback waits.             *)
THEOREM ClearedIntervalsStop == Spec => IntervalClearIsFinal
<1>1. IInv /\ [Next]_vars
      => [\A c \in Timer : Calls(c) /\ c \in intervals /\ MemorySafe => c \notin cleared]_vars
    BY HeadIsCallable
<1>2. QED BY <1>1, InvHolds, PTL DEF Spec, IntervalClearIsFinal

(* A timeout is called at most once.                                       *)
THEOREM TimeoutsRunOnce == Spec => TimeoutRunsOnce
<1>1. IInv /\ [Next]_vars
      => [\A c \in Timer : Calls(c) /\ c \notin intervals /\ MemorySafe => c \notin ran]_vars
    BY HeadIsCallable
<1>2. QED BY <1>1, InvHolds, PTL DEF Spec, TimeoutRunsOnce

(* A reload silences every timer of the old script.                        *)
THEOREM ReloadSilencesOldTimers == Spec => OldTimersNeverRun
<1>1. IInv /\ [Next]_vars => [\A c \in Timer : Calls(c) /\ MemorySafe => c > base]_vars
    <2>1. ASSUME IInv, [Next]_vars, NEW c \in Timer, Calls(c), MemorySafe
          PROVE  c > base
        BY <2>1, HeadIsCallable DEF IInv, TypeOK, Timer
    <2>2. QED BY <2>1
<1>2. QED BY <1>1, InvHolds, PTL DEF Spec, OldTimersNeverRun

-----------------------------------------------------------------------------
(***************************************************************************)
(* The timers implement TimerService: the initial state is an initial      *)
(* state of the service, and every step is a step of the service or        *)
(* changes nothing the service knows of.                                   *)
(***************************************************************************)

(* A callback is on the stack only while it is being called.               *)
CallInv == pc \notin {"call", "crashed"} => current = NoTimer

(* An id in cancelledTimerIds_ belongs to a timer the script cleared.      *)
CancelInv == \A i \in cancelledTimerIds : base + i \in cleared

(* A timeout that has fired waits in the queue or is being called, unless  *)
(* a reload dropped it: its id is not among the cancelled ones, since a    *)
(* timer of the table that fired cannot be cancelled any more.             *)
FiredInv ==
    /\ \A c \in Timer : c - base \in cancelledTimerIds => handle[c] \notin {"active", "fired"}
    /\ \A c \in Timer : base < c /\ handle[c] = "fired" => Queued(c) \/ current = c

RInv == IInv /\ CallInv /\ (MemorySafe => CancelInv /\ FiredInv)

-----------------------------------------------------------------------------
(* The two parts IInv lacks are kept by every step.                        *)
LEMMA CallStep == ASSUME IInv, CallInv, [Next]_vars PROVE CallInv'
<1>1. CASE CallTimer \/ ReturnFromTimer \/ Crash
    BY <1>1 DEF CallTimer, ReturnFromTimer, Crash, CallInv
<1>2. CASE ~(CallTimer \/ ReturnFromTimer \/ Crash)
    <2>1. current' = current
        BY <1>2 DEF Next, CallFromJS, LoopStep, SetTimeout, SetInterval, CreateTimer,
           ClearTimer, ScriptLoaded, CloseHandle, CollectDue, FireTimer, AllFired,
           TakePending, SkipCancelled, TimersDone, EndFrame, DrainLoop, ReloadScript,
           Shutdown, vars
    <2>2. pc' = pc \/ pc \notin {"call", "crashed"}
        BY <1>2 DEF Next, CallFromJS, LoopStep, SetTimeout, SetInterval, CreateTimer,
           ClearTimer, ScriptLoaded, CloseHandle, CollectDue, FireTimer, AllFired,
           TakePending, SkipCancelled, TimersDone, EndFrame, DrainLoop, ReloadScript,
           Shutdown, vars
    <2>3. QED BY <2>1, <2>2 DEF CallInv
<1>3. QED BY <1>1, <1>2

(* A timer that can be cancelled by id i is the i-th of the current script.*)
LEMMA CancellableIs ==
    ASSUME IInv, MemorySafe, NEW i \in Id, Cancellable(i)
    PROVE  /\ uvTimers[i] \in Timer /\ uvTimers[i] = base + i
           /\ uvTimers[i] <= created /\ handle[uvTimers[i]] = "active"
<1> DEFINE c == uvTimers[i]
<1>1. c \in Timer /\ c \notin cancelled
    BY DEF Cancellable, IInv, TypeOK
<1>2. c <= created /\ id[c] = i
    BY <1>1 DEF IInv, IdInv, SafeInv, OwnerInv
<1>3. handle[c] = "active" /\ base < c
    BY <1>1, <1>2 DEF IInv, SafeInv, HandleInv
<1>4. i = c - base /\ c \in Int /\ base \in Int
    BY <1>1, <1>2, <1>3 DEF IInv, IdInv, TypeOK, Timer
<1>5. QED BY <1>1, <1>2, <1>3, <1>4

LEMMA CancelStep ==
    ASSUME IInv, MemorySafe, CancelInv, [Next]_vars
    PROVE  CancelInv'
<1>1. ASSUME NEW i \in Id, ClearTimer(i)
      PROVE  CancelInv'
    <2>1. base' = base /\ cleared \subseteq cleared'
        BY <1>1 DEF ClearTimer
    <2>2. CASE Cancellable(i)
        <3>1. cancelledTimerIds' = cancelledTimerIds \cup {i}
            BY <1>1, <2>2 DEF ClearTimer
        <3>2. base + i \in cleared'
            BY <1>1, <2>2, CancellableIs DEF ClearTimer
        <3>3. QED BY <2>1, <3>1, <3>2 DEF CancelInv
    <2>3. CASE ~Cancellable(i)
        BY <1>1, <2>1, <2>3 DEF ClearTimer, CancelInv
    <2>4. QED BY <2>2, <2>3
<1>2. CASE ReloadScript
    BY <1>2 DEF ReloadScript, CancelInv
<1>3. CASE cancelledTimerIds' \subseteq cancelledTimerIds /\ base' = base /\ cleared' = cleared
    BY <1>3 DEF CancelInv
<1>4. QED
    BY <1>1, <1>2, <1>3
    DEF Next, CallFromJS, LoopStep, SetTimeout, SetInterval, CreateTimer, ScriptLoaded,
        CloseHandle, CollectDue, FireTimer, AllFired, TakePending, SkipCancelled, CallTimer,
        ReturnFromTimer, TimersDone, EndFrame, DrainLoop, Shutdown, Crash, ctxVars, vars

(* Every step keeps a fired timeout in the queue or on the stack.          *)
LEMMA FiredStep ==
    ASSUME IInv, CallInv, CancelInv, FiredInv, MemorySafe, MemorySafe', [Next]_vars
    PROVE  FiredInv'
<1>a. /\ \A c \in Timer : c \in Int /\ c # NoTimer
      /\ created \in Int /\ base \in Int /\ base <= created
      /\ handle \in [Timer -> HandleState] /\ id \in [Timer -> Id]
      /\ pending \in Seq(Timer) /\ toProcess \in Seq(Timer)
      /\ OwnerInv /\ HandleInv /\ EntryInv
    BY DEF IInv, SafeInv, TypeOK, Timer, NoTimer
<1>1. ASSUME NEW b \in BOOLEAN, CreateTimer(b)
      PROVE  FiredInv'
    <2>1. /\ created + 1 \in Timer /\ handle' = [handle EXCEPT ![created + 1] = "active"]
          /\ UNCHANGED <<base, pending, toProcess, cancelledTimerIds, current>>
        BY <1>1, <1>a, MaxTimersAssumption DEF CreateTimer, IInv, TypeOK, Timer
    <2>2. created + 1 \notin cleared
        BY <1>a DEF HandleInv
    <2>3. created + 1 - base \notin cancelledTimerIds
        <3>1. base + (created + 1 - base) = created + 1
            BY <1>a
        <3>2. QED BY <2>2, <3>1 DEF CancelInv
    <2>4. \A c \in Timer : handle'[c] = IF c = created + 1 THEN "active" ELSE handle[c]
        BY <1>a, <2>1
    <2>5. \A c \in Timer : Queued(c)' <=> Queued(c)
        BY <2>1 DEF Queued
    <2>6. ASSUME NEW c \in Timer, c - base \in cancelledTimerIds
          PROVE  handle'[c] \notin {"active", "fired"}
        <3>1. c # created + 1
            <4>1. c - base \in cancelledTimerIds /\ created \in Int /\ base \in Int
                BY <1>a, <2>6
            <4>2. QED BY <2>3, <4>1
        <3>2. handle'[c] = handle[c]
            BY <2>4, <3>1
        <3>3. QED BY <2>6, <3>2 DEF FiredInv
    <2>7. ASSUME NEW c \in Timer, base < c, handle'[c] = "fired"
          PROVE  Queued(c) \/ current = c
        BY <2>4, <2>7 DEF FiredInv
    <2>8. QED BY <2>1, <2>5, <2>6, <2>7 DEF FiredInv
<1>2. ASSUME NEW i \in Id, ClearTimer(i)
      PROVE  FiredInv'
    <2>1. /\ UNCHANGED <<base, pending, toProcess, current>>
          /\ \A c \in Timer : Queued(c)' <=> Queued(c)
        BY <1>2 DEF ClearTimer, Queued
    <2>2. CASE Cancellable(i)
        <3>1. PICK d \in Timer : d = uvTimers[i] /\ d = base + i
            BY <2>2, CancellableIs
        <3>2. /\ handle' = [handle EXCEPT ![d] = "closing"]
              /\ cancelledTimerIds' = cancelledTimerIds \cup {i}
            BY <1>2, <2>2, <3>1 DEF ClearTimer
        <3>3. \A c \in Timer : handle'[c] = IF c = d THEN "closing" ELSE handle[c]
            BY <1>a, <3>2
        <3>4. \A c \in Timer : c - base = i => c = d
            BY <1>a, <3>1 DEF Id
        <3>5. QED BY <2>1, <3>2, <3>3, <3>4 DEF FiredInv
    <2>3. CASE ~Cancellable(i)
        BY <1>2, <2>1, <2>3 DEF ClearTimer, FiredInv
    <2>4. QED BY <2>2, <2>3
<1>3. ASSUME NEW d \in Timer, CloseHandle(d)
      PROVE  FiredInv'
    <2>1. /\ UNCHANGED <<base, pending, toProcess, current, cancelledTimerIds>>
          /\ handle' = [handle EXCEPT ![d] = "closed"]
          /\ \A c \in Timer : Queued(c)' <=> Queued(c)
        BY <1>3 DEF CloseHandle, Queued
    <2>2. \A c \in Timer : handle'[c] = IF c = d THEN "closed" ELSE handle[c]
        BY <1>a, <2>1
    <2>3. QED BY <2>1, <2>2 DEF FiredInv
<1>4. ASSUME NEW d \in Timer, FireTimer(d)
      PROVE  FiredInv'
    <2>1. handle[d] = "active" /\ d \notin cancelled
        BY <1>4, <1>a DEF FireTimer, HandleInv
    <2>2. /\ UNCHANGED <<base, toProcess, current, cancelledTimerIds>>
          /\ pending' = Append(pending, d)
          /\ handle' \in {handle, [handle EXCEPT ![d] = "fired"]}
        BY <1>4, <2>1 DEF FireTimer
    <2>3. Range(pending') = Range(pending) \cup {d}
        BY <1>a, <2>2, AppendFacts
    <2>4. \A c \in Timer : Queued(c)' <=> Queued(c) \/ c = d
        BY <2>2, <2>3 DEF Queued
    <2>5. \A c \in Timer : c # d => handle'[c] = handle[c]
        BY <1>a, <2>2
    <2>6. d - base \notin cancelledTimerIds
        BY <2>1 DEF FiredInv
    <2>7. QED BY <2>2, <2>4, <2>5, <2>6 DEF FiredInv
<1>5. CASE ReloadScript
    <2>1. base' = created /\ cancelledTimerIds' = {}
        BY <1>5 DEF ReloadScript
    <2>2. \A c \in Timer : handle'[c] = "fired" => handle[c] = "fired"
        BY <1>5 DEF ReloadScript
    <2>3. \A c \in Timer : handle[c] = "fired" => c <= created
        BY <1>a DEF IInv, IdInv
    <2>4. QED BY <1>a, <2>1, <2>2, <2>3 DEF FiredInv
<1>6. CASE TakePending
    <2>1. /\ UNCHANGED <<base, handle, current, cancelledTimerIds>>
          /\ pending' = <<>> /\ toProcess' = pending /\ toProcess = <<>>
        BY <1>6 DEF TakePending, ctxVars, IInv, QueueInv
    <2>2. \A c \in Timer : Queued(c)' <=> Queued(c)
        BY <2>1 DEF Queued, Range
    <2>3. QED BY <2>1, <2>2 DEF FiredInv
<1>7. CASE SkipCancelled \/ CallTimer
    <2>1. PICK h \in Timer : h = Head(toProcess)
        BY <1>7, <1>a, TailFacts DEF SkipCancelled, CallTimer
    <2>2. /\ UNCHANGED <<base, handle, pending>> /\ toProcess # <<>> /\ toProcess' = Tail(toProcess)
          /\ cancelledTimerIds' \subseteq cancelledTimerIds
          /\ current = NoTimer
          /\ \/ current' = h
             \/ current' = current /\ id[h] \in cancelledTimerIds
        BY <1>7, <2>1 DEF SkipCancelled, CallTimer, ctxVars, CallInv
    <2>3. h \in Range(toProcess) /\ Range(toProcess) = Range(Tail(toProcess)) \cup {h}
        BY <1>a, <2>1, <2>2, TailFacts
    <2>4. id[h] = h - base
        BY <1>a, <2>1, <2>3 DEF EntryInv, IInv, IdInv
    <2>5. \A c \in Timer : Queued(c) => Queued(c)' \/ c = h
        BY <2>2, <2>3 DEF Queued
    <2>6. handle[h] = "fired" => current' = h
        BY <2>1, <2>2, <2>4 DEF FiredInv
    <2>7. QED BY <1>a, <2>1, <2>2, <2>5, <2>6 DEF FiredInv
<1>8. CASE ReturnFromTimer
    <2>1. /\ UNCHANGED <<base, pending, toProcess, cancelledTimerIds>>
          /\ pc = "call" /\ current \in Timer
          /\ \A c \in Timer : Queued(c)' <=> Queued(c)
        BY <1>8 DEF ReturnFromTimer, Queued, IInv, IdInv
    <2>2. CASE current \in intervals
        <3>1. handle' = handle /\ handle[current] # "fired"
            BY <1>8, <1>a, <2>1, <2>2 DEF ReturnFromTimer, HandleInv
        <3>2. QED BY <2>1, <3>1 DEF FiredInv
    <2>3. CASE current \notin intervals
        <3>1. uvTimers[id[current]] = current
            BY <1>a, <2>1, <2>3 DEF HandleInv, OwnerInv, Owned, InLoop
        <3>2. handle' = [handle EXCEPT ![current] = "closing"]
            BY <1>8, <1>a, <2>1, <2>3, <3>1 DEF ReturnFromTimer
        <3>3. \A c \in Timer : handle'[c] = IF c = current THEN "closing" ELSE handle[c]
            BY <1>a, <3>2
        <3>4. QED BY <2>1, <3>3 DEF FiredInv
    <2>4. QED BY <2>2, <2>3
<1>9. CASE Shutdown
    <2>1. /\ UNCHANGED <<base, pending, toProcess, cancelledTimerIds, current>>
          /\ handle' = [c \in Timer |-> IF Live(c) THEN "closing" ELSE handle[c]]
          /\ \A c \in Timer : Queued(c)' <=> Queued(c)
        BY <1>9 DEF Shutdown, Queued
    <2>2. QED BY <1>a, <2>1 DEF FiredInv
<1>10. CASE DrainLoop
    <2>1. /\ UNCHANGED <<base, pending, toProcess, cancelledTimerIds, current>>
          /\ handle' = [c \in Timer |-> IF handle[c] \in InLoop THEN "closed" ELSE handle[c]]
          /\ \A c \in Timer : Queued(c)' <=> Queued(c)
        BY <1>10 DEF DrainLoop, Queued
    <2>2. QED BY <1>a, <2>1 DEF FiredInv
<1>11. CASE \/ ScriptLoaded \/ CollectDue \/ AllFired \/ TimersDone \/ EndFrame \/ Crash
           \/ UNCHANGED vars
    <2>1. UNCHANGED <<base, handle, pending, toProcess, cancelledTimerIds, current>>
        BY <1>11 DEF ScriptLoaded, CollectDue, AllFired, TimersDone, EndFrame, Crash, ctxVars, vars
    <2>2. QED BY <2>1 DEF FiredInv, Queued
<1>12. QED
    BY <1>1, <1>2, <1>3, <1>4, <1>5, <1>6, <1>7, <1>8, <1>9, <1>10, <1>11
    DEF Next, CallFromJS, LoopStep, SetTimeout, SetInterval

THEOREM RefinementInvariant == Spec => []RInv
<1>1. Init => RInv
    <2>1. ASSUME Init PROVE FiredInv
        BY <2>1 DEF Init, FiredInv
    <2>2. QED BY <2>1, InitEstablishes DEF Init, RInv, CallInv, CancelInv
<1>2. RInv /\ [Next]_vars => RInv'
    <2>1. ASSUME RInv, [Next]_vars, MemorySafe' PROVE MemorySafe
        BY <2>1, DanglingGrows DEF MemorySafe
    <2>2. QED BY <2>1, InvStep, CallStep, CancelStep, FiredStep DEF RInv
<1>3. QED BY <1>1, <1>2, PTL DEF Spec

(* The callback of a timer of the running script is protected exactly as   *)
(* long as it can still be called, or is being called; none is ever        *)
(* released twice.                                                         *)
THEOREM ProtectionIsBalanced == Spec => []ProtectedWhileNeeded
<1>1. ASSUME RInv PROVE ProtectedWhileNeeded
    <2> SUFFICES ASSUME MemorySafe, NEW c \in Timer
                 PROVE  /\ protects[c] \in {0, 1}
                        /\ c > base => protects[c] = IF Needed(c) THEN 1 ELSE 0
        BY DEF ProtectedWhileNeeded
    <2>1. /\ HandleInv /\ EntryInv /\ FiredInv /\ c \in Int /\ base \in Int
          /\ protects[c] = IF handle[c] \in {"active", "fired"} THEN 1 ELSE 0
        BY <1>1 DEF RInv, IInv, SafeInv, ProtectInv, TypeOK, Timer
    <2>2. current = c => pc = "call"
        BY <1>1 DEF RInv, CallInv, IInv, DanglingInv, NoTimer, Timer
    <2>3. c > base /\ handle[c] = "fired" => Needed(c)
        BY <2>1 DEF FiredInv, HandleInv, Needed
    <2>4. c \notin intervals /\ (Queued(c) \/ current = c) => handle[c] = "fired"
        BY <2>1, <2>2 DEF EntryInv, HandleInv, Queued
    <2>5. Needed(c) => handle[c] \in {"active", "fired"}
        BY <2>4 DEF Needed
    <2>6. handle[c] = "active" => Needed(c)
        BY DEF Needed
    <2>7. QED BY <2>1, <2>3, <2>5, <2>6
<1>2. QED BY <1>1, RefinementInvariant, PTL

-----------------------------------------------------------------------------
(* The first state.                                                        *)
LEMMA InitRefines == Init => Service!Init
<1> SUFFICES ASSUME Init PROVE Service!Init
    OBVIOUS
<1>1. ~Ended
    BY DEF Init, Ended, MemorySafe
<1>2. ASSUME NEW c \in Timer PROVE StatusOf(c) = "unset"
    <2>1. c > created
        BY DEF Init, Timer
    <2>2. QED BY <1>1, <2>1 DEF StatusOf, Init, Timer
<1>3. QED BY <1>1, <1>2 DEF Service!Init, Init, NoTimer

(* While the promise lasts, the queue and the handle of a timer are all    *)
(* that its status depends on.                                             *)
LEMMA StatusIs ==
    ASSUME ~Ended, NEW c \in Timer, created \in Int
    PROVE  StatusOf(c) = IF c > created THEN "unset"
                         ELSE IF Queued(c) THEN "due"
                         ELSE IF handle[c] = "active" THEN "waiting" ELSE "over"
BY DEF StatusOf, Timer

(* The promise that has ended does not begin again.                        *)
LEMMA EndedStays == ASSUME [Next]_vars, Ended PROVE Ended'
<1>1. CASE ~MemorySafe
    BY <1>1, DanglingGrows DEF MemorySafe, Ended
<1>2. CASE pc \in {"drain", "down", "crashed"}
    BY <1>2 DEF Ended, Next, CallFromJS, LoopStep, SetTimeout, SetInterval, CreateTimer,
       ClearTimer, ScriptLoaded, CloseHandle, CollectDue, FireTimer, AllFired, TakePending,
       SkipCancelled, CallTimer, ReturnFromTimer, TimersDone, EndFrame, DrainLoop,
       ReloadScript, Shutdown, Crash, InJS, vars
<1>3. QED BY <1>1, <1>2 DEF Ended

(* A step that leaves every status alone, and the rest of what the service *)
(* knows of, is a stuttering step of the service.                          *)
LEMMA StutterRefines ==
    ASSUME ~Ended, ~Ended', created \in Int, created' = created,
           \A c \in Timer : c <= created => (Queued(c)' <=> Queued(c)),
           \A c \in Timer : c <= created /\ ~Queued(c) =>
                                (handle'[c] = "active" <=> handle[c] = "active"),
           intervals' = intervals, cleared' = cleared, current' = current, base' = base
    PROVE  UNCHANGED Service!vars
<1>1. ASSUME NEW c \in Timer PROVE StatusOf(c)' = StatusOf(c)
    BY DEF StatusOf, Timer
<1>2. QED BY <1>1 DEF Service!vars

(* A step that ends the promise is the end of the service.                 *)
LEMMA EndRefines == ASSUME Ended' PROVE Service!End
<1>1. ASSUME NEW c \in Timer PROVE StatusOf(c)' = "over"
    BY DEF StatusOf
<1>2. QED BY <1>1 DEF Service!End

-----------------------------------------------------------------------------
(* setTimeout and setInterval set the next timer.                          *)
LEMMA CreateRefines ==
    ASSUME RInv, ~Ended, ~Ended', NEW b \in BOOLEAN, CreateTimer(b)
    PROVE  \E c \in Timer : Service!Set(c)
<1>1. /\ created \in Int /\ created + 1 \in Timer /\ created' = created + 1
      /\ handle' = [handle EXCEPT ![created + 1] = "active"]
      /\ UNCHANGED <<pending, toProcess, cleared, current, base>>
      /\ intervals' \in {intervals, intervals \cup {created + 1}}
    <2>1. created \in 0 .. MaxTimers
        BY DEF RInv, IInv, TypeOK
    <2>2. created < MaxTimers
        BY DEF CreateTimer
    <2>3. created' = created + 1
        BY DEF CreateTimer
    <2>4. handle' = [handle EXCEPT ![created + 1] = "active"]
        BY DEF CreateTimer
    <2>5. UNCHANGED <<pending, toProcess, cleared, current, base>>
        BY DEF CreateTimer
    <2>6. intervals' \in {intervals, intervals \cup {created + 1}}
        <3>1. intervals' = IF b THEN intervals \cup {created + 1} ELSE intervals
            BY DEF CreateTimer
        <3>2. QED BY <3>1
    <2>7. created \in Int /\ created + 1 \in Timer
        BY <2>1, <2>2, MaxTimersAssumption DEF Timer
    <2>8. QED BY <2>3, <2>4, <2>5, <2>6, <2>7
<1>2. handle \in [Timer -> HandleState]
    BY DEF RInv, IInv, TypeOK
<1>3. PICK n \in Timer : n = created + 1
    BY <1>1
<1>4. ~Queued(n)
    BY <1>1, <1>3 DEF RInv, IInv, SafeInv, EntryInv, Ended, Queued
<1>5. Queued(n)' <=> Queued(n)
    BY <1>1 DEF Queued
<1>6. handle'[n] = "active"
    BY <1>1, <1>2, <1>3
<1>7. StatusOf(n) = "unset" /\ StatusOf(n)' = "waiting"
    BY <1>1, <1>3, <1>4, <1>5, <1>6 DEF StatusOf
<1>8. ASSUME NEW c \in Timer, c # n PROVE StatusOf(c)' = StatusOf(c)
    <2>1. handle'[c] = handle[c] /\ (c > created' <=> c > created)
        BY <1>1, <1>3, <1>8 DEF Timer
    <2>2. Queued(c)' <=> Queued(c)
        BY <1>1 DEF Queued
    <2>3. QED BY <2>1, <2>2 DEF StatusOf
<1>9. [c \in Timer |-> StatusOf(c)]' = [[c \in Timer |-> StatusOf(c)] EXCEPT ![n] = "waiting"]
    BY <1>7, <1>8
<1>10. QED
    BY <1>1, <1>3, <1>7, <1>9 DEF Service!Set

(* clearTimeout and clearInterval clear the timer their id names.          *)
LEMMA ClearRefines ==
    ASSUME RInv, ~Ended, ~Ended', NEW i \in Id, ClearTimer(i)
    PROVE  (\E c \in Timer : Service!Clear(c)) \/ UNCHANGED Service!vars
<1>0. PICK c : c = base + i
    OBVIOUS
<1>1. /\ created \in Int /\ base \in Int /\ i \in Int /\ handle \in [Timer -> HandleState]
      /\ UNCHANGED <<created, pending, toProcess, intervals, current, base>>
      /\ cleared' = cleared \cup {d \in Timer : d = c /\ d <= created}
    BY <1>0 DEF RInv, IInv, TypeOK, ClearTimer, Id
<1>2. Cancellable(i) => /\ uvTimers[i] = c /\ c \in Timer /\ c <= created /\ handle[c] = "active"
                        /\ handle' = [handle EXCEPT ![c] = "closing"]
    BY <1>0, CancellableIs DEF RInv, Ended, ClearTimer
<1>3. ~Cancellable(i) => handle' = handle
    BY DEF ClearTimer
<1>4. \A d \in Timer : d # c => handle'[d] = handle[d]
    BY <1>1, <1>2, <1>3
<1>5. \A d \in Timer : Queued(d)' <=> Queued(d)
    BY <1>1 DEF Queued
<1>6. \A d \in Timer : d # c => StatusOf(d)' = StatusOf(d)
    BY <1>1, <1>4, <1>5 DEF StatusOf
<1>7. CASE c \in Timer /\ c <= created
    <2>1. StatusOf(c) # "unset"
        BY <1>1, <1>7 DEF StatusOf, Timer
    <2>2. StatusOf(c) = "waiting" => Cancellable(i)
        <3>1. SUFFICES ASSUME StatusOf(c) = "waiting" PROVE Cancellable(i)
            OBVIOUS
        <3>2. handle[c] = "active"
            BY <1>1, <1>7, <3>1, StatusIs
        <3>3. id[c] = i
            BY <1>0, <1>1, <1>7, <3>2 DEF RInv, IInv, IdInv, SafeInv, HandleInv, Ended, Id
        <3>4. uvTimers[i] = c /\ c \notin cancelled
            BY <1>7, <3>2, <3>3 DEF RInv, IInv, SafeInv, OwnerInv, HandleInv, Owned, Ended, InLoop
        <3>5. QED BY <1>7, <3>4 DEF Cancellable, Timer, NoTimer
    <2>3. StatusOf(c)' = IF StatusOf(c) = "waiting" THEN "over" ELSE StatusOf(c)
        <3>1. CASE Cancellable(i)
            <4>1. handle[c] = "active" /\ handle'[c] = "closing"
                BY <1>1, <1>2, <1>7, <3>1
            <4>2. QED BY <1>1, <1>5, <1>7, <4>1 DEF StatusOf, Timer
        <3>2. CASE ~Cancellable(i)
            BY <1>1, <1>3, <1>5, <1>7, <2>2, <3>2 DEF StatusOf
        <3>3. QED BY <3>1, <3>2
    <2>4. [d \in Timer |-> StatusOf(d)]'
          = IF [d \in Timer |-> StatusOf(d)][c] = "waiting"
            THEN [[d \in Timer |-> StatusOf(d)] EXCEPT ![c] = "over"]
            ELSE [d \in Timer |-> StatusOf(d)]
        BY <1>6, <1>7, <2>3
    <2>5. {d \in cleared' : d > base'} = {d \in cleared : d > base} \cup {c}
        <3>1. cleared' = cleared \cup {c} /\ base' = base /\ c > base
            BY <1>0, <1>1, <1>7 DEF Id
        <3>2. QED BY <3>1
    <2>6. Service!Clear(c)
        BY <1>1, <1>7, <2>1, <2>4, <2>5 DEF Service!Clear
    <2>7. QED BY <1>7, <2>6
<1>8. CASE ~(c \in Timer /\ c <= created)
    <2>1. handle' = handle /\ cleared' = cleared
        BY <1>1, <1>2, <1>3, <1>8
    <2>2. QED BY <1>1, <1>5, <2>1, StutterRefines
<1>9. QED BY <1>7, <1>8

(* A timer libuv found expired becomes due.                                *)
LEMMA FireRefines ==
    ASSUME RInv, ~Ended, ~Ended', NEW c \in Timer, FireTimer(c)
    PROVE  Service!Expire({c})
<1>1. /\ c \in due /\ c <= created /\ created \in Int /\ handle[c] = "active"
      /\ c \notin cancelled /\ c \notin Range(pending) /\ toProcess = <<>>
      /\ pending \in Seq(Timer) /\ handle \in [Timer -> HandleState]
    BY DEF RInv, IInv, TypeOK, IdInv, QueueInv, SafeInv, HandleInv, Ended, FireTimer
<1>2. /\ UNCHANGED <<created, intervals, cleared, current, toProcess, base>>
      /\ pending' = Append(pending, c)
      /\ handle' \in {handle, [handle EXCEPT ![c] = "fired"]}
    BY <1>1 DEF FireTimer
<1>3. Range(pending') = Range(pending) \cup {c}
    BY <1>1, <1>2, AppendFacts
<1>4. StatusOf(c) = "waiting"
    <2>1. ~Queued(c)
        BY <1>1 DEF Queued, Range
    <2>2. QED BY <1>1, <2>1, StatusIs
<1>5. StatusOf(c)' = "due"
    <2>1. Queued(c)'
        BY <1>3 DEF Queued
    <2>2. QED BY <1>1, <1>2, <2>1 DEF StatusOf, Timer
<1>6. ASSUME NEW d \in Timer, d # c PROVE StatusOf(d)' = StatusOf(d)
    <2>1. Queued(d)' <=> Queued(d)
        BY <1>2, <1>3, <1>6 DEF Queued
    <2>2. handle'[d] = handle[d]
        BY <1>1, <1>2, <1>6
    <2>3. QED BY <1>2, <2>1, <2>2 DEF StatusOf
<1>7. [d \in Timer |-> StatusOf(d)]'
      = [d \in Timer |-> IF d \in {c} THEN "due" ELSE [e \in Timer |-> StatusOf(e)][d]]
    BY <1>5, <1>6
<1>8. QED BY <1>2, <1>4, <1>7 DEF Service!Expire

(* The head of the batch is a timer of the current script that is due.     *)
LEMMA HeadIs ==
    ASSUME RInv, ~Ended, pc = "timers", toProcess # <<>>, NEW h, h = Head(toProcess)
    PROVE  /\ h \in Timer /\ h <= created /\ created \in Int /\ base + id[h] = h
           /\ h > base /\ StatusOf(h) = "due"
           /\ pending = <<>> /\ h \notin Range(Tail(toProcess))
           /\ Range(toProcess) = Range(Tail(toProcess)) \cup {h}
           /\ h \notin intervals => handle[h] = "fired"
           /\ h \in intervals => handle[h] = "active" \/ id[h] \in cancelledTimerIds
<1>1. toProcess \in Seq(Timer) /\ created \in Int /\ base \in Int
    BY DEF RInv, IInv, TypeOK
<1>2. /\ h \in Timer /\ h \in Range(toProcess)
      /\ Range(toProcess) = Range(Tail(toProcess)) \cup {h}
      /\ IsInjective(toProcess) => h \notin Range(Tail(toProcess))
    BY <1>1, TailFacts
<1>3. h \notin Range(Tail(toProcess)) /\ pending = <<>>
    BY <1>2 DEF RInv, IInv, QueueInv
<1>4. /\ base < h /\ h <= created
      /\ h \notin intervals => handle[h] = "fired"
      /\ h \in intervals => handle[h] = "active" \/ id[h] \in cancelledTimerIds
    BY <1>2 DEF RInv, IInv, SafeInv, EntryInv, Ended
<1>5. id[h] = h - base
    BY <1>2, <1>4 DEF RInv, IInv, IdInv
<1>6. base + id[h] = h
    BY <1>1, <1>2, <1>5 DEF Timer
<1>7. StatusOf(h) = "due"
    <2>1. Queued(h)
        BY <1>2 DEF Queued
    <2>2. QED BY <1>1, <1>2, <1>4, <2>1, StatusIs DEF Timer
<1>8. h > base
    BY <1>1, <1>2, <1>4 DEF Timer
<1>9. QED BY <1>1, <1>2, <1>3, <1>4, <1>6, <1>7, <1>8

(* Taking the head off the batch changes no other status.                  *)
LEMMA TailIs ==
    ASSUME RInv, ~Ended, ~Ended', pc = "timers", toProcess # <<>>, toProcess' = Tail(toProcess),
           UNCHANGED <<pending, handle, created>>, NEW h, h = Head(toProcess)
    PROVE  [d \in Timer |-> StatusOf(d)]'
           = [[d \in Timer |-> StatusOf(d)] EXCEPT
                 ![h] = IF handle[h] = "active" THEN "waiting" ELSE "over"]
<1>1. /\ h \in Timer /\ h <= created /\ created \in Int /\ pending = <<>>
      /\ h \notin Range(Tail(toProcess)) /\ Range(toProcess) = Range(Tail(toProcess)) \cup {h}
    BY HeadIs
<1>2. ~Queued(h)'
    <2>1. Range(pending) = {}
        BY <1>1 DEF Range
    <2>2. QED BY <1>1, <2>1 DEF Queued
<1>3. ASSUME NEW d \in Timer, d # h PROVE StatusOf(d)' = StatusOf(d)
    <2>1. Queued(d)' <=> Queued(d)
        BY <1>1, <1>3 DEF Queued
    <2>2. QED BY <2>1 DEF StatusOf
<1>4. StatusOf(h)' = IF handle[h] = "active" THEN "waiting" ELSE "over"
    BY <1>1, <1>2 DEF StatusOf, Timer
<1>5. QED BY <1>1, <1>3, <1>4

(* A due timer is passed over only after the script cleared it.            *)
LEMMA SkipRefines ==
    ASSUME RInv, ~Ended, ~Ended', SkipCancelled
    PROVE  \E c \in Timer : Service!Drop(c)
<1>1. PICK h : h = Head(toProcess)
    OBVIOUS
<1>2. /\ pc = "timers" /\ toProcess # <<>> /\ toProcess' = Tail(toProcess)
      /\ id[h] \in cancelledTimerIds
      /\ UNCHANGED <<pending, handle, created, intervals, cleared, current, base>>
    BY <1>1 DEF SkipCancelled, ctxVars
<1>3. h \in Timer /\ base + id[h] = h /\ h > base /\ StatusOf(h) = "due"
    BY <1>1, <1>2, HeadIs
<1>4. h \in cleared
    BY <1>2, <1>3 DEF RInv, CancelInv, Ended
<1>5. handle[h] # "active"
    BY <1>3, <1>4 DEF RInv, IInv, SafeInv, HandleInv, Ended
<1>6. [d \in Timer |-> StatusOf(d)]' = [[d \in Timer |-> StatusOf(d)] EXCEPT ![h] = "over"]
    BY <1>1, <1>2, <1>5, TailIs
<1>7. QED BY <1>2, <1>3, <1>4, <1>6 DEF Service!Drop

(* A due timer is called: a timeout is over then, an interval waits again. *)
LEMMA CallRefines ==
    ASSUME RInv, ~Ended, ~Ended', CallTimer
    PROVE  \E c \in Timer : Service!Call(c)
<1>1. PICK h : h = Head(toProcess)
    OBVIOUS
<1>2. /\ pc = "timers" /\ toProcess # <<>> /\ toProcess' = Tail(toProcess)
      /\ id[h] \notin cancelledTimerIds /\ current' = h
      /\ UNCHANGED <<pending, handle, created, intervals, cleared, base>>
    BY <1>1 DEF CallTimer, ctxVars
<1>3. /\ h \in Timer /\ StatusOf(h) = "due"
      /\ h \notin intervals => handle[h] = "fired"
      /\ h \in intervals => handle[h] = "active"
    BY <1>1, <1>2, HeadIs
<1>4. current = NoTimer
    BY <1>2 DEF RInv, CallInv
<1>5. [d \in Timer |-> StatusOf(d)]'
      = [[d \in Timer |-> StatusOf(d)] EXCEPT
            ![h] = IF handle[h] = "active" THEN "waiting" ELSE "over"]
    BY <1>1, <1>2, TailIs
<1>6. h \in intervals => h \notin cleared
    BY <1>3 DEF RInv, IInv, SafeInv, HandleInv, Ended
<1>7. CASE h \in intervals
    BY <1>2, <1>3, <1>4, <1>5, <1>6, <1>7 DEF Service!Call
<1>8. CASE h \notin intervals
    BY <1>2, <1>3, <1>4, <1>5, <1>8 DEF Service!Call
<1>9. QED BY <1>7, <1>8

(* After a callback nothing but the stack changes for the service: the     *)
(* handle that is closed is the one of the timeout that was called.        *)
LEMMA ReturnRefines ==
    ASSUME RInv, ~Ended, ~Ended', ReturnFromTimer
    PROVE  Service!Return
<1>1. /\ current' = NoTimer
      /\ UNCHANGED <<created, intervals, pending, toProcess, cleared, base>>
      /\ handle \in [Timer -> HandleState] /\ uvTimers \in [Id -> Timer \cup {NoTimer}]
      /\ id \in [Timer -> Id] /\ current \in Timer
    BY DEF RInv, IInv, TypeOK, IdInv, ReturnFromTimer
<1>2. ASSUME NEW c \in Timer PROVE StatusOf(c)' = StatusOf(c)
    <2>1. Queued(c)' <=> Queued(c)
        BY <1>1 DEF Queued
    <2>2. handle'[c] = "active" <=> handle[c] = "active"
        <3>1. CASE current \notin intervals
            <4>1. handle[current] = "fired"
                BY <3>1 DEF RInv, IInv, SafeInv, HandleInv, Ended, ReturnFromTimer
            <4>2. uvTimers[id[current]] = current
                BY <1>1, <4>1 DEF RInv, IInv, SafeInv, OwnerInv, Owned, InLoop, Ended
            <4>3. handle' = [handle EXCEPT ![current] = "closing"]
                BY <1>1, <3>1, <4>2, MaxTimersAssumption DEF ReturnFromTimer, Timer, NoTimer
            <4>4. QED BY <1>1, <4>1, <4>3
        <3>2. CASE current \in intervals
            BY <3>2 DEF ReturnFromTimer
        <3>3. QED BY <3>1, <3>2
    <2>3. QED BY <1>1, <2>1, <2>2 DEF StatusOf
<1>3. QED BY <1>1, <1>2 DEF Service!Return

(* A reload discards every timer: the live ones are those that are active. *)
LEMMA ReloadRefines ==
    ASSUME RInv, ~Ended, ~Ended', ReloadScript
    PROVE  Service!Discard
<1>1. /\ pc = "events" /\ pending' = <<>> /\ toProcess' = toProcess
      /\ UNCHANGED <<created, intervals, cleared, current>> /\ base' = created
      /\ handle' = [c \in Timer |-> IF Live(c) THEN "closing" ELSE handle[c]]
    BY DEF ReloadScript
<1>2. current = NoTimer /\ toProcess = <<>> /\ created \in Int
    BY <1>1 DEF RInv, IInv, TypeOK, CallInv, QueueInv
<1>3. ASSUME NEW c \in Timer
      PROVE  StatusOf(c)' = IF StatusOf(c) = "unset" THEN "unset" ELSE "over"
    <2>1. ~Queued(c)'
        BY <1>1, <1>2 DEF Queued, Range
    <2>2. handle'[c] # "active"
        BY <1>1 DEF RInv, IInv, SafeInv, HandleInv, OwnerInv, Live, InLoop, Ended
    <2>3. StatusOf(c)' = IF c > created THEN "unset" ELSE "over"
        BY <1>1, <2>1, <2>2 DEF StatusOf
    <2>4. StatusOf(c) = "unset" <=> c > created
        BY DEF StatusOf
    <2>5. QED BY <2>3, <2>4
<1>4. {c \in cleared' : c > base'} = {}
    <2>1. \A c \in cleared : c \in Int /\ c <= created
        BY DEF RInv, IInv, TypeOK, SafeInv, HandleInv, Ended, Timer
    <2>2. QED BY <1>1, <1>2, <2>1
<1>5. QED BY <1>1, <1>2, <1>3, <1>4 DEF Service!Discard

-----------------------------------------------------------------------------
(* Every step of the timers is a step of the service or stutters.          *)
LEMMA StepRefines ==
    ASSUME RInv, [Next]_vars
    PROVE  Service!Next \/ UNCHANGED Service!vars
<1>1. CASE Ended'
    BY <1>1, EndRefines DEF Service!Next
<1>2. CASE ~Ended'
    <2>1. ~Ended
        BY <1>2, EndedStays
    <2>2. created \in Int
        BY DEF RInv, IInv, TypeOK
    <2>3. CASE SetTimeout \/ SetInterval
        BY <1>2, <2>1, <2>3, CreateRefines DEF SetTimeout, SetInterval, Service!Next
    <2>4. ASSUME NEW i \in Id, ClearTimer(i) PROVE Service!Next \/ UNCHANGED Service!vars
        BY <1>2, <2>1, <2>4, ClearRefines DEF Service!Next
    <2>5. ASSUME NEW c \in Timer, FireTimer(c) PROVE Service!Next
        BY <1>2, <2>1, <2>5, FireRefines DEF Service!Next
    <2>6. CASE SkipCancelled
        BY <1>2, <2>1, <2>6, SkipRefines DEF Service!Next
    <2>7. CASE CallTimer
        BY <1>2, <2>1, <2>7, CallRefines DEF Service!Next
    <2>8. CASE ReturnFromTimer
        BY <1>2, <2>1, <2>8, ReturnRefines DEF Service!Next
    <2>9. CASE ReloadScript
        BY <1>2, <2>1, <2>9, ReloadRefines DEF Service!Next
    <2>10. CASE \/ ScriptLoaded \/ CollectDue \/ AllFired \/ TimersDone \/ EndFrame \/ UNCHANGED vars
        <3>1. UNCHANGED <<created, pending, toProcess, handle, intervals, cleared, current, base>>
            BY <2>10 DEF ScriptLoaded, CollectDue, AllFired, TimersDone, EndFrame, ctxVars, vars
        <3>2. \A c \in Timer : Queued(c)' <=> Queued(c)
            BY <3>1 DEF Queued
        <3>3. QED BY <1>2, <2>1, <2>2, <3>1, <3>2, StutterRefines
    <2>11. CASE TakePending
        <3>1. /\ UNCHANGED <<created, handle, intervals, cleared, current, base>>
              /\ pending' = <<>> /\ toProcess' = pending /\ toProcess = <<>>
            BY <2>11 DEF TakePending, ctxVars, RInv, IInv, QueueInv
        <3>2. \A c \in Timer : Queued(c)' <=> Queued(c)
            BY <3>1 DEF Queued, Range
        <3>3. QED BY <1>2, <2>1, <2>2, <3>1, <3>2, StutterRefines
    <2>12. ASSUME NEW d \in Timer, CloseHandle(d) PROVE UNCHANGED Service!vars
        <3>1. /\ UNCHANGED <<created, pending, toProcess, intervals, cleared, current, base>>
              /\ handle[d] = "closing" /\ handle' = [handle EXCEPT ![d] = "closed"]
              /\ handle \in [Timer -> HandleState]
            BY <2>12 DEF CloseHandle, RInv, IInv, TypeOK
        <3>2. \A c \in Timer : handle'[c] = "active" <=> handle[c] = "active"
            BY <3>1
        <3>3. \A c \in Timer : Queued(c)' <=> Queued(c)
            BY <3>1 DEF Queued
        <3>4. QED BY <1>2, <2>1, <2>2, <3>1, <3>2, <3>3, StutterRefines
    <2>13. CASE DrainLoop \/ Shutdown \/ Crash
        BY <1>2, <2>13 DEF DrainLoop, Shutdown, Crash, Ended
    <2>14. QED
        BY <2>3, <2>4, <2>5, <2>6, <2>7, <2>8, <2>9, <2>10, <2>11, <2>12, <2>13
        DEF Next, CallFromJS, LoopStep
<1>3. QED BY <1>1, <1>2

(* The timers of the libuv build keep every promise of TimerService: a     *)
(* timeout is called at most once, an interval that was cleared never      *)
(* again, a timer of a script that was reloaded never.                     *)
THEOREM TimersAreAService == Spec => ImplementsTimerService
<1>1. RInv /\ [Next]_vars => [Service!Next]_(Service!vars)
    BY StepRefines
<1>2. QED
    BY <1>1, InitRefines, RefinementInvariant, PTL
    DEF Spec, ImplementsTimerService, Service!Spec
=============================================================================
