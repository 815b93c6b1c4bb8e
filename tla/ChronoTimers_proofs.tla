------------------------ MODULE ChronoTimers_proofs ------------------------
(***************************************************************************)
(* Proofs about ChronoTimers, for every number of timers and of reloads.   *)
(***************************************************************************)
EXTENDS ChronoTimers, SequenceTheorems, WellFoundedInduction, TLAPS

-----------------------------------------------------------------------------
(* A sequence without repetitions keeps none when a new element is         *)
(* appended ...                                                            *)
LEMMA AppendElement ==
    ASSUME NEW S, NEW s \in Seq(S), NEW e \in S
    PROVE  /\ Append(s, e) \in Seq(S)
           /\ Range(Append(s, e)) = Range(s) \cup {e}
           /\ IsInjective(s) /\ e \notin Range(s) => IsInjective(Append(s, e))
<1>1. /\ Append(s, e) \in Seq(S)
      /\ DOMAIN Append(s, e) = 1 .. Len(s) + 1
      /\ DOMAIN s = 1 .. Len(s)
      /\ Len(s) \in Nat
      /\ \A i \in 1 .. Len(s) : Append(s, e)[i] = s[i]
      /\ Append(s, e)[Len(s) + 1] = e
    OBVIOUS
<1>2. \A i \in 1 .. Len(s) + 1 : i \in 1 .. Len(s) \/ i = Len(s) + 1
    BY <1>1
<1>3. Range(Append(s, e)) = Range(s) \cup {e}
    BY <1>1, <1>2 DEF Range
<1>4. ASSUME IsInjective(s), e \notin Range(s)
      PROVE  IsInjective(Append(s, e))
    BY <1>1, <1>2, <1>4 DEF IsInjective, Range
<1>5. QED BY <1>1, <1>3, <1>4

(* ... or its first is taken.                                              *)
LEMMA TakeHead ==
    ASSUME NEW S, NEW s \in Seq(S), s # <<>>
    PROVE  /\ Head(s) \in S /\ Head(s) \in Range(s) /\ Tail(s) \in Seq(S)
           /\ IsInjective(s) => /\ IsInjective(Tail(s))
                                /\ Range(Tail(s)) = Range(s) \ {Head(s)}
<1>1. /\ Head(s) \in S /\ Tail(s) \in Seq(S) /\ Len(Tail(s)) = Len(s) - 1
      /\ \A i \in 1 .. Len(s) - 1 : Tail(s)[i] = s[i + 1]
      /\ Len(s) \in Nat \ {0} /\ Head(s) = s[1]
    BY HeadTailProperties, EmptySeq
<1>2. /\ Range(s) = {s[i] : i \in 1 .. Len(s)}
      /\ Range(Tail(s)) = {Tail(s)[i] : i \in 1 .. Len(s) - 1}
    BY <1>1, RangeEquality
<1>3. DOMAIN s = 1 .. Len(s) /\ DOMAIN Tail(s) = 1 .. Len(s) - 1
    BY <1>1, LenProperties
<1>4. Head(s) \in Range(s)
    BY <1>1, <1>2
<1>5. ASSUME IsInjective(s)
      PROVE  IsInjective(Tail(s)) /\ Range(Tail(s)) = Range(s) \ {Head(s)}
    <2>1. \A i, j \in 1 .. Len(s) : s[i] = s[j] => i = j
        BY <1>5, <1>3 DEF IsInjective
    <2>2. IsInjective(Tail(s))
        BY <2>1, <1>1, <1>3 DEF IsInjective
    <2>3. ASSUME NEW x \in Range(Tail(s)) PROVE x \in Range(s) \ {Head(s)}
        <3>1. PICK i \in 1 .. Len(s) - 1 : x = Tail(s)[i]
            BY <1>2
        <3>2. x = s[i + 1] /\ i + 1 \in 1 .. Len(s) /\ i + 1 # 1 /\ 1 \in 1 .. Len(s)
            BY <3>1, <1>1
        <3>3. QED BY <3>2, <2>1, <1>1, <1>2
    <2>4. ASSUME NEW x \in Range(s) \ {Head(s)} PROVE x \in Range(Tail(s))
        <3>1. PICK i \in 1 .. Len(s) : x = s[i]
            BY <1>2
        <3>2. i - 1 \in 1 .. Len(s) - 1
            BY <3>1, <1>1
        <3>3. x = Tail(s)[i - 1]
            BY <3>1, <3>2, <1>1
        <3>4. QED BY <3>2, <3>3, <1>2
    <2>5. QED BY <2>2, <2>3, <2>4
<1>6. QED BY <1>1, <1>4, <1>5

-----------------------------------------------------------------------------
(* Only, the loop that selects entries of the list, is defined by          *)
(* recursion over the length of the list.  Induction over the naturals, as *)
(* a statement about sets, follows from their order being well founded.    *)
LEMMA SetInduction ==
    ASSUME NEW T \in SUBSET Nat, 0 \in T, \A n \in T : n + 1 \in T
    PROVE  \A n \in Nat : n \in T
<1> SUFFICES ASSUME Nat \ T # {} PROVE FALSE
    OBVIOUS
<1>1. PICK R : R = OpToRel(<, Nat)
    OBVIOUS
<1>2. PICK x \in Nat \ T : \A y \in Nat \ T : <<y, x>> \notin R
    <2>1. IsWellFoundedOn(R, Nat)
        BY <1>1, NatLessThanWellFounded
    <2>2. QED BY <2>1, WFMin
<1>3. \A y \in Nat \ T : ~(y < x)
    BY <1>1, <1>2 DEF OpToRel
<1>4. x # 0 /\ x - 1 \in T
    BY <1>3
<1>5. QED BY <1>4

(* The recursion defines a function ...                                    *)
LEMMA OnlyIsDefined ==
    ASSUME NEW S, NEW s \in Seq(S), NEW P
    PROVE  \E f : /\ Only(s, P) = f[Len(s)] /\ f[0] = <<>>
                  /\ \A n \in 1 .. Len(s) :
                        f[n] = IF s[n] \in P THEN Append(f[n - 1], s[n]) ELSE f[n - 1]
<1> DEFINE Step(f, n) == IF n = 0 THEN <<>>
                         ELSE IF s[n] \in P THEN Append(f[n - 1], s[n]) ELSE f[n - 1]
<1> DEFINE Defined(n) == \E f : f = [k \in 0 .. n |-> Step(f, k)]
<1>1. Len(s) \in Nat
    OBVIOUS
<1>2. Defined(0)
    <2>1. [k \in 0 .. 0 |-> <<>>] = [k \in 0 .. 0 |-> Step([j \in 0 .. 0 |-> <<>>], k)]
        OBVIOUS
    <2>2. QED BY <2>1
<1>3. ASSUME NEW n \in Nat, Defined(n) PROVE Defined(n + 1)
    <2>1. PICK f : f = [k \in 0 .. n |-> Step(f, k)]
        BY <1>3
    <2>2. ASSUME NEW k \in 0 .. n PROVE f[k] = Step(f, k)
        BY <2>1
    <2>3. PICK g : g = [k \in 0 .. n + 1 |-> IF k = n + 1 THEN Step(f, k) ELSE f[k]]
        OBVIOUS
    <2>4. \A k \in 0 .. n : g[k] = f[k]
        BY <2>3
    <2>5. ASSUME NEW k \in 0 .. n + 1 PROVE g[k] = Step(f, k)
        <3> HIDE DEF Step
        <3>1. CASE k = n + 1
            BY <3>1, <2>3
        <3>2. CASE k # n + 1
            BY <3>2, <2>2, <2>4
        <3>3. QED BY <3>1, <3>2
    <2>6. ASSUME NEW k \in 0 .. n + 1 PROVE g[k] = Step(g, k)
        <3>1. CASE k = 0
            BY <3>1, <2>5
        <3>2. CASE k # 0
            <4>1. k - 1 \in 0 .. n /\ g[k - 1] = f[k - 1]
                BY <3>2, <2>4
            <4>2. QED BY <3>2, <4>1, <2>5
        <3>3. QED BY <3>1, <3>2
    <2>7. g = [k \in 0 .. n + 1 |-> Step(g, k)]
        BY <2>3, <2>6
    <2>8. QED BY <2>7
<1>4. Defined(Len(s))
    <2> HIDE DEF Defined
    <2>1. PICK T : T = {n \in Nat : Defined(n)}
        OBVIOUS
    <2>2. T \in SUBSET Nat /\ 0 \in T /\ \A n \in T : n + 1 \in T
        BY <1>2, <1>3, <2>1
    <2>3. Len(s) \in T
        BY <2>2, <1>1, SetInduction
    <2>4. QED BY <2>1, <2>3
<1> DEFINE only == CHOOSE f : f = [k \in 0 .. Len(s) |-> Step(f, k)]
<1>5. Only(s, P) = only[Len(s)]
    BY DEF Only
<1>6. only = [k \in 0 .. Len(s) |-> Step(only, k)]
    BY <1>4
<1>7. PICK f : f = only
    OBVIOUS
<1> HIDE DEF only
<1>8. f = [k \in 0 .. Len(s) |-> Step(f, k)]
    BY <1>6, <1>7
<1>9. ASSUME NEW n \in 0 .. Len(s) PROVE f[n] = Step(f, n)
    BY <1>8
<1>10. QED BY <1>1, <1>5, <1>7, <1>9

(* ... which selects each entry at most once, and those asked for.         *)
LEMMA OnlyElements ==
    ASSUME NEW S, NEW s \in Seq(S), NEW P
    PROVE  /\ Only(s, P) \in Seq(S)
           /\ Range(Only(s, P)) = Range(s) \cap P
           /\ IsInjective(s) => IsInjective(Only(s, P))
<1>1. PICK f : /\ Only(s, P) = f[Len(s)] /\ f[0] = <<>>
               /\ \A n \in 1 .. Len(s) :
                     f[n] = IF s[n] \in P THEN Append(f[n - 1], s[n]) ELSE f[n - 1]
    BY OnlyIsDefined
<1> DEFINE Seen(n) == {s[i] : i \in 1 .. n}
<1> DEFINE Right(n) == /\ f[n] \in Seq(S)
                       /\ Range(f[n]) = Seen(n) \cap P
                       /\ IsInjective(s) => IsInjective(f[n])
<1>2. Len(s) \in Nat /\ \A i \in 1 .. Len(s) : s[i] \in S
    OBVIOUS
<1>3. Right(0)
    BY <1>1 DEF Range, IsInjective
<1>4. ASSUME NEW n \in Nat, n + 1 <= Len(s), Right(n) PROVE Right(n + 1)
    <2>1. f[n + 1] = IF s[n + 1] \in P THEN Append(f[n], s[n + 1]) ELSE f[n]
        BY <1>1, <1>2, <1>4
    <2>2. Seen(n + 1) = Seen(n) \cup {s[n + 1]}
        OBVIOUS
    <2>3. ASSUME IsInjective(s) PROVE s[n + 1] \notin Seen(n)
        BY <1>2, <1>4, <2>3 DEF IsInjective
    <2>4. s[n + 1] \in S
        BY <1>2, <1>4
    <2> HIDE DEF Seen
    <2>5. QED BY <1>4, <2>1, <2>2, <2>3, <2>4, AppendElement
<1>5. Right(Len(s))
    <2> HIDE DEF Right
    <2>1. PICK T : T = {n \in Nat : n <= Len(s) => Right(n)}
        OBVIOUS
    <2>2. T \in SUBSET Nat /\ 0 \in T /\ \A n \in T : n + 1 \in T
        BY <1>2, <1>3, <1>4, <2>1
    <2>3. Len(s) \in T
        BY <2>2, <1>2, SetInduction
    <2>4. QED BY <1>2, <2>1, <2>3
<1>6. Seen(Len(s)) = Range(s)
    BY <1>2 DEF Range
<1>7. QED BY <1>1, <1>5, <1>6

-----------------------------------------------------------------------------
(* A timer is in the list, in the batch or on the stack, and there once.   *)
ListInv ==
    /\ IsInjective(timerCallbacks) /\ IsInjective(toExecute)
    /\ Listed \cap Batched = {}
    /\ current \notin Listed \cup Batched
    /\ \A c \in Listed \cup Batched \cup intervals \cup {current} : c <= created

PhaseInv ==
    /\ pc \notin {"timers", "call"} => toExecute = <<>>
    /\ current # NoTimer <=> pc = "call"

(* What the clear functions leave behind for executeTimerCallbacks: the    *)
(* flag of an entry of the list, and the id of an interval that is being   *)
(* executed, with which only a cleared interval can be stopped.            *)
ClearInv ==
    /\ \A c \in cleared : c <= created
    /\ \A c \in cleared \cap Listed : c \in cancelled
    /\ \A c \in cleared \cap intervals : c \in Batched \cup {current} => c \in cancelledTimerIds
    /\ \A c \in cancelledTimerIds \cap intervals : c \in cleared \cup early
    /\ \A c \in cancelledTimerIds : c <= created \/ c \in early

IInv == TypeOK /\ ListInv /\ PhaseInv /\ ClearInv /\ ProtectedWhilePending

LEMMA EmptyList == Range(<<>>) = {} /\ IsInjective(<<>>) /\ \A S : <<>> \in Seq(S)
BY DEF Range, IsInjective

(* The timers in the list, in the batch and on the stack are timers.       *)
LEMMA TypedSets ==
    ASSUME TypeOK
    PROVE  /\ Listed \subseteq Timer /\ Batched \subseteq Timer
           /\ Timer \subseteq Int /\ NoTimer \notin Timer /\ NoTimer \in Int
           /\ created \in Int /\ current \in Int
BY MaxTimersAssumption, RangeOfSeq DEF TypeOK, Listed, Batched, Timer, NoTimer

LEMMA InitEstablishes == Init => IInv
<1> SUFFICES ASSUME Init PROVE IInv
    OBVIOUS
<1>1. Listed = {} /\ Batched = {}
    BY EmptyList DEF Init, Listed, Batched
<1>2. TypeOK
    BY <1>1, EmptyList, MaxTimersAssumption, MaxReloadsAssumption
    DEF Init, TypeOK, Phase, Timer, NoTimer
<1>3. ListInv /\ PhaseInv /\ ClearInv
    BY <1>1, EmptyList DEF Init, ListInv, PhaseInv, ClearInv, NoTimer
<1>4. ProtectedWhilePending
    BY <1>1 DEF Init, ProtectedWhilePending, Timer, NoTimer
<1>5. QED BY <1>2, <1>3, <1>4 DEF IInv

-----------------------------------------------------------------------------
LEMMA CreateStep == ASSUME IInv, NEW b \in BOOLEAN, CreateTimer(b) PROVE IInv'
<1>1. PICK n : n = created + 1
    OBVIOUS
<1>2. /\ created' = n /\ InJS /\ created < MaxTimers
      /\ intervals' = IF b THEN intervals \cup {n} ELSE intervals
      /\ timerCallbacks' = Append(timerCallbacks, n)
      /\ protects' = [protects EXCEPT ![n] = @ + 1]
      /\ UNCHANGED <<pc, base, reloads, cancelled, toExecute, current, cancelledTimerIds,
                     cleared, missed, early>>
    BY <1>1 DEF CreateTimer
<1>3. /\ Listed \subseteq Timer /\ Batched \subseteq Timer /\ Timer \subseteq Int
      /\ NoTimer \notin Timer /\ created \in Int /\ current \in Int
    BY TypedSets DEF IInv
<1>4. n \in Timer /\ created' \in 0 .. MaxTimers /\ base \in 0 .. created'
    BY <1>1, <1>2, MaxTimersAssumption DEF IInv, TypeOK, Timer
<1>5. /\ \A c \in Listed \cup Batched \cup intervals \cup {current} : c <= created
      /\ intervals \subseteq Timer
    BY DEF IInv, TypeOK, ListInv
<1>6. n \notin Listed /\ n \notin Batched /\ n # current /\ n \notin intervals
    BY <1>1, <1>3, <1>5
<1>7. /\ timerCallbacks' \in Seq(Timer) /\ Listed' = Listed \cup {n} /\ Batched' = Batched
      /\ IsInjective(timerCallbacks')
    BY <1>2, <1>4, <1>6, AppendElement DEF IInv, TypeOK, ListInv, Listed, Batched
<1>8. /\ cancelled \subseteq Listed /\ n \notin cancelled
      /\ protects \in [Timer -> Int]
    BY <1>6 DEF IInv, TypeOK
<1>9. intervals' \in {intervals, intervals \cup {n}}
    BY <1>2
<1>10. TypeOK'
    BY <1>2, <1>4, <1>7, <1>8, <1>9 DEF IInv, TypeOK
<1>11. ListInv'
    <2>1. \A c \in Listed' \cup Batched' \cup intervals' \cup {current'} : c <= created'
        BY <1>1, <1>2, <1>3, <1>4, <1>5, <1>7, <1>9
    <2>2. QED BY <2>1, <1>2, <1>6, <1>7 DEF IInv, ListInv
<1>12. PhaseInv'
    BY <1>2 DEF IInv, PhaseInv
<1>13. ClearInv'
    <2>1. n \notin cleared /\ (n \in cancelledTimerIds => n \in early)
        BY <1>1, <1>3 DEF IInv, ClearInv
    <2>2. \A c \in cleared \cup cancelledTimerIds : c <= created => c <= created'
        BY <1>1, <1>2, <1>3 DEF IInv, TypeOK, Timer
    <2>3. QED BY <2>1, <2>2, <1>2, <1>6, <1>7, <1>9 DEF IInv, ClearInv
<1>14. ProtectedWhilePending'
    <2>1. protects'[n] = protects[n] + 1 /\ \A c \in Timer \ {n} : protects'[c] = protects[c]
        BY <1>2, <1>4, <1>8
    <2>2. QED BY <2>1, <1>2, <1>4, <1>6, <1>7, <1>8 DEF IInv, ProtectedWhilePending
<1>15. QED BY <1>10, <1>11, <1>12, <1>13, <1>14 DEF IInv

(* The two clear functions.                                                *)
LEMMA ClearStep ==
    ASSUME IInv, NEW c \in Timer, ClearTimeout(c) \/ ClearInterval(c)
    PROVE  IInv'
<1>1. /\ UNCHANGED <<pc, created, base, reloads, intervals, timerCallbacks, toExecute, current>>
      /\ CancelEntry(c)
      /\ \/ cancelledTimerIds' = cancelledTimerIds /\ Remember(c, FALSE)
         \/ cancelledTimerIds' = cancelledTimerIds \cup {c} /\ Remember(c, TRUE)
    BY DEF ClearTimeout, ClearInterval
<1>2. /\ Listed \subseteq Timer /\ Batched \subseteq Timer /\ Timer \subseteq Int
      /\ NoTimer \notin Timer /\ created \in Int /\ current \in Int
    BY TypedSets DEF IInv
<1>3. Listed' = Listed /\ Batched' = Batched
    BY <1>1 DEF Listed, Batched
<1>4. /\ cancelled \subseteq Listed /\ protects \in [Timer -> Int]
      /\ \A d \in Listed : d <= created /\ d \notin Batched /\ d # current
    BY DEF IInv, TypeOK, ListInv
<1>5. /\ cancelled' \subseteq Listed /\ protects' \in [Timer -> Int]
      /\ c \in Listed => c \in cancelled'
      /\ cancelled \subseteq cancelled' /\ cancelled' \subseteq cancelled \cup {c}
    BY <1>1, <1>4 DEF CancelEntry
<1>6. /\ cleared \subseteq cleared' /\ cleared' \subseteq cleared \cup {c}
      /\ early \subseteq early' /\ early' \subseteq early \cup {c}
      /\ c \in cleared' \ cleared => c <= created
      /\ missed' \subseteq missed \cup {c}
    BY <1>1, <1>4 DEF Remember
<1>7. TypeOK'
    BY <1>1, <1>3, <1>5, <1>6 DEF IInv, TypeOK
<1>8. ListInv' /\ PhaseInv'
    BY <1>1, <1>3 DEF IInv, ListInv, PhaseInv
<1>9. ClearInv'
    <2>1. c \in intervals /\ c \in cleared' \ cleared /\ c \in Batched \cup {current}
              => c \in cancelledTimerIds'
        BY <1>1 DEF Remember, NotFound
    <2>2. c \in cancelledTimerIds' \ cancelledTimerIds
              => IF c <= created THEN c \in intervals => c \in cleared' ELSE c \in early'
        BY <1>1, <1>2 DEF Remember, NotFound
    <2>3. \A d \in intervals : d <= created
        BY DEF IInv, ListInv
    <2>4. cancelledTimerIds \subseteq cancelledTimerIds'
          /\ cancelledTimerIds' \subseteq cancelledTimerIds \cup {c}
        BY <1>1
    <2>5. \A d \in cleared' : d <= created
        BY <1>6 DEF IInv, ClearInv
    <2>6. \A d \in cleared' \cap Listed : d \in cancelled'
        BY <1>5, <1>6 DEF IInv, ClearInv
    <2>7. \A d \in cleared' \cap intervals : d \in Batched \cup {current} => d \in cancelledTimerIds'
        BY <1>4, <1>6, <2>1, <2>4 DEF IInv, ClearInv
    <2>8. \A d \in cancelledTimerIds' \cap intervals : d \in cleared' \cup early'
        BY <1>6, <2>2, <2>3, <2>4 DEF IInv, ClearInv
    <2>9. \A d \in cancelledTimerIds' : d <= created \/ d \in early'
        BY <1>6, <2>2, <2>4 DEF IInv, ClearInv
    <2>10. QED BY <1>1, <1>3, <2>5, <2>6, <2>7, <2>8, <2>9 DEF ClearInv
<1>10. ProtectedWhilePending'
    <2>1. CASE c \in Listed \ cancelled
        <3>1. /\ cancelled' = cancelled \cup {c}
              /\ protects'[c] = protects[c] - 1
              /\ \A d \in Timer \ {c} : protects'[d] = protects[d]
            BY <1>1, <1>4, <2>1 DEF CancelEntry
        <3>2. QED BY <1>1, <1>3, <1>4, <2>1, <3>1 DEF IInv, ProtectedWhilePending
    <2>2. CASE c \notin Listed \ cancelled
        BY <1>1, <1>3, <2>2 DEF CancelEntry, IInv, ProtectedWhilePending
    <2>3. QED BY <2>1, <2>2
<1>11. QED BY <1>7, <1>8, <1>9, <1>10 DEF IInv

(* The list is dropped, on a reload and at the end of the program.         *)
LEMMA DropStep == ASSUME IInv, ReloadScript \/ Shutdown PROVE IInv'
<1>1. /\ pc = "idle" /\ pc' \in {"script", "down"}
      /\ base' \in {base, created} /\ reloads' \in 0 .. MaxReloads
      /\ timerCallbacks' = <<>> /\ cancelled' = {} /\ cancelledTimerIds' = {}
      /\ protects' = [c \in Timer |-> protects[c] - IF c \in Listed \ cancelled THEN 1 ELSE 0]
      /\ UNCHANGED <<created, intervals, toExecute, current>>
      /\ \/ cleared' = {} /\ missed' = {} /\ early' = {}
         \/ UNCHANGED <<cleared, missed, early>>
    <2>1. CASE ReloadScript
        BY <2>1, MaxReloadsAssumption DEF ReloadScript, IInv, TypeOK
    <2>2. CASE Shutdown
        BY <2>2 DEF Shutdown, IInv, TypeOK
    <2>3. QED BY <2>1, <2>2
<1>2. /\ Listed \subseteq Timer /\ Timer \subseteq Int
      /\ NoTimer \notin Timer /\ created \in Int
    BY TypedSets DEF IInv
<1>3. Listed' = {} /\ Batched = {} /\ Batched' = {} /\ current = NoTimer
    BY <1>1, EmptyList DEF IInv, PhaseInv, Listed, Batched
<1>4. TypeOK'
    <2>1. base' \in 0 .. created'
        BY <1>1 DEF IInv, TypeOK
    <2>2. pc' \in Phase /\ protects' \in [Timer -> Int]
        BY <1>1 DEF IInv, TypeOK, Phase
    <2>3. QED BY <1>1, <1>3, <2>1, <2>2, EmptyList DEF IInv, TypeOK
<1>5. ListInv' /\ PhaseInv'
    BY <1>1, <1>3, EmptyList DEF IInv, ListInv, PhaseInv
<1>6. ClearInv'
    <2>1. intervals \subseteq Timer
        BY DEF IInv, TypeOK
    <2>2. QED BY <1>1, <1>2, <1>3, <2>1 DEF IInv, ClearInv
<1>7. ProtectedWhilePending'
    BY <1>1, <1>2, <1>3 DEF IInv, TypeOK, ProtectedWhilePending
<1>8. QED BY <1>4, <1>5, <1>6, <1>7 DEF IInv

(* The steps that change nothing but the phase.                            *)
LEMMA PhaseStep == ASSUME IInv, ReturnToHost \/ TimersDone \/ UNCHANGED vars PROVE IInv'
<1>1. /\ UNCHANGED <<created, base, reloads, intervals, timerCallbacks, cancelled, toExecute,
                     current, cancelledTimerIds, protects, cleared, missed, early>>
      /\ \/ pc' = pc
         \/ pc # "call" /\ pc' \in {"idle", "frame"} /\ toExecute = <<>>
    BY DEF ReturnToHost, TimersDone, vars, IInv, PhaseInv
<1>2. TypeOK' /\ PhaseInv'
    BY <1>1 DEF IInv, TypeOK, Phase, PhaseInv, Listed
<1>3. ListInv' /\ ClearInv' /\ ProtectedWhilePending'
    BY <1>1 DEF IInv, ListInv, ClearInv, ProtectedWhilePending, Listed, Batched
<1>4. QED BY <1>2, <1>3 DEF IInv

-----------------------------------------------------------------------------
(* executeTimerCallbacks splits the list ...                               *)
LEMMA CollectIs ==
    ASSUME IInv, CollectExpired
    PROVE  /\ Listed' = Listed \ (Batched' \cup cancelled)
           /\ Batched' \subseteq Listed \ cancelled
           /\ timerCallbacks' \in Seq(Timer) /\ IsInjective(timerCallbacks')
           /\ toExecute' \in Seq(Timer) /\ IsInjective(toExecute')
<1>1. PICK expired \in SUBSET (Listed \ cancelled) :
            /\ toExecute' = Only(timerCallbacks, expired)
            /\ timerCallbacks' = Only(timerCallbacks, Listed \ (expired \cup cancelled))
    BY DEF CollectExpired
<1>2. timerCallbacks \in Seq(Timer) /\ IsInjective(timerCallbacks)
    BY DEF IInv, TypeOK, ListInv
<1>3. /\ toExecute' \in Seq(Timer) /\ IsInjective(toExecute')
      /\ Range(toExecute') = Listed \cap expired
    BY <1>1, <1>2, OnlyElements DEF Listed
<1>4. /\ timerCallbacks' \in Seq(Timer) /\ IsInjective(timerCallbacks')
      /\ Range(timerCallbacks') = Listed \cap (Listed \ (expired \cup cancelled))
    BY <1>1, <1>2, OnlyElements DEF Listed
<1>5. Batched' = expired
    BY <1>3 DEF Batched
<1>6. Listed' = Listed \ (expired \cup cancelled)
    BY <1>4 DEF Listed
<1>7. QED BY <1>3, <1>4, <1>5, <1>6

LEMMA CollectStep == ASSUME IInv, CollectExpired PROVE IInv'
<1>1. /\ pc = "idle" /\ pc' = "timers" /\ cancelled' = {}
      /\ UNCHANGED <<created, base, reloads, intervals, current, cancelledTimerIds, protects,
                     cleared, missed, early>>
    BY DEF CollectExpired
<1>2. /\ Listed' = Listed \ (Batched' \cup cancelled)
      /\ Batched' \subseteq Listed \ cancelled
      /\ timerCallbacks' \in Seq(Timer) /\ IsInjective(timerCallbacks')
      /\ toExecute' \in Seq(Timer) /\ IsInjective(toExecute')
    BY CollectIs
<1>3. Batched = {} /\ current = NoTimer
    BY <1>1, EmptyList DEF IInv, PhaseInv, Batched
<1>4. TypeOK'
    BY <1>1, <1>2 DEF IInv, TypeOK, Phase
<1>5. ListInv' /\ PhaseInv'
    BY <1>1, <1>2, <1>3 DEF IInv, ListInv, PhaseInv
<1>6. ClearInv'
    <2>1. NoTimer \notin intervals
        BY TypedSets DEF IInv, TypeOK
    <2>2. QED BY <1>1, <1>2, <1>3, <2>1 DEF IInv, ClearInv
<1>7. ProtectedWhilePending'
    BY <1>1, <1>2, <1>3 DEF IInv, ProtectedWhilePending
<1>8. QED BY <1>4, <1>5, <1>6, <1>7 DEF IInv

(* ... and calls the expired timers, one after the other.                  *)
LEMMA CallIs ==
    ASSUME IInv, CallTimer
    PROVE  /\ current' \in Timer /\ current' \in Batched
           /\ Batched' = Batched \ {current'} /\ Listed' = Listed
           /\ toExecute' \in Seq(Timer) /\ IsInjective(toExecute')
BY TakeHead DEF CallTimer, IInv, TypeOK, ListInv, Batched, Listed

LEMMA CallStep == ASSUME IInv, CallTimer PROVE IInv'
<1>1. /\ pc = "timers" /\ pc' = "call"
      /\ UNCHANGED <<created, base, reloads, intervals, timerCallbacks, cancelled,
                     cancelledTimerIds, protects, cleared, missed, early>>
    BY DEF CallTimer
<1>2. /\ current' \in Timer /\ current' \in Batched
      /\ Batched' = Batched \ {current'} /\ Listed' = Listed
      /\ toExecute' \in Seq(Timer) /\ IsInjective(toExecute')
    BY CallIs
<1>3. current = NoTimer /\ NoTimer \notin Timer
    BY <1>1, TypedSets DEF IInv, PhaseInv
<1>4. TypeOK'
    BY <1>1, <1>2 DEF IInv, TypeOK, Phase
<1>5. ListInv' /\ PhaseInv'
    BY <1>1, <1>2, <1>3 DEF IInv, ListInv, PhaseInv
<1>6. ClearInv'
    BY <1>1, <1>2 DEF IInv, ClearInv
<1>7. ProtectedWhilePending'
    BY <1>1, <1>2, <1>3 DEF IInv, ProtectedWhilePending
<1>8. QED BY <1>4, <1>5, <1>6, <1>7 DEF IInv

(* After the call the timer is put back or released.                       *)
LEMMA ReturnStep == ASSUME IInv, ReturnFromTimer PROVE IInv'
<1>0. PICK c : c = current
    OBVIOUS
<1>1. /\ pc = "call" /\ pc' = "timers" /\ current' = NoTimer
      /\ UNCHANGED <<created, base, reloads, intervals, cancelled, toExecute, cleared, missed, early>>
    BY DEF ReturnFromTimer
<1>2. /\ Listed \subseteq Timer /\ Batched \subseteq Timer
      /\ NoTimer \notin Timer /\ NoTimer \in Int /\ Timer \subseteq Int /\ created \in Int
    BY TypedSets DEF IInv
<1>3. /\ c \in Timer /\ c \notin Listed /\ c \notin Batched /\ c <= created
      /\ cancelled \subseteq Listed /\ intervals \subseteq Timer
      /\ protects \in [Timer -> Int] /\ cancelledTimerIds \subseteq Timer
    BY <1>0, <1>1 DEF IInv, TypeOK, ListInv, PhaseInv
<1>4. Batched' = Batched
    BY <1>1 DEF Batched
<1>5. PhaseInv'
    BY <1>1 DEF IInv, PhaseInv
<1>6. NoTimer <= created
    BY DEF IInv, TypeOK, NoTimer
<1>7. CASE c \in intervals /\ c \notin cancelledTimerIds
    <2>1. timerCallbacks' = Append(timerCallbacks, c) /\ UNCHANGED <<protects, cancelledTimerIds>>
        BY <1>0, <1>7 DEF ReturnFromTimer
    <2>2. /\ timerCallbacks' \in Seq(Timer) /\ Listed' = Listed \cup {c}
          /\ IsInjective(timerCallbacks')
        BY <2>1, <1>3, AppendElement DEF IInv, TypeOK, ListInv, Listed
    <2>3. c \notin cleared
        BY <1>0, <1>7 DEF IInv, ClearInv
    <2>4. TypeOK'
        BY <1>1, <1>3, <2>1, <2>2 DEF IInv, TypeOK, Phase
    <2>5. ListInv'
        BY <1>1, <1>2, <1>3, <1>4, <1>6, <2>2 DEF IInv, ListInv
    <2>6. ClearInv'
        BY <1>1, <1>2, <1>3, <1>4, <2>1, <2>2, <2>3 DEF IInv, ClearInv
    <2>7. ProtectedWhilePending'
        BY <1>0, <1>1, <1>2, <1>3, <1>4, <2>1, <2>2 DEF IInv, ProtectedWhilePending
    <2>8. QED BY <1>5, <2>4, <2>5, <2>6, <2>7 DEF IInv
<1>8. CASE ~(c \in intervals /\ c \notin cancelledTimerIds)
    <2>1. /\ timerCallbacks' = timerCallbacks /\ protects' = [protects EXCEPT ![c] = @ - 1]
          /\ cancelledTimerIds' = IF c \in intervals THEN cancelledTimerIds \ {c}
                                  ELSE cancelledTimerIds
        BY <1>0, <1>8 DEF ReturnFromTimer
    <2>2. Listed' = Listed
        BY <2>1 DEF Listed
    <2>3. protects'[c] = protects[c] - 1 /\ \A d \in Timer \ {c} : protects'[d] = protects[d]
        BY <1>3, <2>1
    <2>4. cancelledTimerIds' \subseteq cancelledTimerIds
          /\ cancelledTimerIds \subseteq cancelledTimerIds' \cup {c}
        BY <2>1
    <2>5. TypeOK'
        BY <1>1, <1>3, <2>1, <2>2, <2>4 DEF IInv, TypeOK, Phase
    <2>6. ListInv'
        BY <1>1, <1>2, <1>3, <1>4, <1>6, <2>1, <2>2 DEF IInv, ListInv
    <2>7. ClearInv'
        BY <1>1, <1>2, <1>3, <1>4, <2>2, <2>4 DEF IInv, ClearInv
    <2>8. ProtectedWhilePending'
        BY <1>0, <1>1, <1>2, <1>3, <1>4, <2>2, <2>3 DEF IInv, ProtectedWhilePending
    <2>9. QED BY <1>5, <2>5, <2>6, <2>7, <2>8 DEF IInv
<1>9. QED BY <1>7, <1>8

LEMMA Preserved == IInv /\ [Next]_vars => IInv'
<1> SUFFICES ASSUME IInv, [Next]_vars PROVE IInv'
    OBVIOUS
<1>1. CASE SetTimeout \/ SetInterval
    BY <1>1, CreateStep DEF SetTimeout, SetInterval
<1>2. ASSUME NEW c \in Timer, ClearTimeout(c) \/ ClearInterval(c) PROVE IInv'
    BY <1>2, ClearStep
<1>3. CASE ReloadScript \/ Shutdown
    BY <1>3, DropStep
<1>4. CASE ReturnToHost \/ TimersDone \/ UNCHANGED vars
    BY <1>4, PhaseStep
<1>5. CASE CollectExpired
    BY <1>5, CollectStep
<1>6. CASE CallTimer
    BY <1>6, CallStep
<1>7. CASE ReturnFromTimer
    BY <1>7, ReturnStep
<1>8. QED
    BY <1>1, <1>2, <1>3, <1>4, <1>5, <1>6, <1>7 DEF Next, CallFromJS, LoopStep

-----------------------------------------------------------------------------
(* The inductive invariant holds throughout.                               *)
THEOREM Invariance == Spec => []IInv
BY InitEstablishes, Preserved, PTL DEF Spec

(* The variables of the fallback timers keep their types.                  *)
THEOREM Typing == Spec => []TypeOK
<1>1. IInv => TypeOK
    BY DEF IInv
<1>2. QED BY <1>1, Invariance, PTL

(* A callback is protected exactly while its timer is listed and not       *)
(* cancelled, waits in the batch or runs: clearTimeout, clearInterval,     *)
(* executeTimerCallbacks, clearAllTimers and shutdown never release it     *)
(* twice, nor forget to.                                                   *)
THEOREM TimerProtection == Spec => []ProtectedWhilePending
<1>1. IInv => ProtectedWhilePending
    BY DEF IInv
<1>2. QED BY <1>1, Invariance, PTL

-----------------------------------------------------------------------------
(***************************************************************************)
(* The timers implement TimerService: the initial state is an initial      *)
(* state of the service, and every step is a step of the service or        *)
(* changes nothing the service knows of.                                   *)
(***************************************************************************)
LEMMA InitRefines == Init => Service!Init
<1> SUFFICES ASSUME Init PROVE Service!Init
    OBVIOUS
<1>1. ASSUME NEW c \in Timer PROVE StatusOf(c) = "unset"
    BY DEF Init, Timer, StatusOf
<1>2. QED BY <1>1 DEF Service!Init, Init

(* Where the statuses do not change, and what else the service knows of,   *)
(* the service stutters.                                                   *)
LEMMA StutterRefines ==
    ASSUME \A c \in Timer : StatusOf(c)' = StatusOf(c), pc # "down", pc' # "down",
           UNCHANGED <<intervals, cleared, missed, early, current>>
    PROVE  UNCHANGED Service!vars
BY DEF Service!vars

LEMMA CreateRefines ==
    ASSUME IInv, NEW b \in BOOLEAN, CreateTimer(b)
    PROVE  \E c \in Timer : Service!Set(c)
<1>1. PICK n : n = created + 1
    OBVIOUS
<1>2. /\ created' = n /\ pc # "down" /\ pc' = pc /\ created < MaxTimers
      /\ intervals' \in {intervals, intervals \cup {n}}
      /\ timerCallbacks' = Append(timerCallbacks, n)
      /\ UNCHANGED <<cancelled, toExecute, current, cancelledTimerIds, cleared, missed, early>>
    BY <1>1 DEF CreateTimer, InJS
<1>3. /\ Listed \subseteq Timer /\ Batched \subseteq Timer /\ Timer \subseteq Int
      /\ NoTimer \notin Timer /\ created \in Int /\ current \in Int
    BY TypedSets DEF IInv
<1>4. n \in Timer
    BY <1>1, <1>2, MaxTimersAssumption DEF IInv, TypeOK, Timer
<1>5. n \notin Listed /\ n \notin Batched /\ n # current /\ n \notin intervals
    <2>1. \A c \in Listed \cup Batched \cup intervals \cup {current} : c <= created
        BY DEF IInv, ListInv
    <2>2. QED BY <1>1, <1>3, <2>1
<1>6. Listed' = Listed \cup {n} /\ Batched' = Batched
    BY <1>2, <1>4, <1>5, AppendElement DEF IInv, TypeOK, ListInv, Listed, Batched
<1>7. n \notin cancelled
    BY <1>5 DEF IInv, TypeOK
<1>8. StatusOf(n) = "unset" /\ StatusOf(n)' = "waiting"
    BY <1>1, <1>2, <1>3, <1>5, <1>6, <1>7 DEF StatusOf
<1>9. ASSUME NEW c \in Timer, c # n PROVE StatusOf(c)' = StatusOf(c)
    <2>1. c > created' <=> c > created
        BY <1>1, <1>2, <1>3, <1>9
    <2>2. c \in intervals' <=> c \in intervals
        BY <1>2, <1>9
    <2>3. QED BY <1>2, <1>6, <1>9, <2>1, <2>2 DEF StatusOf
<1>10. [c \in Timer |-> StatusOf(c)]' = [[c \in Timer |-> StatusOf(c)] EXCEPT ![n] = "waiting"]
    BY <1>4, <1>8, <1>9
<1>11. Service!Set(n)
    BY <1>2, <1>4, <1>8, <1>10 DEF Service!Set
<1>12. QED BY <1>4, <1>11

(* A call of a clear function clears the timer, misses it, notes an id     *)
(* that was not given out yet, or has no effect.                                        *)
LEMMA ClearRefines ==
    ASSUME IInv, NEW c \in Timer, ClearTimeout(c) \/ ClearInterval(c)
    PROVE  \/ Service!Clear(c) \/ Service!ClearMissed(c) \/ Service!ClearEarly(c)
           \/ UNCHANGED Service!vars
<1>1. /\ pc # "down" /\ pc' = pc
      /\ UNCHANGED <<created, intervals, timerCallbacks, toExecute, current>>
      /\ CancelEntry(c)
      /\ \/ cancelledTimerIds' = cancelledTimerIds /\ Remember(c, FALSE)
         \/ cancelledTimerIds' = cancelledTimerIds \cup {c} /\ Remember(c, TRUE)
    BY DEF ClearTimeout, ClearInterval, InJS
<1>2. Listed' = Listed /\ Batched' = Batched
    BY <1>1 DEF Listed, Batched
<1>3. /\ Timer \subseteq Int /\ created \in Int /\ cancelled \subseteq Listed
      /\ \A d \in Listed : d \notin Batched /\ d # current
      /\ \A d \in Listed \cup Batched \cup {current} : d <= created
    BY TypedSets DEF IInv, TypeOK, ListInv
<1>4. /\ cancelled' = IF c \in Listed THEN cancelled \cup {c} ELSE cancelled
    BY <1>1, <1>3 DEF CancelEntry
<1>5. ASSUME NEW d \in Timer, d # c PROVE StatusOf(d)' = StatusOf(d)
    <2>1. /\ d \in Listed' \ cancelled' <=> d \in Listed \ cancelled
          /\ d \in cancelledTimerIds' <=> d \in cancelledTimerIds
        BY <1>1, <1>2, <1>4, <1>5
    <2>2. QED BY <1>1, <1>2, <2>1 DEF StatusOf
<1>6. CASE c > created
    <2>1. c \notin Listed /\ c \notin Batched /\ c # current
        BY <1>3, <1>6
    <2>2. StatusOf(c) = "unset" /\ StatusOf(c)' = "unset"
        BY <1>1, <1>6 DEF StatusOf
    <2>3. \A d \in Timer : StatusOf(d)' = StatusOf(d)
        BY <1>5, <2>2
    <2>4. cleared' = cleared /\ missed' = missed
        BY <1>1, <1>3, <1>6, <2>1 DEF Remember, NotFound
    <2>5. early' = early \cup {c} \/ early' = early
        BY <1>1 DEF Remember
    <2>6. CASE early' = early
        BY <1>1, <2>3, <2>4, <2>6, StutterRefines
    <2>7. CASE early' = early \cup {c}
        BY <1>1, <2>2, <2>3, <2>4, <2>7 DEF Service!ClearEarly
    <2>8. QED BY <2>5, <2>6, <2>7
<1>7. CASE c <= created
    <2>1. /\ early' = early
          /\ \/ cleared' = cleared \cup {c} /\ missed' = missed
             \/ /\ cleared' = cleared /\ missed' = missed \cup {c}
                /\ c \in intervals \cap (Batched \cup {current})
                /\ cancelledTimerIds' = cancelledTimerIds
        BY <1>1, <1>3, <1>7 DEF Remember, NotFound
    <2>2. ~(c > created) /\ ~(c > created')
        BY <1>1, <1>3, <1>7
    <2>3. StatusOf(c) # "unset"
        BY <1>1, <2>2 DEF StatusOf
    <2>4. CASE cleared' = cleared \cup {c} /\ missed' = missed
        <3>1. StatusOf(c)' = IF StatusOf(c) = "waiting" THEN "over" ELSE StatusOf(c)
            <4>1. CASE c \in Batched
                BY <1>1, <1>2, <2>2, <4>1 DEF StatusOf
            <4>2. CASE c \in Listed
                BY <1>1, <1>2, <1>3, <1>4, <2>2, <4>2 DEF StatusOf
            <4>3. CASE c \notin Batched /\ c \notin Listed
                <5>1. CASE c \in intervals /\ c \notin cleared
                    <6>1. c = current => c \in cancelledTimerIds'
                        BY <1>1, <2>4, <4>3, <5>1 DEF Remember, NotFound
                    <6>2. QED BY <1>1, <1>2, <2>2, <4>3, <6>1 DEF StatusOf
                <5>2. CASE c \in intervals /\ c \in cleared
                    <6>1. c = current => c \in cancelledTimerIds /\ c \in cancelledTimerIds'
                        BY <1>1, <5>2 DEF IInv, ClearInv
                    <6>2. QED BY <1>1, <1>2, <2>2, <4>3, <6>1 DEF StatusOf
                <5>3. CASE c \notin intervals
                    BY <1>1, <1>2, <2>2, <4>3, <5>3 DEF StatusOf
                <5>4. QED BY <5>1, <5>2, <5>3
            <4>4. QED BY <4>1, <4>2, <4>3
        <3>2. [d \in Timer |-> StatusOf(d)]'
              = IF [d \in Timer |-> StatusOf(d)][c] = "waiting"
                THEN [[d \in Timer |-> StatusOf(d)] EXCEPT ![c] = "over"]
                ELSE [d \in Timer |-> StatusOf(d)]
            BY <1>5, <3>1
        <3>3. Service!Clear(c)
            BY <1>1, <2>1, <2>3, <2>4, <3>2 DEF Service!Clear
        <3>4. QED BY <3>3
    <2>5. CASE /\ cleared' = cleared /\ missed' = missed \cup {c}
               /\ c \in intervals \cap (Batched \cup {current})
               /\ cancelledTimerIds' = cancelledTimerIds
        <3>1. c \notin Listed
            BY <1>3, <2>5
        <3>2. StatusOf(c)' = StatusOf(c)
            BY <1>1, <1>2, <2>5, <3>1 DEF StatusOf
        <3>3. \A d \in Timer : StatusOf(d)' = StatusOf(d)
            BY <1>5, <3>2
        <3>4. StatusOf(c) = "due" \/ current = c
            BY <1>1, <2>2, <2>5 DEF StatusOf
        <3>5. Service!ClearMissed(c)
            BY <1>1, <2>1, <2>5, <3>3, <3>4 DEF Service!ClearMissed
        <3>6. QED BY <3>5
    <2>6. QED BY <2>1, <2>4, <2>5
<1>8. QED BY <1>3, <1>6, <1>7

LEMMA CollectRefines ==
    ASSUME IInv, CollectExpired
    PROVE  \E S \in SUBSET Timer : Service!Expire(S)
<1>1. /\ pc = "idle" /\ pc' = "timers" /\ cancelled' = {}
      /\ UNCHANGED <<created, intervals, current, cancelledTimerIds, cleared, missed, early>>
    BY DEF CollectExpired
<1>2. PICK S : S = Batched'
    OBVIOUS
<1>3. Listed' = Listed \ (S \cup cancelled) /\ S \subseteq Listed \ cancelled /\ S \subseteq Timer
    BY <1>2, CollectIs, TypedSets DEF IInv
<1>4. Batched = {} /\ \A c \in Listed : c <= created
    BY <1>1, EmptyList DEF IInv, PhaseInv, ListInv, Batched
<1>5. Timer \subseteq Int /\ created \in Int
    BY TypedSets DEF IInv
<1>6. ASSUME NEW c \in S PROVE StatusOf(c) = "waiting" /\ StatusOf(c)' = "due"
    <2>1. ~(c > created) /\ c \in Listed \ cancelled
        BY <1>3, <1>4, <1>5
    <2>2. QED BY <1>1, <1>2, <1>4, <2>1 DEF StatusOf
<1>7. ASSUME NEW c \in Timer \ S PROVE StatusOf(c)' = StatusOf(c)
    BY <1>1, <1>2, <1>3, <1>4 DEF StatusOf
<1>8. [c \in Timer |-> StatusOf(c)]'
      = [c \in Timer |-> IF c \in S THEN "due" ELSE [d \in Timer |-> StatusOf(d)][c]]
    BY <1>3, <1>6, <1>7
<1>9. Service!Expire(S)
    BY <1>1, <1>3, <1>6, <1>8 DEF Service!Expire
<1>10. QED BY <1>3, <1>9

LEMMA CallRefines ==
    ASSUME IInv, CallTimer
    PROVE  \E c \in Timer : Service!Call(c)
<1>1. /\ pc = "timers" /\ pc' = "call"
      /\ UNCHANGED <<created, intervals, cancelled, cancelledTimerIds, cleared, missed, early>>
    BY DEF CallTimer
<1>2. PICK c : c = current'
    OBVIOUS
<1>3. c \in Timer /\ c \in Batched /\ Batched' = Batched \ {c} /\ Listed' = Listed
    BY <1>2, CallIs
<1>4. current = NoTimer /\ c \notin Listed /\ c <= created
    BY <1>1, <1>3 DEF IInv, ListInv, PhaseInv
<1>5. NoTimer \notin Timer /\ ~(c > created)
    BY <1>3, <1>4, TypedSets DEF IInv
<1>6. StatusOf(c) = "due"
    BY <1>1, <1>3, <1>5 DEF StatusOf
<1>7. StatusOf(c)' = IF c \in intervals \ cancelledTimerIds THEN "waiting" ELSE "over"
    BY <1>1, <1>2, <1>3, <1>4, <1>5 DEF StatusOf
<1>8. ASSUME NEW d \in Timer, d # c PROVE StatusOf(d)' = StatusOf(d)
    BY <1>1, <1>2, <1>3, <1>4, <1>5, <1>8 DEF StatusOf
<1>9. [d \in Timer |-> StatusOf(d)]'
      = [[d \in Timer |-> StatusOf(d)] EXCEPT
            ![c] = IF c \in intervals \ cancelledTimerIds THEN "waiting" ELSE "over"]
    BY <1>3, <1>7, <1>8
<1>10. c \in intervals \ cancelledTimerIds => c \in intervals \ cleared
    BY <1>3 DEF IInv, ClearInv
<1>11. c \notin intervals \ cancelledTimerIds => c \notin intervals \/ c \in cleared \cup early
    BY DEF IInv, ClearInv
<1>12. Service!Call(c)
    BY <1>1, <1>2, <1>3, <1>4, <1>6, <1>9, <1>10, <1>11 DEF Service!Call
<1>13. QED BY <1>3, <1>12

LEMMA ReturnRefines == ASSUME IInv, ReturnFromTimer PROVE Service!Return
<1>0. PICK c : c = current
    OBVIOUS
<1>1. /\ pc = "call" /\ pc' = "timers" /\ current' = NoTimer
      /\ UNCHANGED <<created, intervals, cancelled, toExecute, cleared, missed, early>>
    BY DEF ReturnFromTimer
<1>2. Batched' = Batched
    BY <1>1 DEF Batched
<1>3. c \in Timer /\ c \notin Listed /\ c \notin Batched /\ cancelled \subseteq Listed
    BY <1>0, <1>1 DEF IInv, TypeOK, ListInv, PhaseInv
<1>4. Listed' = IF c \in intervals \ cancelledTimerIds THEN Listed \cup {c} ELSE Listed
    <2>1. CASE c \in intervals \ cancelledTimerIds
        <3>1. timerCallbacks' = Append(timerCallbacks, c)
            BY <1>0, <2>1 DEF ReturnFromTimer
        <3>2. QED BY <1>3, <2>1, <3>1, AppendElement DEF IInv, TypeOK, ListInv, Listed
    <2>2. CASE c \notin intervals \ cancelledTimerIds
        BY <1>0, <2>2 DEF ReturnFromTimer, Listed
    <2>3. QED BY <2>1, <2>2
<1>5. ASSUME NEW d \in Timer PROVE StatusOf(d)' = StatusOf(d)
    BY <1>0, <1>1, <1>2, <1>3, <1>4 DEF StatusOf
<1>6. QED BY <1>1, <1>5 DEF Service!Return

LEMMA ReloadRefines == ASSUME IInv, ReloadScript PROVE Service!Discard
<1>1. /\ pc = "idle" /\ pc' = "script" /\ timerCallbacks' = <<>>
      /\ cleared' = {} /\ missed' = {} /\ early' = {}
      /\ UNCHANGED <<created, intervals, toExecute, current>>
    BY DEF ReloadScript
<1>2. Listed' = {} /\ Batched' = {} /\ current = NoTimer
    BY <1>1, EmptyList DEF IInv, PhaseInv, Listed, Batched
<1>3. ASSUME NEW c \in Timer
      PROVE  StatusOf(c)' = IF StatusOf(c) = "unset" THEN "unset" ELSE "over"
    BY <1>1, <1>2 DEF StatusOf
<1>4. QED BY <1>1, <1>2, <1>3 DEF Service!Discard

LEMMA ShutdownRefines == ASSUME IInv, Shutdown PROVE Service!End
<1>1. pc = "idle" /\ pc' = "down" /\ current' = current
    BY DEF Shutdown
<1>2. current' = NoTimer
    BY <1>1 DEF IInv, PhaseInv
<1>3. QED BY <1>1, <1>2 DEF Service!End, StatusOf

(* Every step of the timers is a step of the service or stutters.          *)
LEMMA StepRefines ==
    ASSUME IInv, [Next]_vars
    PROVE  Service!Next \/ UNCHANGED Service!vars
<1>1. CASE SetTimeout \/ SetInterval
    BY <1>1, CreateRefines DEF SetTimeout, SetInterval, Service!Next
<1>2. ASSUME NEW c \in Timer, ClearTimeout(c) \/ ClearInterval(c)
      PROVE  Service!Next \/ UNCHANGED Service!vars
    BY <1>2, ClearRefines DEF Service!Next
<1>3. CASE CollectExpired
    BY <1>3, CollectRefines DEF Service!Next
<1>4. CASE CallTimer
    BY <1>4, CallRefines DEF Service!Next
<1>5. CASE ReturnFromTimer
    BY <1>5, ReturnRefines DEF Service!Next
<1>6. CASE ReloadScript
    BY <1>6, ReloadRefines DEF Service!Next
<1>7. CASE Shutdown
    BY <1>7, ShutdownRefines DEF Service!Next
<1>8. CASE ReturnToHost \/ TimersDone
    <2>1. /\ pc \notin {"call", "down"} /\ pc' \notin {"call", "down"}
          /\ UNCHANGED <<created, intervals, timerCallbacks, cancelled, toExecute, current,
                         cancelledTimerIds, cleared, missed, early>>
        BY <1>8 DEF ReturnToHost, TimersDone
    <2>2. \A c \in Timer : StatusOf(c)' = StatusOf(c)
        BY <2>1 DEF StatusOf, Listed, Batched
    <2>3. QED BY <2>1, <2>2, StutterRefines
<1>9. CASE UNCHANGED vars
    <2>1. \A c \in Timer : StatusOf(c)' = StatusOf(c)
        BY <1>9 DEF vars, StatusOf, Listed, Batched
    <2>2. QED BY <1>9, <2>1 DEF vars, Service!vars
<1>10. QED
    BY <1>1, <1>2, <1>3, <1>4, <1>5, <1>6, <1>7, <1>8, <1>9 DEF Next, CallFromJS, LoopStep

(* The timers of the std::chrono build keep every promise of TimerService: *)
(* an interval passed to clearInterval while it is called, or waits in the *)
(* batch, is not scheduled again, a timer cleared while it waits in the    *)
(* list is not called, a timeout is called once, a timer of a script that  *)
(* was reloaded never.  A clearTimeout of an interval of the batch may be  *)
(* lost: that is the service's ClearMissed.                                *)
THEOREM FallbackIsAService == Spec => ImplementsTimerService
<1>1. IInv /\ [Next]_vars => [Service!Next]_(Service!vars)
    BY StepRefines
<1>2. QED
    BY <1>1, InitRefines, Invariance, PTL DEF Spec, ImplementsTimerService, Service!Spec
=============================================================================
