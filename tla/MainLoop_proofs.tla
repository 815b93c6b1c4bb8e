-------------------------- MODULE MainLoop_proofs --------------------------
(***************************************************************************)
(* Proofs about MainLoop, for all sets of timers, sessions and requests    *)
(* and every number of frame callbacks.                                    *)
(***************************************************************************)
EXTENDS MainLoop, SequenceTheorems, TLAPS

-----------------------------------------------------------------------------
(* A queue of ids handed out by a counter is increasing, and stays so when *)
(* a later id is appended ...                                              *)
Increasing(s) == \A i, j \in DOMAIN s : i < j => s[i] < s[j]

LEMMA AppendLater ==
    ASSUME NEW S \in SUBSET Int, NEW s \in Seq(S), NEW e \in S,
           Increasing(s), \A x \in Range(s) : x < e
    PROVE  /\ Append(s, e) \in Seq(S) /\ Increasing(Append(s, e))
           /\ Range(Append(s, e)) = Range(s) \cup {e}
<1>1. PICK t : t = Append(s, e)
    OBVIOUS
<1>2. /\ t \in Seq(S) /\ Len(s) \in Nat
      /\ DOMAIN s = 1 .. Len(s) /\ DOMAIN t = 1 .. Len(s) + 1
      /\ \A i \in 1 .. Len(s) : t[i] = s[i] /\ s[i] \in S
      /\ t[Len(s) + 1] = e
    BY <1>1
<1>3. \A i \in DOMAIN t : i \in 1 .. Len(s) \/ i = Len(s) + 1
    BY <1>2
<1>4. Range(t) = Range(s) \cup {e}
    BY <1>2, <1>3 DEF Range
<1>5. ASSUME NEW i \in DOMAIN t, NEW j \in DOMAIN t, i < j
      PROVE  t[i] < t[j]
    <2>1. i \in 1 .. Len(s)
        BY <1>2, <1>5
    <2>2. CASE j \in 1 .. Len(s)
        BY <2>1, <2>2, <1>2, <1>5 DEF Increasing
    <2>3. CASE j = Len(s) + 1
        <3>1. t[i] = s[i] /\ s[i] \in Range(s) /\ t[j] = e
            BY <2>1, <2>3, <1>2 DEF Range
        <3>2. QED BY <3>1
    <2>4. QED BY <2>2, <2>3, <1>3
<1>6. QED BY <1>1, <1>2, <1>4, <1>5 DEF Increasing

(* ... when its first is taken ...                                         *)
LEMMA TakeFirst ==
    ASSUME NEW S \in SUBSET Int, NEW s \in Seq(S), s # <<>>, Increasing(s)
    PROVE  /\ Head(s) \in S /\ Head(s) \in Range(s)
           /\ Tail(s) \in Seq(S) /\ Increasing(Tail(s))
           /\ Range(s) = Range(Tail(s)) \cup {Head(s)}
           /\ \A x \in Range(Tail(s)) : Head(s) < x
<1>1. PICK t : t = Tail(s)
    OBVIOUS
<1>2. /\ Head(s) \in S /\ t \in Seq(S) /\ Len(t) = Len(s) - 1
      /\ \A i \in 1 .. Len(s) - 1 : t[i] = s[i + 1]
      /\ Len(s) \in Nat \ {0} /\ Head(s) = s[1]
    BY <1>1, HeadTailProperties, EmptySeq
<1>3. /\ DOMAIN s = 1 .. Len(s) /\ DOMAIN t = 1 .. Len(s) - 1
      /\ \A i \in 1 .. Len(s) : s[i] \in S
    BY <1>2
<1>4. Increasing(t)
    <2>1. SUFFICES ASSUME NEW i \in 1 .. Len(s) - 1, NEW j \in 1 .. Len(s) - 1, i < j
                   PROVE  t[i] < t[j]
        BY <1>3 DEF Increasing
    <2>2. /\ i + 1 \in 1 .. Len(s) /\ j + 1 \in 1 .. Len(s) /\ i + 1 < j + 1
          /\ t[i] = s[i + 1] /\ t[j] = s[j + 1]
        BY <2>1, <1>2
    <2>3. QED BY <2>2, <1>3 DEF Increasing
<1>5. ASSUME NEW i \in 1 .. Len(s) PROVE i = 1 \/ (i - 1 \in 1 .. Len(s) - 1 /\ s[i] = t[i - 1])
    BY <1>2
<1>6. Range(s) = Range(t) \cup {Head(s)}
    <2>1. \A i \in 1 .. Len(s) - 1 : i + 1 \in 1 .. Len(s)
        BY <1>2
    <2>2. Range(t) \cup {Head(s)} \subseteq Range(s)
        BY <2>1, <1>2, <1>3 DEF Range
    <2>3. Range(s) \subseteq Range(t) \cup {Head(s)}
        BY SMTT(20), <1>2, <1>3, <1>5 DEF Range
    <2>4. QED BY <2>2, <2>3
<1>7. ASSUME NEW x \in Range(t) PROVE Head(s) < x
    <2>1. PICK i \in 1 .. Len(s) - 1 : x = s[i + 1]
        BY <1>2, <1>3 DEF Range
    <2>2. QED BY SMTT(20), <2>1, <1>2, <1>3 DEF Increasing
<1>8. QED BY <1>1, <1>2, <1>4, <1>6, <1>7

(* ... or any one is removed.                                              *)
LEMMA RemoveOne ==
    ASSUME NEW S \in SUBSET Int, NEW s \in Seq(S), Increasing(s), NEW n \in DOMAIN s
    PROVE  /\ RemoveAt(s, n) \in Seq(S) /\ Increasing(RemoveAt(s, n))
           /\ s[n] \in Range(s)
           /\ Range(RemoveAt(s, n)) = Range(s) \ {s[n]}
<1>0. /\ Len(s) \in Nat /\ DOMAIN s = 1 .. Len(s) /\ \A i \in 1 .. Len(s) : s[i] \in S
      /\ n \in 1 .. Len(s)
    OBVIOUS
<1>1. PICK a : a = SubSeq(s, 1, n - 1)
    OBVIOUS
<1>2. PICK b : b = SubSeq(s, n + 1, Len(s))
    OBVIOUS
<1>3. /\ a \in Seq(S) /\ Len(a) = n - 1
      /\ \A i \in 1 .. n - 1 : a[i] = s[i]
    BY <1>0, <1>1
<1>4. /\ b \in Seq(S) /\ Len(b) = Len(s) - n
      /\ \A i \in 1 .. Len(s) - n : b[i] = s[n + i]
    BY <1>0, <1>2
<1>5. PICK r : r = RemoveAt(s, n)
    OBVIOUS
<1>6. /\ r \in Seq(S) /\ DOMAIN r = 1 .. Len(s) - 1
      /\ \A i \in 1 .. Len(s) - 1 : r[i] = s[IF i < n THEN i ELSE i + 1]
    <2>1. /\ a \o b \in Seq(S) /\ Len(a \o b) = Len(a) + Len(b)
          /\ \A i \in 1 .. Len(a) + Len(b) :
                (a \o b)[i] = IF i <= Len(a) THEN a[i] ELSE b[i - Len(a)]
        BY <1>3, <1>4, ConcatProperties
    <2>2. r = a \o b
        BY <1>1, <1>2, <1>5 DEF RemoveAt
    <2>3. r \in Seq(S) /\ Len(r) = Len(s) - 1
        <3>1. r \in Seq(S) /\ Len(r) = Len(a) + Len(b)
            BY <2>1, <2>2
        <3>2. QED BY <3>1, <1>0, <1>3, <1>4
    <2>4. ASSUME NEW i \in 1 .. Len(s) - 1
          PROVE  r[i] = s[IF i < n THEN i ELSE i + 1]
        <3>1. r[i] = IF i <= n - 1 THEN a[i] ELSE b[i - (n - 1)]
            BY SMTT(20), <2>1, <2>2, <1>0, <1>3, <1>4
        <3>2. CASE i < n
            BY <3>1, <3>2, <1>3, <1>0
        <3>3. CASE ~(i < n)
            <4>1. i - (n - 1) \in 1 .. Len(s) - n /\ n + (i - (n - 1)) = i + 1
                BY <3>3, <1>0
            <4>2. QED BY <4>1, <3>1, <3>3, <1>4, <1>0
        <3>4. QED BY <3>2, <3>3
    <2>5. QED BY <2>3, <2>4
<1>7. Increasing(r)
    BY SMTT(20), <1>0, <1>6 DEF Increasing
<1>8. Range(r) = Range(s) \ {s[n]}
    <2>1. ASSUME NEW x \in Range(r) PROVE x \in Range(s) \ {s[n]}
        <3>1. PICK i \in 1 .. Len(s) - 1 : x = r[i]
            BY <1>6 DEF Range
        <3>2. PICK k \in 1 .. Len(s) : k = IF i < n THEN i ELSE i + 1
            BY <1>0
        <3>3. x = s[k] /\ (k < n \/ n < k)
            BY <3>1, <3>2, <1>0, <1>6
        <3>4. x # s[n]
            <4>1. s[k] \in Int /\ s[n] \in Int /\ (s[k] < s[n] \/ s[n] < s[k])
                BY <3>3, <1>0 DEF Increasing
            <4>2. QED BY <4>1, <3>3
        <3>5. QED BY <3>3, <3>4, <1>0 DEF Range
    <2>2. ASSUME NEW x \in Range(s) \ {s[n]} PROVE x \in Range(r)
        <3>1. PICK k \in 1 .. Len(s) : x = s[k] /\ k # n
            BY <1>0 DEF Range
        <3>2. CASE k < n
            <4>1. k \in 1 .. Len(s) - 1 /\ r[k] = x
                BY <3>1, <3>2, <1>0, <1>6
            <4>2. QED BY <4>1, <1>6 DEF Range
        <3>3. CASE k > n
            <4>1. k - 1 \in 1 .. Len(s) - 1 /\ r[k - 1] = x
                BY <3>1, <3>3, <1>0, <1>6
            <4>2. QED BY <4>1, <1>6 DEF Range
        <3>4. QED BY <3>1, <3>2, <3>3, <1>0
    <2>3. QED BY <2>1, <2>2
<1>9. s[n] \in Range(s)
    BY <1>0 DEF Range
<1>10. QED BY <1>5, <1>6, <1>7, <1>8, <1>9

-----------------------------------------------------------------------------
(* The ids not yet called are increasing: first the rest of this frame's   *)
(* batch, below frameLimit, then the queue.  Those called lie below both.  *)
Ordered ==
    /\ Increasing(rafCallbacks) /\ Increasing(batch)
    /\ \A i \in Range(batch) : i < frameLimit
    /\ \A i \in Range(rafCallbacks) : frameLimit <= i /\ i < nextRafId
    /\ \A i \in ran \cup {current} : i < frameLimit /\ \A j \in Range(batch) : i < j

Phases ==
    /\ pc \notin {"frame", "call"} => batch = <<>>
    /\ current # NoCallback <=> pc = "call"
    /\ idleFrames = maxIdleFrames => pc \in {"ended", "down"}

(* What was cancelled or dropped is nowhere, and its id is not used again. *)
Dropped ==
    \A i \in cancelled : i < nextRafId /\ i \notin Range(batch) \cup Range(rafCallbacks)

Protected ==
    \A i \in RafId :
        protects[i] = IF i = current \/ i \in Range(batch) \cup Range(rafCallbacks)
                      THEN 1 ELSE 0

RafInv == Ordered /\ Phases /\ Dropped /\ Protected

IInv == TypeOK /\ RafInv

(* The ways of the model and of the proofs to speak of a queue's elements. *)
LEMMA ElementsOf ==
    ASSUME NEW S, NEW s \in Seq(S)
    PROVE  /\ ToSet(s) = Range(s) /\ Range(s) \subseteq S
           /\ \A e : Contains(s, e) <=> e \in Range(s)
<1>1. DOMAIN s = 1 .. Len(s) /\ \A i \in 1 .. Len(s) : s[i] \in S
    OBVIOUS
<1>2. QED BY <1>1 DEF ToSet, Range, Contains

LEMMA EmptyQueue == Range(<<>>) = {} /\ Increasing(<<>>) /\ \A S : <<>> \in Seq(S)
BY DEF Range, Increasing

LEMMA InitEstablishes == Init => IInv
<1> SUFFICES ASSUME Init PROVE IInv
    OBVIOUS
<1>1. TypeOK
    <2>1. noSdl \in BOOLEAN /\ running \in BOOLEAN
        BY Zenon DEF Init
    <2>2. QED
        BY <2>1, EmptyQueue, FrameAssumption
        DEF Init, TypeOK, Phase, maxIdleFrames, NoCallback, RafId
<1>2. RafInv
    BY EmptyQueue
    DEF Init, RafInv, Ordered, Phases, Dropped, Protected, NoCallback, RafId, maxIdleFrames
<1>3. QED BY <1>1, <1>2 DEF IInv

-----------------------------------------------------------------------------
(* The steps that leave the frame callbacks alone.                         *)
LEMMA OtherStep ==
    ASSUME IInv,
           \/ \E w \in Work : StartWork(w) \/ ClearTimer(w) \/ EndWork(w)
           \/ ProcessExit \/ Loaded \/ PollWindow \/ RunLateCallbacks \/ EndPoll \/ CheckIdle
    PROVE  IInv'
<1>1. TypeOK'
    <2> USE DEF IInv, TypeOK, Phase, rafVars, loopVars, workVars
    <2>1. CASE \E w \in Work : StartWork(w) \/ ClearTimer(w) \/ EndWork(w)
        <3>1. outstanding' \subseteq started' /\ started' \subseteq Work
            BY <2>1 DEF StartWork, ClearTimer, EndWork
        <3>2. UNCHANGED <<loopVars, rafVars>>
            BY <2>1 DEF StartWork, ClearTimer, EndWork
        <3>3. QED BY <3>1, <3>2
    <2>2. CASE ProcessExit
        BY <2>2 DEF ProcessExit
    <2>3. CASE Loaded
        BY <2>3 DEF Loaded
    <2>4. CASE PollWindow \/ RunLateCallbacks \/ EndPoll
        BY <2>4 DEF PollWindow, RunLateCallbacks, EndPoll
    <2>5. CASE CheckIdle
        <3>1. idleFrames \in 0 .. 2
            BY <2>5 DEF CheckIdle, RafInv, Phases, maxIdleFrames
        <3>2. idleFrames' \in 0 .. 3
            BY <2>5, <3>1 DEF CheckIdle
        <3>3. pc' \in Phase /\ reason' \in {"none", "exit", "window", "idle"}
            BY <2>5 DEF CheckIdle
        <3>4. running' \in BOOLEAN
            BY <2>5 DEF CheckIdle
        <3>5. UNCHANGED <<noSdl, rafVars, workVars>>
            BY <2>5 DEF CheckIdle
        <3>6. QED BY <3>2, <3>3, <3>4, <3>5 DEF maxIdleFrames
    <2>6. QED BY <2>1, <2>2, <2>3, <2>4, <2>5
<1>2. UNCHANGED rafVars
    BY DEF StartWork, ClearTimer, EndWork, ProcessExit, Loaded, PollWindow, RunLateCallbacks,
           EndPoll, CheckIdle
<1>3. Ordered' /\ Dropped' /\ Protected'
    BY <1>2 DEF rafVars, IInv, RafInv, Ordered, Dropped, Protected
<1>4. Phases'
    <2> USE DEF IInv, RafInv, Phases, rafVars, loopVars, workVars
    <2>1. CASE UNCHANGED <<pc, idleFrames>>
        BY <2>1, <1>2
    <2>2. CASE Loaded \/ PollWindow \/ RunLateCallbacks
        BY <2>2 DEF Loaded, PollWindow, RunLateCallbacks
    <2>3. CASE EndPoll
        BY <2>3 DEF EndPoll
    <2>4. CASE CheckIdle
        BY <2>4 DEF CheckIdle
    <2>5. QED BY <2>1, <2>2, <2>3, <2>4 DEF StartWork, ClearTimer, EndWork, ProcessExit
<1>5. QED BY <1>1, <1>3, <1>4 DEF IInv, RafInv

LEMMA RequestFrameStep == ASSUME IInv, RequestFrame PROVE IInv'
<1> USE DEF RequestFrame, loopVars, workVars
<1>1. PICK i : i = nextRafId
    OBVIOUS
<1>2. /\ i \in RafId /\ i \in Int /\ RafId \in SUBSET Int /\ frameLimit \in Int
      /\ rafCallbacks \in Seq(RafId) /\ frameLimit <= i
    BY <1>1, FrameAssumption DEF IInv, TypeOK, RafId
<1>3. \A x \in Range(rafCallbacks) : x < i
    BY <1>1 DEF IInv, RafInv, Ordered
<1>4. /\ rafCallbacks' \in Seq(RafId) /\ Increasing(rafCallbacks')
      /\ Range(rafCallbacks') = Range(rafCallbacks) \cup {i}
    BY <1>1, <1>2, <1>3, AppendLater DEF IInv, RafInv, Ordered
<1>5. /\ \A x \in Range(batch) \cup Range(rafCallbacks) : x \in RafId
      /\ current \in Int /\ ran \subseteq RafId /\ cancelled \subseteq RafId
    BY <1>2, ElementsOf DEF IInv, TypeOK, NoCallback
<1>6. i \notin Range(batch) \cup Range(rafCallbacks) /\ i # current /\ i \notin cancelled
    BY <1>1, <1>2, <1>3, <1>5 DEF IInv, RafInv, Ordered, Dropped
<1>7. TypeOK'
    BY <1>1, <1>2, <1>4, FrameAssumption DEF IInv, TypeOK, RafId
<1>8. Ordered'
    BY <1>1, <1>2, <1>4, <1>5 DEF IInv, RafInv, Ordered, RafId
<1>9. Phases' /\ Dropped'
    BY <1>1, <1>2, <1>4, <1>5, <1>6 DEF IInv, RafInv, Phases, Dropped, RafId
<1>10. Protected'
    <2>1. /\ protects \in [RafId -> Int]
          /\ protects' = [protects EXCEPT ![i] = @ + 1]
        BY <1>1 DEF IInv, TypeOK
    <2>2. protects'[i] = protects[i] + 1 /\ \A j \in RafId \ {i} : protects'[j] = protects[j]
        BY <2>1, <1>2
    <2>3. QED BY <2>2, <1>2, <1>4, <1>6 DEF IInv, RafInv, Protected
<1>11. QED BY <1>7, <1>8, <1>9, <1>10 DEF IInv, RafInv

LEMMA CancelFrameStep == ASSUME IInv, NEW i \in RafId, CancelFrame(i) PROVE IInv'
<1> USE DEF CancelFrame, loopVars, workVars
<1>1. PICK n \in DOMAIN rafCallbacks :
            rafCallbacks[n] = i /\ rafCallbacks' = RemoveAt(rafCallbacks, n)
    OBVIOUS
<1>2. /\ RafId \in SUBSET Int /\ rafCallbacks \in Seq(RafId) /\ batch \in Seq(RafId)
      /\ frameLimit \in Int /\ current \in Int
    BY FrameAssumption DEF IInv, TypeOK, RafId, NoCallback
<1>3. /\ rafCallbacks' \in Seq(RafId) /\ Increasing(rafCallbacks') /\ i \in Range(rafCallbacks)
      /\ Range(rafCallbacks') = Range(rafCallbacks) \ {i}
    BY <1>1, <1>2, RemoveOne DEF IInv, RafInv, Ordered
<1>4. i \notin Range(batch) /\ i # current /\ i < nextRafId
    <2>1. i \in Int /\ frameLimit <= i /\ i < nextRafId
        BY <1>2, <1>3 DEF IInv, RafInv, Ordered
    <2>2. \A x \in Range(batch) : x < frameLimit
        BY DEF IInv, RafInv, Ordered
    <2>3. current < frameLimit
        BY DEF IInv, RafInv, Ordered
    <2>4. i \notin Range(batch)
        BY <1>2, <2>1, <2>2
    <2>5. QED BY <1>2, <2>1, <2>3, <2>4
<1>5. TypeOK'
    BY <1>2, <1>3 DEF IInv, TypeOK
<1>6. Ordered'
    BY <1>3 DEF IInv, RafInv, Ordered
<1>7. Phases' /\ Dropped'
    BY <1>3, <1>4 DEF IInv, RafInv, Phases, Dropped
<1>8. Protected'
    <2>1. protects \in [RafId -> Int] /\ protects' = [protects EXCEPT ![i] = @ - 1]
        BY DEF IInv, TypeOK
    <2>2. protects'[i] = protects[i] - 1 /\ \A j \in RafId \ {i} : protects'[j] = protects[j]
        BY <2>1
    <2>3. QED BY <2>2, <1>3, <1>4 DEF IInv, RafInv, Protected
<1>9. QED BY <1>5, <1>6, <1>7, <1>8 DEF IInv, RafInv

(* What is still queued is released, on a reload and at the end.           *)
LEMMA DropStep == ASSUME IInv, ReloadScript \/ Shutdown PROVE IInv'
<1>1. /\ pc \notin {"frame", "call"} /\ pc' \notin {"frame", "call"} /\ pc' \in Phase
      /\ rafCallbacks' = <<>>
      /\ protects' = [i \in RafId |-> protects[i] - IF Contains(rafCallbacks, i) THEN 1 ELSE 0]
      /\ cancelled' \in {cancelled, cancelled \cup ToSet(rafCallbacks)}
      /\ outstanding' \subseteq outstanding
      /\ UNCHANGED <<noSdl, running, idleFrames, reason, batch, current, frameLimit, nextRafId,
                     ran, started>>
    BY DEF ReloadScript, Shutdown, Phase, workVars
<1>2. /\ RafId \in SUBSET Int /\ rafCallbacks \in Seq(RafId)
      /\ frameLimit \in Int /\ current \in Int
    BY FrameAssumption DEF IInv, TypeOK, RafId, NoCallback
<1>3. /\ ToSet(rafCallbacks) = Range(rafCallbacks) /\ Range(rafCallbacks) \subseteq RafId
      /\ \A i : Contains(rafCallbacks, i) <=> i \in Range(rafCallbacks)
    BY <1>2, ElementsOf
<1>4. batch = <<>> /\ batch' = <<>> /\ current = NoCallback
    BY <1>1 DEF IInv, RafInv, Phases
<1>5. TypeOK'
    <2>1. protects' \in [RafId -> Int]
        BY <1>1 DEF IInv, TypeOK
    <2>2. QED BY <1>1, <1>3, <2>1, EmptyQueue DEF IInv, TypeOK
<1>6. Ordered' /\ Dropped'
    BY <1>1, <1>3, <1>4, EmptyQueue DEF IInv, RafInv, Ordered, Dropped
<1>8. Phases'
    BY <1>1, <1>4 DEF ReloadScript, Shutdown, IInv, RafInv, Phases
<1>7. Protected'
    <2>1. \A i \in RafId : protects[i] = IF i \in Range(rafCallbacks) THEN 1 ELSE 0
        BY <1>4, EmptyQueue DEF IInv, RafInv, Protected, NoCallback, RafId
    <2>2. QED BY <1>1, <1>3, <1>4, <2>1, EmptyQueue DEF Protected, NoCallback, RafId
<1>9. QED BY <1>5, <1>6, <1>7, <1>8 DEF IInv, RafInv

-----------------------------------------------------------------------------
(* The frame: the queue becomes the batch ...                              *)
LEMMA TakeFramesStep == ASSUME IInv, TakeFrames PROVE IInv'
<1> USE DEF TakeFrames, workVars
<1>1. /\ RafId \in SUBSET Int /\ nextRafId \in Int /\ frameLimit \in Int /\ frameLimit <= nextRafId
      /\ rafCallbacks \in Seq(RafId) /\ current = NoCallback /\ batch = <<>>
      /\ Range(rafCallbacks) \subseteq RafId
    BY FrameAssumption, ElementsOf DEF IInv, TypeOK, RafInv, Phases, RafId
<1>2. TypeOK'
    BY EmptyQueue DEF IInv, TypeOK, Phase
<1>3. Ordered'
    <2>1. \A i \in Range(rafCallbacks) : i \in Int /\ frameLimit <= i /\ i < nextRafId
        BY <1>1 DEF IInv, RafInv, Ordered
    <2>2. \A i \in ran \cup {current} : i \in Int /\ i < frameLimit
        BY <1>1 DEF IInv, TypeOK, RafInv, Ordered, NoCallback
    <2>3. QED BY <1>1, <2>1, <2>2, EmptyQueue DEF IInv, RafInv, Ordered
<1>4. Phases' /\ Dropped' /\ Protected'
    BY <1>1, EmptyQueue DEF IInv, RafInv, Phases, Dropped, Protected
<1>5. QED BY <1>2, <1>3, <1>4 DEF IInv, RafInv

(* ... and its callbacks are called, one after the other.                  *)
LEMMA CallFrameStep ==
    ASSUME IInv, CallFrame
    PROVE  IInv' /\ current' < frameLimit /\ current' \notin cancelled
           /\ \A i \in ran : i < current'
<1> USE DEF CallFrame, workVars
<1>1. PICK i : i = Head(batch)
    OBVIOUS
<1>2. RafId \in SUBSET Int /\ batch \in Seq(RafId) /\ current = NoCallback
    BY FrameAssumption DEF IInv, TypeOK, RafInv, Phases, RafId
<1>3. /\ i \in RafId /\ i \in Range(batch) /\ batch' \in Seq(RafId) /\ Increasing(batch')
      /\ Range(batch) = Range(batch') \cup {i}
      /\ \A x \in Range(batch') : i < x
    BY <1>1, <1>2, TakeFirst DEF IInv, RafInv, Ordered
<1>4. /\ current' = i /\ ran' = ran \cup {i} /\ i < frameLimit
      /\ \A x \in ran : x < i
    BY <1>1, <1>3 DEF IInv, RafInv, Ordered
<1>5. TypeOK'
    BY <1>3, <1>4 DEF IInv, TypeOK, Phase
<1>6. Ordered'
    BY <1>3, <1>4 DEF IInv, RafInv, Ordered
<1>7. i # NoCallback /\ \A x \in RafId : x # NoCallback
    BY <1>3 DEF RafId, NoCallback
<1>8. Phases' /\ Dropped'
    BY <1>3, <1>4, <1>7 DEF IInv, RafInv, Phases, Dropped
<1>9. Protected'
    BY <1>2, <1>3, <1>4, <1>7 DEF IInv, RafInv, Protected
<1>10. i \notin cancelled
    BY <1>3 DEF IInv, RafInv, Dropped
<1>11. QED BY <1>4, <1>5, <1>6, <1>8, <1>9, <1>10 DEF IInv, RafInv

LEMMA ReturnStep == ASSUME IInv, ReturnFromFrame PROVE IInv'
<1> USE DEF ReturnFromFrame, workVars
<1>1. PICK i : i = current
    OBVIOUS
<1>2. /\ i \in RafId /\ frameLimit \in Int /\ RafId \in SUBSET Int /\ frameLimit >= 1
      /\ Range(batch) \subseteq RafId
    BY <1>1, FrameAssumption, ElementsOf DEF IInv, TypeOK, RafInv, Phases, RafId
<1>3. i \notin Range(batch) \cup Range(rafCallbacks)
    <2>1. /\ \A x \in Range(batch) : i < x
          /\ \A x \in Range(rafCallbacks) : frameLimit <= x
          /\ i < frameLimit
        BY <1>1 DEF IInv, RafInv, Ordered
    <2>2. QED BY <1>2, <2>1
<1>4. /\ protects' = [protects EXCEPT ![i] = @ - 1] /\ protects \in [RafId -> Int]
      /\ current' = NoCallback
    BY <1>1 DEF IInv, TypeOK
<1>5. TypeOK'
    BY <1>2, <1>4 DEF IInv, TypeOK, Phase
<1>6. \A x \in RafId : 0 < x
    BY DEF RafId
<1>7. Ordered'
    <2>1. \A x \in ran \cup {NoCallback} :
              x < frameLimit /\ \A j \in Range(batch) : x < j
        <3>1. NoCallback < frameLimit /\ \A j \in Range(batch) : NoCallback < j
            <4>1. 0 < frameLimit
                BY <1>2
            <4>2. \A j \in Range(batch) : 0 < j
                BY <1>2, <1>6
            <4>3. QED BY <4>1, <4>2 DEF NoCallback
        <3>2. QED BY <3>1 DEF IInv, RafInv, Ordered
    <2>2. QED BY <1>4, <2>1 DEF IInv, RafInv, Ordered
<1>8. Phases' /\ Dropped'
    BY <1>4 DEF IInv, RafInv, Phases, Dropped, NoCallback
<1>9. Protected'
    <2>1. protects'[i] = protects[i] - 1 /\ \A j \in RafId \ {i} : protects'[j] = protects[j]
        BY <1>2, <1>4
    <2>2. protects[i] = 1
        BY <1>1, <1>2 DEF IInv, RafInv, Protected
    <2>3. QED BY <1>1, <1>3, <1>4, <1>6, <2>1, <2>2 DEF IInv, RafInv, Protected, NoCallback
<1>10. QED BY <1>5, <1>7, <1>8, <1>9 DEF IInv, RafInv

LEMMA Preserved == IInv /\ [Next]_vars => IInv'
<1> SUFFICES ASSUME IInv, [Next]_vars PROVE IInv'
    OBVIOUS
<1>1. CASE RequestFrame
    BY <1>1, RequestFrameStep
<1>2. ASSUME NEW i \in RafId, CancelFrame(i) PROVE IInv'
    BY <1>2, CancelFrameStep
<1>3. CASE ReloadScript \/ Shutdown
    BY <1>3, DropStep
<1>4. CASE TakeFrames
    BY <1>4, TakeFramesStep
<1>5. CASE CallFrame
    BY <1>5, CallFrameStep
<1>6. CASE ReturnFromFrame
    BY <1>6, ReturnStep
<1>7. CASE \/ \E w \in Work : StartWork(w) \/ ClearTimer(w) \/ EndWork(w)
           \/ ProcessExit \/ Loaded \/ PollWindow \/ RunLateCallbacks \/ EndPoll \/ CheckIdle
    BY <1>7, OtherStep
<1>8. CASE UNCHANGED vars
    BY <1>8
    DEF vars, loopVars, rafVars, workVars, IInv, TypeOK, RafInv, Ordered, Phases, Dropped,
        Protected
<1>9. QED
    BY <1>1, <1>2, <1>3, <1>4, <1>5, <1>6, <1>7, <1>8 DEF Next, CallFromJS, LoopStep

-----------------------------------------------------------------------------
(* The inductive invariant holds throughout.                               *)
THEOREM Invariance == Spec => []IInv
BY InitEstablishes, Preserved, PTL DEF Spec

(* The variables of the main loop keep their types.                        *)
THEOREM Typing == Spec => []TypeOK
<1>1. IInv => TypeOK
    BY DEF IInv
<1>2. QED BY <1>1, Invariance, PTL

(* A frame callback is protected exactly while it is queued, waits in the  *)
(* batch or runs: cancelAnimationFrame, reloadScript, the end of the call  *)
(* and shutdown release it once, whatever order they come in.              *)
THEOREM FrameProtection == Spec => []ProtectedWhileQueued
<1>1. IInv => ProtectedWhileQueued
    <2>1. SUFFICES ASSUME IInv, NEW i \in RafId
                   PROVE  Contains(batch \o rafCallbacks, i)
                              <=> i \in Range(batch) \cup Range(rafCallbacks)
        BY DEF ProtectedWhileQueued, IInv, RafInv, Protected
    <2>2. batch \in Seq(RafId) /\ rafCallbacks \in Seq(RafId)
        BY <2>1 DEF IInv, TypeOK
    <2>3. /\ batch \o rafCallbacks \in Seq(RafId)
          /\ Range(batch \o rafCallbacks) = Range(batch) \cup Range(rafCallbacks)
        BY <2>2, ConcatProperties, RangeConcatenation
    <2>4. QED BY <2>3, ElementsOf
<1>2. QED BY <1>1, Invariance, PTL

(* executeAnimationFrameCallbacks calls the callbacks in the order of the  *)
(* requests, none that was requested during the frame, none cancelled.     *)
THEOREM FrameOrder == Spec => CalledInOrder
<1>1. IInv /\ [Next]_vars
      => [pc' = "call" /\ pc = "frame" =>
             /\ current' < frameLimit /\ \A i \in ran : i < current'
             /\ current' \notin cancelled]_vars
    <2>1. SUFFICES ASSUME IInv, Next, pc' = "call", pc = "frame"
                   PROVE  /\ current' < frameLimit /\ \A i \in ran : i < current'
                          /\ current' \notin cancelled
        BY DEF vars, loopVars, rafVars, workVars
    <2>2. CallFrame
        BY <2>1
        DEF Next, CallFromJS, LoopStep, InJS, RequestFrame, CancelFrame, StartWork, ClearTimer,
            ProcessExit, Loaded, PollWindow, RunLateCallbacks, TakeFrames, ReturnFromFrame,
            EndPoll, CheckIdle, Shutdown, ReloadScript, EndWork
    <2>3. QED BY <2>1, <2>2, CallFrameStep
<1>2. QED BY <1>1, Invariance, PTL DEF Spec, CalledInOrder
=============================================================================
