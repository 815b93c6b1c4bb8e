-------------------------- MODULE Recorder_proofs --------------------------
(***************************************************************************)
(* Proofs about Recorder, for every number of frames and of rounds.        *)
(***************************************************************************)
EXTENDS Recorder, SequenceTheorems, TLAPS

-----------------------------------------------------------------------------
(* How the sequences change.  A sequence without repetitions keeps none    *)
(* when a new element is appended ...                                      *)
LEMMA AppendElement ==
    ASSUME NEW S, NEW s \in Seq(S), NEW e \in S
    PROVE  /\ Append(s, e) \in Seq(S)
           /\ Range(Append(s, e)) = Range(s) \cup {e}
           /\ IsInjective(s) /\ e \notin Range(s) => IsInjective(Append(s, e))
<1>1. /\ Append(s, e) \in Seq(S) /\ Len(Append(s, e)) = Len(s) + 1 /\ Len(s) \in Nat
      /\ \A i \in 1 .. Len(s) : Append(s, e)[i] = s[i]
      /\ Append(s, e)[Len(s) + 1] = e
    BY AppendProperties, LenProperties
<1>2. /\ Range(Append(s, e)) = {Append(s, e)[i] : i \in 1 .. Len(s) + 1}
      /\ Range(s) = {s[i] : i \in 1 .. Len(s)}
    BY <1>1, RangeEquality
<1>3. Range(Append(s, e)) = Range(s) \cup {e}
    <2>1. ASSUME NEW x \in Range(Append(s, e)) PROVE x \in Range(s) \cup {e}
        <3>1. PICK i \in 1 .. Len(s) + 1 : x = Append(s, e)[i]
            BY <1>2
        <3>2. CASE i = Len(s) + 1 BY <3>1, <3>2, <1>1
        <3>3. CASE i \in 1 .. Len(s) BY <3>1, <3>3, <1>1, <1>2
        <3>4. QED BY <3>2, <3>3, <1>1
    <2>2. ASSUME NEW x \in Range(s) PROVE x \in Range(Append(s, e))
        <3>1. PICK i \in 1 .. Len(s) : x = s[i]
            BY <1>2
        <3>2. x = Append(s, e)[i] /\ i \in 1 .. Len(s) + 1
            BY <3>1, <1>1
        <3>3. QED BY <3>2, <1>2
    <2>3. e \in Range(Append(s, e))
        BY <1>1, <1>2
    <2>4. QED BY <2>1, <2>2, <2>3
<1>4. ASSUME IsInjective(s), e \notin Range(s) PROVE IsInjective(Append(s, e))
    <2>1. \A i, j \in 1 .. Len(s) : s[i] = s[j] => i = j
        BY <1>4, LenProperties DEF IsInjective
    <2>2. \A i \in 1 .. Len(s) : s[i] # e
        BY <1>4, <1>2
    <2>3. DOMAIN Append(s, e) = 1 .. Len(s) + 1
        BY <1>1, LenProperties
    <2>4. QED BY <1>1, <2>1, <2>2, <2>3 DEF IsInjective
<1>5. QED BY <1>1, <1>3, <1>4

(* ... or its first is taken ...                                           *)
LEMMA TakeHead ==
    ASSUME NEW S, NEW s \in Seq(S), s # <<>>
    PROVE  /\ Head(s) \in S /\ Head(s) \in Range(s) /\ Tail(s) \in Seq(S)
           /\ IsInjective(s) => /\ IsInjective(Tail(s))
                                /\ Range(Tail(s)) = Range(s) \ {Head(s)}
<1>1. /\ Head(s) \in S /\ Tail(s) \in Seq(S) /\ Len(Tail(s)) = Len(s) - 1
      /\ \A i \in 1 .. Len(s) - 1 : Tail(s)[i] = s[i + 1]
      /\ Len(s) \in Nat \ {0} /\ Head(s) = s[1]
    BY HeadTailProperties, EmptySeq
<1>2. /\ Range(s) = {s[i] : i \in 1 .. Len(s)}
      /\ Range(Tail(s)) = {Tail(s)[i] : i \in 1 .. Len(s) - 1}
    BY <1>1, RangeEquality
<1>3. DOMAIN s = 1 .. Len(s) /\ DOMAIN Tail(s) = 1 .. Len(s) - 1
    BY <1>1, LenProperties
<1>4. Head(s) \in Range(s)
    BY <1>1, <1>2
<1>5. ASSUME IsInjective(s)
      PROVE  IsInjective(Tail(s)) /\ Range(Tail(s)) = Range(s) \ {Head(s)}
    <2>1. \A i, j \in 1 .. Len(s) : s[i] = s[j] => i = j
        BY <1>5, <1>3 DEF IsInjective
    <2>2. IsInjective(Tail(s))
        BY <2>1, <1>1, <1>3 DEF IsInjective
    <2>3. ASSUME NEW x \in Range(Tail(s)) PROVE x \in Range(s) \ {Head(s)}
        <3>1. PICK i \in 1 .. Len(s) - 1 : x = Tail(s)[i]
            BY <1>2
        <3>2. x = s[i + 1] /\ i + 1 \in 1 .. Len(s) /\ i + 1 # 1 /\ 1 \in 1 .. Len(s)
            BY <3>1, <1>1
        <3>3. QED BY <3>2, <2>1, <1>1, <1>2
    <2>4. ASSUME NEW x \in Range(s) \ {Head(s)} PROVE x \in Range(Tail(s))
        <3>1. PICK i \in 1 .. Len(s) : x = s[i]
            BY <1>2
        <3>2. i - 1 \in 1 .. Len(s) - 1
            BY <3>1, <1>1
        <3>3. x = Tail(s)[i - 1]
            BY <3>1, <3>2, <1>1
        <3>4. QED BY <3>2, <3>3, <1>2
    <2>5. QED BY <2>2, <2>3, <2>4
<1>6. QED BY <1>1, <1>4, <1>5

(* ... or any one is removed.                                              *)
LEMMA RemoveElement ==
    ASSUME NEW S, NEW s \in Seq(S), NEW n \in 1 .. Len(s)
    PROVE  /\ RemoveAt(s, n) \in Seq(S)
           /\ Len(RemoveAt(s, n)) = Len(s) - 1
           /\ \A i \in 1 .. Len(s) - 1 : RemoveAt(s, n)[i] = s[IF i < n THEN i ELSE i + 1]
           /\ s[n] \in Range(s)
           /\ IsInjective(s) => /\ IsInjective(RemoveAt(s, n))
                                /\ Range(RemoveAt(s, n)) = Range(s) \ {s[n]}
<1>0. Len(s) \in Nat /\ n \in Nat /\ 1 <= n /\ n <= Len(s) /\ \A i \in 1 .. Len(s) : s[i] \in S
    BY LenProperties, ElementOfSeq
<1>1. PICK a : a = SubSeq(s, 1, n - 1)
    OBVIOUS
<1>2. PICK b : b = SubSeq(s, n + 1, Len(s))
    OBVIOUS
<1>3. /\ a \in Seq(S) /\ Len(a) = n - 1
      /\ \A i \in 1 .. n - 1 : a[i] = s[i]
    <2>1. \A i \in 1 .. n - 1 : s[i] \in S
        BY <1>0
    <2>2. /\ SubSeq(s, 1, n - 1) \in Seq(S)
          /\ Len(SubSeq(s, 1, n - 1)) = IF 1 <= n - 1 THEN n - 1 - 1 + 1 ELSE 0
          /\ \A i \in 1 .. n - 1 - 1 + 1 : SubSeq(s, 1, n - 1)[i] = s[1 + i - 1]
        BY <2>1, <1>0, SubSeqProperties
    <2>3. QED BY <2>2, <1>1, <1>0
<1>4. /\ b \in Seq(S) /\ Len(b) = Len(s) - n
      /\ \A i \in 1 .. Len(s) - n : b[i] = s[n + i]
    <2>1. \A i \in n + 1 .. Len(s) : s[i] \in S
        BY <1>0
    <2>2. /\ SubSeq(s, n + 1, Len(s)) \in Seq(S)
          /\ Len(SubSeq(s, n + 1, Len(s)))
                = IF n + 1 <= Len(s) THEN Len(s) - (n + 1) + 1 ELSE 0
          /\ \A i \in 1 .. Len(s) - (n + 1) + 1 :
                SubSeq(s, n + 1, Len(s))[i] = s[n + 1 + i - 1]
        BY <2>1, <1>0, SubSeqProperties
    <2>3. QED BY <2>2, <1>2, <1>0
<1>5. PICK r : r = RemoveAt(s, n)
    OBVIOUS
<1>6. r = a \o b
    BY <1>1, <1>2, <1>5 DEF RemoveAt
<1>7. /\ r \in Seq(S) /\ Len(r) = Len(s) - 1
      /\ \A i \in 1 .. Len(s) - 1 : r[i] = s[IF i < n THEN i ELSE i + 1]
    <2>1. /\ a \o b \in Seq(S) /\ Len(a \o b) = Len(a) + Len(b)
          /\ \A i \in 1 .. Len(a) + Len(b) :
                (a \o b)[i] = IF i <= Len(a) THEN a[i] ELSE b[i - Len(a)]
        BY <1>3, <1>4, ConcatProperties
    <2>2. r \in Seq(S) /\ Len(r) = Len(s) - 1
        <3>1. r \in Seq(S) /\ Len(r) = Len(a) + Len(b)
            BY <2>1, <1>6
        <3>2. QED BY <3>1, <1>3, <1>4, <1>0
    <2>3. ASSUME NEW i \in 1 .. Len(s) - 1
          PROVE  r[i] = s[IF i < n THEN i ELSE i + 1]
        <3>1. r[i] = IF i <= n - 1 THEN a[i] ELSE b[i - (n - 1)]
            BY <2>1, <1>3, <1>4, <1>6, <1>0
        <3>2. CASE i < n
            BY <3>1, <3>2, <1>3, <1>0
        <3>3. CASE ~(i < n)
            <4>1. i - (n - 1) \in 1 .. Len(s) - n /\ n + (i - (n - 1)) = i + 1
                BY <3>3, <1>0
            <4>2. QED BY <4>1, <3>1, <3>3, <1>4, <1>0
        <3>4. QED BY <3>2, <3>3
    <2>4. QED BY <2>2, <2>3
<1>8. /\ Range(s) = {s[i] : i \in 1 .. Len(s)}
      /\ Range(r) = {r[i] : i \in 1 .. Len(s) - 1}
    BY <1>7, RangeEquality
<1>9. DOMAIN s = 1 .. Len(s) /\ DOMAIN r = 1 .. Len(s) - 1
    BY <1>7, LenProperties
<1>10. ASSUME IsInjective(s)
       PROVE  IsInjective(r) /\ Range(r) = Range(s) \ {s[n]}
    <2>1. \A i, j \in 1 .. Len(s) : s[i] = s[j] => i = j
        BY <1>10, <1>9 DEF IsInjective
    <2>2. IsInjective(r)
        <3>1. SUFFICES ASSUME NEW i \in 1 .. Len(s) - 1, NEW j \in 1 .. Len(s) - 1, r[i] = r[j]
                       PROVE  i = j
            BY <1>9 DEF IsInjective
        <3>2. /\ r[i] = s[IF i < n THEN i ELSE i + 1]
              /\ r[j] = s[IF j < n THEN j ELSE j + 1]
            BY <1>7
        <3>3. PICK k \in 1 .. Len(s) : k = IF i < n THEN i ELSE i + 1
            BY <1>0
        <3>4. PICK l \in 1 .. Len(s) : l = IF j < n THEN j ELSE j + 1
            BY <1>0
        <3>5. k = l
            BY <3>1, <3>2, <3>3, <3>4, <2>1
        <3>6. QED BY <3>3, <3>4, <3>5, <1>0
    <2>3. ASSUME NEW x \in Range(r) PROVE x \in Range(s) \ {s[n]}
        <3>1. PICK i \in 1 .. Len(s) - 1 : x = r[i]
            BY <1>8
        <3>2. PICK k \in 1 .. Len(s) : k = IF i < n THEN i ELSE i + 1
            BY <1>0
        <3>3. x = s[k] /\ k # n
            BY <3>1, <3>2, <1>7
        <3>4. QED BY <3>3, <2>1, <1>8
    <2>4. ASSUME NEW x \in Range(s) \ {s[n]} PROVE x \in Range(r)
        <3>1. PICK k \in 1 .. Len(s) : x = s[k]
            BY <1>8
        <3>2. PICK i \in 1 .. Len(s) - 1 : k = IF i < n THEN i ELSE i + 1
            <4>1. k # n
                BY <3>1
            <4>2. CASE k < n
                BY <4>2, <1>0
            <4>3. CASE k > n
                <5>1. k - 1 \in 1 .. Len(s) - 1 /\ ~(k - 1 < n) /\ k - 1 + 1 = k
                    BY <4>3, <1>0
                <5>2. QED BY <5>1
            <4>4. QED BY <4>1, <4>2, <4>3, <1>0
        <3>3. x = r[i]
            BY <3>1, <3>2, <1>7
        <3>4. QED BY <3>3, <1>8
    <2>5. QED BY <2>2, <2>3, <2>4
<1>11. s[n] \in Range(s)
    BY <1>8
<1>12. QED BY <1>5, <1>7, <1>10, <1>11

-----------------------------------------------------------------------------
(* Where the threads are, and what they have in hand there.                *)
PhaseInv ==
    /\ main \in {"scan", "process", "capture"} /\ round = 0 => frameNumber < MaxFrames
    /\ main \in {"frame", "capture"} => round = 0
    /\ main \notin {"scan", "process"} => toProcess = <<>>
    /\ main \in {"signal", "join", "finalize", "stopped"} => pending = <<>>
    /\ main \in {"finalize", "stopped"} => encoder = "exit"
    /\ encodingDone => main \in {"join", "finalize", "stopped"}
    /\ encoder \in {"count", "exit"} => encodingDone
    /\ encoder = "exit" => frameQueue = <<>>
    /\ encoder = "encode" <=> encoding # 0

(* The frame in the hands of the encoder thread.                           *)
Encoding == {encoding} \ {0}

NoRepetition ==
    IsInjective(pending) /\ IsInjective(toProcess)
    /\ IsInjective(frameQueue) /\ IsInjective(encoded)

(* Every captured frame is in one place, from the pending buffers to the   *)
(* file or to those given up.                                              *)
InOnePlace(P, T, Q, E, W, F, D, G, all) ==
    /\ P \cup T \cup Q \cup E \cup W \cup F \cup D \cup G = all
    /\ P \cap T = {}
    /\ (P \cup T) \cap Q = {}
    /\ (P \cup T \cup Q) \cap E = {}
    /\ (P \cup T \cup Q \cup E) \cap W = {}
    /\ (P \cup T \cup Q \cup E \cup W) \cap F = {}
    /\ (P \cup T \cup Q \cup E \cup W \cup F) \cap D = {}
    /\ (P \cup T \cup Q \cup E \cup W \cup F \cup D) \cap G = {}

FramesInv ==
    InOnePlace(Range(pending), Range(toProcess), Range(frameQueue), Encoding, Range(encoded),
               failed, dropped, discarded, Captured)

(* Without a thread of the library the main thread executes the callback   *)
(* that is under way, and never during a scan; the buffers found by a scan *)
(* have been called back for; what is being mapped has its cells.          *)
MapInv ==
    /\ ~ownThread => \A f \in Frame : UnderWay(f) => f = inCallback
    /\ inCallback # 0 => main # "scan"
    /\ \A f \in Range(toProcess) : Complete(f)
    /\ \A f \in Frame : map[f] = "mapping" => f \in (flags \cap statuses) \ discarded
    /\ FlagsOutliveMapping

IInv == TypeOK /\ PhaseInv /\ NoRepetition /\ FramesInv /\ MapInv

-----------------------------------------------------------------------------
LEMMA InitEstablishes == Init => IInv
<1> SUFFICES ASSUME Init PROVE IInv
    OBVIOUS
<1>1. TypeOK
    <2>1. /\ main \in MainPhase /\ encoder \in EncoderPhase /\ map \in [Frame -> MapState]
          /\ mapped \subseteq Frame /\ flags \subseteq Frame /\ statuses \subseteq Frame
          /\ inCallback \in Frame \cup {0} /\ failed \subseteq Frame
          /\ dropped \subseteq Frame /\ discarded \subseteq Frame
        BY DEF Init, MainPhase, EncoderPhase, MapState
    <2>2. /\ pending \in Seq(Frame) /\ toProcess \in Seq(Frame)
          /\ frameQueue \in Seq(Frame) /\ encoded \in Seq(Frame)
        BY EmptySeq DEF Init
    <2>3. /\ round \in 0 .. Rounds /\ frameNumber \in 0 .. MaxFrames
          /\ next \in Nat \ {0} /\ encoding \in Frame \cup {0}
        BY MaxFramesAssumption, RoundsAssumption DEF Init
    <2>4. ownThread \in BOOLEAN /\ encodingDone \in BOOLEAN
        BY Zenon DEF Init
    <2>5. QED BY <2>1, <2>2, <2>3, <2>4 DEF TypeOK
<1>2. PhaseInv
    BY DEF Init, PhaseInv
<1>3. NoRepetition /\ FramesInv /\ MapInv
    <2>1. Range(<<>>) = {} /\ IsInjective(<<>>)
        BY DEF Range, IsInjective
    <2>2. Captured = {} /\ Encoding = {}
        BY DEF Init, Captured, Encoding
    <2>3. QED
        BY <2>1, <2>2
        DEF Init, NoRepetition, FramesInv, InOnePlace, MapInv, UnderWay, FlagsOutliveMapping
<1>4. QED BY <1>1, <1>2, <1>3 DEF IInv

-----------------------------------------------------------------------------
(* The callbacks of the GPU library.                                       *)
LEMMA CallbackKeepsFrames ==
    ASSUME IInv, NEW f \in Frame, CallBack(f) \/ WriteStatus(f) \/ SetComplete(f)
    PROVE  TypeOK' /\ PhaseInv' /\ NoRepetition' /\ FramesInv'
<1>1. UNCHANGED <<ownThread, flags, statuses, mainVars, frameQueue, encodingDone, encoderVars>>
    BY DEF CallBack, WriteStatus, SetComplete
<1>2. map' \in [Frame -> MapState] /\ mapped' \subseteq Frame /\ inCallback' \in Frame \cup {0}
    <2>1. PICK state \in MapState : map' = [map EXCEPT ![f] = state]
        BY DEF CallBack, WriteStatus, SetComplete, MapState
    <2>2. mapped' \subseteq Frame /\ inCallback' \in Frame \cup {0}
        BY DEF CallBack, WriteStatus, SetComplete, IInv, TypeOK
    <2>3. QED BY <2>1, <2>2 DEF IInv, TypeOK
<1>3. TypeOK'
    BY <1>1, <1>2 DEF IInv, TypeOK, mainVars, encoderVars
<1>4. PhaseInv' /\ NoRepetition' /\ FramesInv'
    BY <1>1 DEF IInv, PhaseInv, NoRepetition, FramesInv, Encoding, Captured, mainVars,
                encoderVars
<1>5. QED BY <1>3, <1>4

LEMMA CallBackStep == ASSUME IInv, NEW f \in Frame, CallBack(f) PROVE IInv'
<1>1. /\ UNCHANGED <<ownThread, flags, statuses, main, toProcess, discarded>>
      /\ map[f] = "mapping" /\ \A g \in Frame : UnderWay(g) => g = inCallback
      /\ ownThread => inCallback' = inCallback
      /\ ~ownThread => inCallback = 0 /\ inCallback' = f /\ main # "scan"
    BY DEF CallBack, mainVars
<1>2. map'[f] = "called" /\ \A g \in Frame \ {f} : map'[g] = map[g]
    BY DEF CallBack, IInv, TypeOK
<1>3. Range(toProcess) \subseteq Frame
    BY RangeOfSeq DEF IInv, TypeOK
<1>4. MapInv
    BY DEF IInv
<1>5. FlagsOutliveMapping'
    <2>1. f \in flags /\ f \in statuses
        BY <1>1, <1>4 DEF MapInv
    <2>2. SUFFICES ASSUME NEW g \in Frame \ {f}, g \in discarded \ {inCallback'} => ~ownThread
                   PROVE  /\ map[g] \in {"mapping", "called"} => g \in statuses
                          /\ map[g] \in {"mapping", "called", "written"} => g \in flags
        BY <1>1, <1>2, <2>1 DEF FlagsOutliveMapping
    <2>3. g \in discarded \ {inCallback} => ~ownThread
        BY <1>1, <2>2
    <2>4. QED BY <1>4, <2>3 DEF MapInv, FlagsOutliveMapping
<1>6. MapInv'
    <2>1. \A g \in Frame : map'[g] = "mapping" => g \in (flags \cap statuses) \ discarded
        BY <1>2, <1>4 DEF MapInv
    <2>2. ~ownThread => \A g \in Frame : map'[g] \in {"called", "written"} => g = f
        BY <1>1, <1>2 DEF UnderWay, Frame
    <2>3. \A g \in Range(toProcess) : map'[g] = "complete"
        BY <1>1, <1>2, <1>3, <1>4 DEF MapInv, Complete
    <2>4. inCallback' # 0 => main # "scan"
        BY <1>1, <1>4 DEF MapInv
    <2>5. QED BY <1>1, <1>5, <2>1, <2>2, <2>3, <2>4 DEF MapInv, Complete, UnderWay
<1>7. QED BY <1>6, CallbackKeepsFrames DEF IInv

LEMMA CallbackStepKeeps ==
    ASSUME IInv, NEW f \in Frame, WriteStatus(f) \/ SetComplete(f)
    PROVE  IInv'
<1>1. /\ UNCHANGED <<ownThread, flags, statuses, main, toProcess, discarded>>
      /\ inCallback' = IF map[f] = "written" /\ inCallback = f THEN 0 ELSE inCallback
      /\ UnderWay(f)
    BY DEF WriteStatus, SetComplete, mainVars, UnderWay
<1>2. /\ map'[f] = IF map[f] = "called" THEN "written" ELSE "complete"
      /\ \A g \in Frame \ {f} : map'[g] = map[g]
    BY DEF WriteStatus, SetComplete, IInv, TypeOK
<1>3. Range(toProcess) \subseteq Frame
    BY RangeOfSeq DEF IInv, TypeOK
<1>4. MapInv
    BY DEF IInv
<1>5. FlagsOutliveMapping'
    <2>1. ASSUME NEW g \in Frame, g \in discarded \ {inCallback'} => ~ownThread, map'[g] # "complete"
          PROVE  g \in discarded \ {inCallback} => ~ownThread
        BY <1>1, <2>1 DEF Frame
    <2>2. SUFFICES ASSUME NEW g \in Frame, g \in discarded \ {inCallback'} => ~ownThread
                   PROVE  /\ map'[g] \in {"mapping", "called"} => g \in statuses
                          /\ map'[g] \in {"mapping", "called", "written"} => g \in flags
        BY <1>1 DEF FlagsOutliveMapping
    <2>3. CASE map'[g] = "complete"
        BY <2>3
    <2>4. CASE map'[g] # "complete"
        <3>1. g \in discarded \ {inCallback} => ~ownThread
            BY <2>1, <2>2, <2>4
        <3>2. /\ map[g] \in {"mapping", "called"} => g \in statuses
              /\ map[g] \in {"mapping", "called", "written"} => g \in flags
            BY <1>4, <3>1 DEF MapInv, FlagsOutliveMapping
        <3>3. QED BY <1>1, <1>2, <2>4, <3>2 DEF UnderWay
    <2>5. QED BY <2>3, <2>4
<1>6. MapInv'
    <2>1. \A g \in Frame : map'[g] = "mapping" => g \in (flags \cap statuses) \ discarded
        BY <1>2, <1>4 DEF MapInv
    <2>2. ~ownThread => \A g \in Frame : map'[g] \in {"called", "written"} => g = inCallback'
        BY <1>1, <1>2, <1>4 DEF MapInv, UnderWay
    <2>3. \A g \in Range(toProcess) : map'[g] = "complete"
        BY <1>1, <1>2, <1>3, <1>4 DEF MapInv, Complete, UnderWay
    <2>4. inCallback' # 0 => main # "scan"
        BY <1>1, <1>4 DEF MapInv
    <2>5. QED BY <1>1, <1>5, <2>1, <2>2, <2>3, <2>4 DEF MapInv, Complete, UnderWay
<1>7. QED BY <1>6, CallbackKeepsFrames DEF IInv

(* The steps of the main thread that only lead from one phase to the next. *)
LEMMA PhaseStep ==
    ASSUME IInv, inCallback = 0,
           \/ BeginCapture \/ ScanDone \/ Processed \/ CaptureFails \/ StopRecording
           \/ Discarded \/ SignalEncoder \/ Join \/ Finalize
    PROVE  IInv'
<1> USE MaxFramesAssumption, RoundsAssumption
<1> USE DEF BeginCapture, ScanDone, Processed, CaptureFails, StopRecording, Discarded,
            SignalEncoder, Join, Finalize, gpuVars, encoderVars
<1>1. TypeOK'
    <2>1. /\ main' \in MainPhase /\ round' \in 0 .. Rounds /\ next' \in Nat \ {0}
          /\ encodingDone' \in BOOLEAN
        <3> USE DEF IInv, TypeOK, MainPhase
        <3>1. CASE BeginCapture \/ ScanDone \/ CaptureFails BY <3>1
        <3>2. CASE Processed BY <3>2
        <3>3. CASE StopRecording \/ Discarded BY <3>3
        <3>4. CASE SignalEncoder \/ Join \/ Finalize BY <3>4
        <3>5. QED BY <3>1, <3>2, <3>3, <3>4
    <2>2. UNCHANGED <<gpuVars, frameNumber, pending, toProcess, dropped, discarded, frameQueue,
                      encoderVars>>
        OBVIOUS
    <2>3. QED BY ONLY IInv, <2>1, <2>2 DEF IInv, TypeOK, gpuVars, encoderVars
<1>2. PhaseInv'
    <2> USE DEF IInv, TypeOK, PhaseInv
    <2>1. CASE BeginCapture \/ ScanDone \/ CaptureFails BY <2>1
    <2>2. CASE Processed BY <2>2
    <2>3. CASE StopRecording \/ Discarded BY <2>3
    <2>4. CASE SignalEncoder \/ Join \/ Finalize BY <2>4
    <2>5. QED BY <2>1, <2>2, <2>3, <2>4
<1>3. UNCHANGED <<pending, toProcess, frameQueue, encoding, encoded, failed, dropped,
                  discarded, frameNumber, gpuVars>>
    OBVIOUS
<1>4. NoRepetition' /\ FramesInv' /\ MapInv'
    BY <1>3 DEF IInv, NoRepetition, FramesInv, Encoding, Captured, MapInv, Complete, UnderWay,
                FlagsOutliveMapping
<1>5. QED BY <1>1, <1>2, <1>4 DEF IInv

(* A scan takes a mapped buffer out of the pending ones.                   *)
LEMMA ScanStep == ASSUME IInv, inCallback = 0, Scan PROVE IInv'
<1> USE DEF Scan, gpuVars, encoderVars
<1>1. CASE ~Complete(pending[next])
    <2>1. next' = next + 1 /\ UNCHANGED <<pending, toProcess>>
        BY <1>1
    <2>2. TypeOK' /\ PhaseInv'
        BY <2>1 DEF IInv, TypeOK, PhaseInv
    <2>3. NoRepetition' /\ FramesInv' /\ MapInv'
        BY <2>1 DEF IInv, NoRepetition, FramesInv, Encoding, Captured, MapInv, Complete, UnderWay,
                    FlagsOutliveMapping
    <2>4. QED BY <2>2, <2>3 DEF IInv
<1>2. CASE Complete(pending[next])
    <2>1. PICK f : f = pending[next]
        OBVIOUS
    <2>2. next \in 1 .. Len(pending) /\ pending \in Seq(Frame) /\ toProcess \in Seq(Frame)
        BY LenProperties DEF IInv, TypeOK
    <2>3. f \in Frame
        BY <2>1, <2>2, ElementOfSeq
    <2>4. toProcess' = Append(toProcess, f) /\ pending' = RemoveAt(pending, next) /\ next' = next
        BY <1>2, <2>1
    <2>5. /\ pending' \in Seq(Frame) /\ IsInjective(pending') /\ f \in Range(pending)
          /\ Range(pending') = Range(pending) \ {f}
        BY <2>1, <2>2, <2>4, RemoveElement DEF IInv, NoRepetition
    <2>6. f \notin Range(toProcess)
        BY <2>5 DEF IInv, FramesInv, InOnePlace
    <2>7. /\ toProcess' \in Seq(Frame) /\ IsInjective(toProcess')
          /\ Range(toProcess') = Range(toProcess) \cup {f}
        BY <2>2, <2>3, <2>4, <2>6, AppendElement DEF IInv, NoRepetition
    <2>8. TypeOK' /\ PhaseInv'
        BY <2>4, <2>5, <2>7 DEF IInv, TypeOK, PhaseInv
    <2>9. NoRepetition'
        BY <2>5, <2>7 DEF IInv, NoRepetition
    <2>10. FramesInv'
        BY <2>5, <2>7 DEF IInv, FramesInv, InOnePlace, Encoding, Captured
    <2>11. MapInv'
        BY <1>2, <2>1, <2>7 DEF IInv, MapInv, Complete, UnderWay, FlagsOutliveMapping
    <2>12. QED BY <2>8, <2>9, <2>10, <2>11 DEF IInv
<1>3. QED BY <1>1, <1>2

(* A mapped buffer is handed to the encoder thread, or dropped.            *)
LEMMA ProcessStep == ASSUME IInv, inCallback = 0, Process PROVE IInv'
<1> USE DEF Process, encoderVars
<1>1. PICK f : f = Head(toProcess)
    OBVIOUS
<1>2. /\ f \in Frame /\ f \in Range(toProcess)
      /\ toProcess' \in Seq(Frame) /\ IsInjective(toProcess')
      /\ Range(toProcess') = Range(toProcess) \ {f}
    BY <1>1, TakeHead DEF IInv, TypeOK, NoRepetition
<1>3. /\ flags' = flags \ {f} /\ statuses' = statuses \ {f}
      /\ UNCHANGED <<ownThread, inCallback, map, mapped, discarded>>
    BY <1>1
<1>4. f \notin Range(frameQueue) /\ frameQueue \in Seq(Frame)
    BY <1>2 DEF IInv, TypeOK, FramesInv, InOnePlace
<1>5. ~encodingDone /\ encoder # "exit"
    BY DEF IInv, PhaseInv
<1>6. MapInv'
    BY <1>2, <1>3 DEF IInv, MapInv, Complete, UnderWay, FlagsOutliveMapping
<1>7. CASE frameQueue' = Append(frameQueue, f) /\ UNCHANGED dropped
    <2>1. /\ frameQueue' \in Seq(Frame) /\ IsInjective(frameQueue')
          /\ Range(frameQueue') = Range(frameQueue) \cup {f}
        BY <1>2, <1>4, <1>7, AppendElement DEF IInv, NoRepetition
    <2>2. TypeOK' /\ PhaseInv'
        BY <1>2, <1>3, <1>5, <1>7, <2>1 DEF IInv, TypeOK, PhaseInv
    <2>3. NoRepetition'
        BY <1>2, <2>1 DEF IInv, NoRepetition
    <2>4. FramesInv'
        BY <1>2, <1>7, <2>1 DEF IInv, FramesInv, InOnePlace, Encoding, Captured
    <2>5. QED BY <1>6, <2>2, <2>3, <2>4 DEF IInv
<1>8. CASE dropped' = dropped \cup {f} /\ UNCHANGED frameQueue
    <2>1. TypeOK' /\ PhaseInv'
        BY <1>2, <1>3, <1>5, <1>8 DEF IInv, TypeOK, PhaseInv
    <2>2. NoRepetition'
        BY <1>2, <1>8 DEF IInv, NoRepetition
    <2>3. FramesInv'
        BY <1>2, <1>8 DEF IInv, FramesInv, InOnePlace, Encoding, Captured
    <2>4. QED BY <1>6, <2>1, <2>2, <2>3 DEF IInv
<1>9. QED BY <1>1, <1>7, <1>8

(* A frame is captured.                                                    *)
LEMMA CaptureStep == ASSUME IInv, inCallback = 0, Capture PROVE IInv'
<1> USE MaxFramesAssumption DEF Capture, encoderVars
<1>1. PICK f : f = frameNumber + 1
    OBVIOUS
<1>2. /\ frameNumber' = f /\ map' = [map EXCEPT ![f] = "mapping"] /\ flags' = flags \cup {f}
      /\ statuses' = statuses \cup {f} /\ pending' = Append(pending, f)
      /\ UNCHANGED <<ownThread, inCallback, mapped, discarded>>
    BY <1>1
<1>3. f \in Frame /\ frameNumber \in Nat /\ f \in 0 .. MaxFrames
    BY <1>1 DEF IInv, TypeOK, PhaseInv, Frame
<1>4. Captured' = Captured \cup {f} /\ f \notin Captured
    BY <1>1, <1>2, <1>3 DEF Captured
<1>5. f \notin Range(pending) /\ pending \in Seq(Frame)
    BY <1>4 DEF IInv, TypeOK, FramesInv, InOnePlace
<1>6. /\ pending' \in Seq(Frame) /\ IsInjective(pending')
      /\ Range(pending') = Range(pending) \cup {f}
    BY <1>2, <1>3, <1>5, AppendElement DEF IInv, NoRepetition
<1>7. TypeOK'
    BY <1>2, <1>3, <1>6 DEF IInv, TypeOK, MainPhase, MapState
<1>8. PhaseInv' /\ toProcess = <<>>
    BY DEF IInv, PhaseInv
<1>9. NoRepetition'
    BY <1>6 DEF IInv, NoRepetition
<1>10. FramesInv'
    BY <1>4, <1>6 DEF IInv, FramesInv, InOnePlace, Encoding
<1>11. MapInv'
    <2>1. \A g \in Frame : g # f => map'[g] = map[g]
        BY <1>2 DEF IInv, TypeOK
    <2>2. Range(toProcess') = {}
        BY <1>8 DEF Range
    <2>3. map'[f] = "mapping"
        BY <1>2, <1>3 DEF IInv, TypeOK
    <2>4. f \notin discarded
        BY <1>4 DEF IInv, FramesInv, InOnePlace
    <2>5. FlagsOutliveMapping'
        BY <1>2, <2>1 DEF IInv, MapInv, FlagsOutliveMapping
    <2>6. QED
        BY <1>2, <2>1, <2>2, <2>3, <2>4, <2>5 DEF IInv, MapInv, Complete, UnderWay
<1>12. QED BY <1>7, <1>8, <1>9, <1>10, <1>11 DEF IInv

(* A buffer not mapped in time is destroyed: the main thread executes its  *)
(* callback, if nobody else does.                                          *)
LEMMA DestroyStep == ASSUME IInv, inCallback = 0, DestroyBuffer PROVE IInv'
<1> USE DEF DestroyBuffer, GiveUpOldest, encoderVars
<1>1. PICK f : f = Head(pending)
    OBVIOUS
<1>2. /\ f \in Frame /\ f \in Range(pending)
      /\ pending' \in Seq(Frame) /\ IsInjective(pending')
      /\ Range(pending') = Range(pending) \ {f}
    BY <1>1, TakeHead DEF IInv, TypeOK, NoRepetition
<1>3. /\ map' = (IF map[f] = "mapping" THEN [map EXCEPT ![f] = "called"] ELSE map)
      /\ inCallback' = (IF map[f] = "mapping" THEN f ELSE inCallback)
      /\ discarded' = discarded \cup {f} /\ main' = "free"
      /\ UNCHANGED <<ownThread, mapped, flags, statuses>>
    BY <1>1
<1>4. /\ map' \in [Frame -> MapState] /\ inCallback' \in Frame \cup {0}
      /\ map'[f] = IF map[f] = "mapping" THEN "called" ELSE map[f]
      /\ \A g \in Frame : g # f => map'[g] = map[g]
    BY <1>2, <1>3 DEF IInv, TypeOK, MapState
<1>5. TypeOK'
    BY <1>2, <1>3, <1>4 DEF IInv, TypeOK, MainPhase
<1>6. PhaseInv' /\ toProcess = <<>>
    BY DEF IInv, PhaseInv
<1>7. NoRepetition'
    BY <1>2 DEF IInv, NoRepetition
<1>8. FramesInv'
    BY <1>2, <1>3 DEF IInv, FramesInv, InOnePlace, Encoding, Captured
<1>9. MapInv'
    <2>1. Range(toProcess') = {}
        BY <1>6 DEF Range
    <2>2. ~ownThread => \A g \in Frame : map[g] \notin {"called", "written"}
        BY DEF IInv, MapInv, UnderWay, Frame
    <2>3. FlagsOutliveMapping'
        <3>1. SUFFICES ASSUME NEW g \in Frame, g \in discarded' \ {inCallback'} => ~ownThread
                       PROVE  /\ map'[g] \in {"mapping", "called"} => g \in statuses
                              /\ map'[g] \in {"mapping", "called", "written"} => g \in flags
            BY <1>3 DEF FlagsOutliveMapping
        <3>2. \A h \in Frame : map[h] = "mapping" => h \in (flags \cap statuses) \ discarded
            BY DEF IInv, MapInv
        <3>3. CASE g = f
            BY <1>3, <1>4, <2>2, <3>1, <3>2, <3>3 DEF Frame
        <3>4. CASE g # f
            <4>1. (g \in discarded \ {inCallback} => ~ownThread) /\ map'[g] = map[g]
                BY <1>3, <1>4, <3>1, <3>4
            <4>2. QED BY <4>1 DEF IInv, MapInv, FlagsOutliveMapping
        <3>5. QED BY <3>3, <3>4
    <2>4. ~ownThread => \A g \in Frame : map'[g] \in {"called", "written"} => g = inCallback'
        BY <1>3, <1>4, <2>2
    <2>5. \A g \in Frame : map'[g] = "mapping" => g \in (flags \cap statuses) \ discarded'
        BY <1>3, <1>4 DEF IInv, MapInv
    <2>6. QED BY <1>3, <2>1, <2>3, <2>4, <2>5 DEF MapInv, UnderWay
<1>10. QED BY <1>5, <1>6, <1>7, <1>8, <1>9 DEF IInv

(* Then its cells are freed.  A callback that has still to write to them   *)
(* is not executed by the main thread.                                     *)
LEMMA FreeStep == ASSUME IInv, inCallback = 0, FreeFlag \/ FreeStatus PROVE IInv'
<1> USE DEF FreeFlag, FreeStatus, encoderVars
<1>1. /\ UNCHANGED <<ownThread, inCallback, map, mapped, pending, toProcess, frameQueue, encoding,
                     encoded, failed, dropped, discarded, frameNumber>>
      /\ flags' \subseteq flags /\ flags \ discarded \subseteq flags'
      /\ statuses' \subseteq statuses /\ statuses \ discarded \subseteq statuses'
      /\ main' \in {"freeStatus", "discard"}
    OBVIOUS
<1>2. TypeOK'
    BY <1>1 DEF IInv, TypeOK, MainPhase
<1>3. PhaseInv'
    BY DEF IInv, PhaseInv
<1>4. NoRepetition' /\ FramesInv'
    BY <1>1 DEF IInv, NoRepetition, FramesInv, Encoding, Captured
<1>5. \A g \in discarded : map[g] # "mapping"
    BY DEF IInv, TypeOK, MapInv
<1>6. MapInv'
    <2>1. \A g \in Frame : map[g] = "mapping" => g \in (flags' \cap statuses') \ discarded
        BY <1>1, <1>5 DEF IInv, MapInv
    <2>2. ~ownThread => \A g \in Frame : map[g] \notin {"called", "written"}
        BY DEF IInv, MapInv, UnderWay, Frame
    <2>3. FlagsOutliveMapping'
        <3>1. SUFFICES ASSUME NEW g \in Frame, g \in discarded \ {inCallback} => ~ownThread
                       PROVE  /\ map[g] \in {"mapping", "called"} => g \in statuses'
                              /\ map[g] \in {"mapping", "called", "written"} => g \in flags'
            BY <1>1 DEF FlagsOutliveMapping
        <3>2. /\ map[g] \in {"mapping", "called"} => g \in statuses
              /\ map[g] \in {"mapping", "called", "written"} => g \in flags
            BY <3>1 DEF IInv, MapInv, FlagsOutliveMapping
        <3>3. CASE g \in discarded
            BY <1>5, <2>2, <3>1, <3>3 DEF Frame
        <3>4. CASE g \notin discarded
            BY <1>1, <3>2, <3>4
        <3>5. QED BY <3>3, <3>4
    <2>4. QED BY <1>1, <2>1, <2>3 DEF IInv, MapInv, Complete, UnderWay
<1>7. QED BY <1>2, <1>3, <1>4, <1>6 DEF IInv

-----------------------------------------------------------------------------
(* The encoder thread.                                                     *)
LEMMA CheckStep == ASSUME IInv, CheckDone \/ CheckCount PROVE IInv'
<1> USE DEF CheckDone, CheckCount, gpuVars, mainVars
<1>1. TypeOK' /\ PhaseInv'
    BY DEF IInv, TypeOK, PhaseInv, EncoderPhase
<1>2. NoRepetition' /\ FramesInv' /\ MapInv'
    BY DEF IInv, NoRepetition, FramesInv, Encoding, Captured, MapInv, Complete, UnderWay,
           FlagsOutliveMapping
<1>3. QED BY <1>1, <1>2 DEF IInv

LEMMA TryGetFrameStep == ASSUME IInv, TryGetFrame PROVE IInv'
<1> USE DEF TryGetFrame, gpuVars, mainVars
<1>1. MapInv'
    BY DEF IInv, MapInv, Complete, UnderWay, FlagsOutliveMapping
<1>2. CASE frameQueue = <<>>
    <2>1. TypeOK' /\ PhaseInv'
        BY <1>2 DEF IInv, TypeOK, PhaseInv, EncoderPhase
    <2>2. NoRepetition' /\ FramesInv'
        BY <1>2 DEF IInv, NoRepetition, FramesInv, Encoding, Captured
    <2>3. QED BY <1>1, <2>1, <2>2 DEF IInv
<1>3. CASE frameQueue # <<>>
    <2>1. PICK f : f = Head(frameQueue)
        OBVIOUS
    <2>2. encoding' = f /\ encoder' = "encode" /\ frameQueue' = Tail(frameQueue)
        BY <1>3, <2>1
    <2>3. /\ f \in Frame /\ f \in Range(frameQueue)
          /\ frameQueue' \in Seq(Frame) /\ IsInjective(frameQueue')
          /\ Range(frameQueue') = Range(frameQueue) \ {f}
        BY <1>3, <2>1, <2>2, TakeHead DEF IInv, TypeOK, NoRepetition
    <2>4. Encoding = {} /\ Encoding' = {f} /\ f # 0
        BY <2>2, <2>3 DEF IInv, PhaseInv, Encoding, Frame
    <2>5. TypeOK'
        BY <2>2, <2>3 DEF IInv, TypeOK, EncoderPhase
    <2>6. PhaseInv'
        BY <2>2, <2>4 DEF IInv, PhaseInv
    <2>7. NoRepetition'
        BY <2>3 DEF IInv, NoRepetition
    <2>8. FramesInv'
        BY <2>3, <2>4 DEF IInv, FramesInv, InOnePlace, Captured
    <2>9. QED BY <1>1, <2>5, <2>6, <2>7, <2>8 DEF IInv
<1>4. QED BY <1>2, <1>3

LEMMA EncodeFrameStep == ASSUME IInv, EncodeFrame PROVE IInv'
<1> USE DEF EncodeFrame, gpuVars, mainVars
<1>1. MapInv'
    BY DEF IInv, MapInv, Complete, UnderWay, FlagsOutliveMapping
<1>2. encoding \in Frame /\ Encoding = {encoding} /\ Encoding' = {}
    BY DEF IInv, TypeOK, PhaseInv, Encoding
<1>3. PhaseInv'
    BY DEF IInv, PhaseInv
<1>4. CASE encoded' = Append(encoded, encoding) /\ UNCHANGED failed
    <2>1. encoding \notin Range(encoded) /\ encoded \in Seq(Frame)
        BY <1>2 DEF IInv, TypeOK, FramesInv, InOnePlace
    <2>2. /\ encoded' \in Seq(Frame) /\ IsInjective(encoded')
          /\ Range(encoded') = Range(encoded) \cup {encoding}
        BY <1>2, <1>4, <2>1, AppendElement DEF IInv, NoRepetition
    <2>3. TypeOK'
        BY <1>4, <2>2 DEF IInv, TypeOK, EncoderPhase
    <2>4. NoRepetition'
        BY <2>2 DEF IInv, NoRepetition
    <2>5. FramesInv'
        BY <1>2, <1>4, <2>2 DEF IInv, FramesInv, InOnePlace, Captured
    <2>6. QED BY <1>1, <1>3, <2>3, <2>4, <2>5 DEF IInv
<1>5. CASE failed' = failed \cup {encoding} /\ UNCHANGED encoded
    <2>1. TypeOK'
        BY <1>2, <1>5 DEF IInv, TypeOK, EncoderPhase
    <2>2. NoRepetition'
        BY <1>5 DEF IInv, NoRepetition
    <2>3. FramesInv'
        BY <1>2, <1>5 DEF IInv, FramesInv, InOnePlace, Captured
    <2>4. QED BY <1>1, <1>3, <2>1, <2>2, <2>3 DEF IInv
<1>6. QED BY <1>4, <1>5

-----------------------------------------------------------------------------
(* The inductive invariant holds in every reachable state.                 *)
THEOREM InvHolds == Spec => []IInv
<1>1. ASSUME IInv, [Next]_vars PROVE IInv'
    <2>1. CASE UNCHANGED vars
        BY <1>1, <2>1
        DEF vars, gpuVars, mainVars, encoderVars, IInv, TypeOK, PhaseInv, NoRepetition,
            FramesInv, Encoding, Captured, MapInv, Complete, UnderWay, FlagsOutliveMapping
    <2>2. CASE Next
        BY <1>1, <2>2, CallBackStep, CallbackStepKeeps, PhaseStep, ScanStep, ProcessStep,
           CaptureStep, DestroyStep, FreeStep, CheckStep, TryGetFrameStep, EncodeFrameStep
        DEF Next, MainStep, EncoderStep, CallbackStep
    <2>3. QED BY <1>1, <2>1, <2>2
<1>2. QED BY <1>1, InitEstablishes, PTL DEF Spec

(* The cells a map callback has still to write to exist, however early the *)
(* recording is stopped and whichever thread executes it, but for a        *)
(* callback under way on another thread when its buffer is given up.       *)
THEOREM CallbacksFindTheirFlags == Spec => []FlagsOutliveMapping
<1>1. IInv => FlagsOutliveMapping
    BY DEF IInv, MapInv
<1>2. QED BY <1>1, InvHolds, PTL

(* When the file is written, no captured frame is missing from it that was *)
(* not given up, and none is in it twice.                                  *)
THEOREM NoFrameIsLost == Spec => []EveryFrameIsAccountedFor
<1>1. IInv => EveryFrameIsAccountedFor
    <2> SUFFICES ASSUME IInv, main \in {"finalize", "stopped"}
                 PROVE  /\ IsInjective(encoded)
                        /\ Range(encoded) = Captured \ (failed \cup dropped \cup discarded)
        BY DEF EveryFrameIsAccountedFor
    <2>1. pending = <<>> /\ toProcess = <<>> /\ frameQueue = <<>> /\ encoding = 0
        BY DEF IInv, PhaseInv
    <2>2. /\ Range(pending) = {} /\ Range(toProcess) = {} /\ Range(frameQueue) = {}
          /\ Encoding = {}
        BY <2>1 DEF Range, Encoding
    <2>3. QED BY <2>2 DEF IInv, NoRepetition, FramesInv, InOnePlace
<1>2. QED BY <1>1, InvHolds, PTL

-----------------------------------------------------------------------------
(***************************************************************************)
(* The frames are encoded in the order in which they were captured, if map *)
(* callbacks come only from the calls of the main thread.                  *)
(***************************************************************************)

Increasing(s) == \A i, j \in 1 .. Len(s) : i < j => s[i] < s[j]

Before(A, B) == \A a \in A, b \in B : a < b

(* Each stage of the pipeline is sorted, and behind the one before it.     *)
StagesInOrder ==
    /\ Increasing(encoded) /\ Increasing(frameQueue)
    /\ Increasing(toProcess) /\ Increasing(pending)
    /\ Before(Range(encoded), Encoding \cup Range(frameQueue) \cup Range(toProcess)
                                       \cup Range(pending))
    /\ Before(Encoding, Range(frameQueue) \cup Range(toProcess) \cup Range(pending))
    /\ Before(Range(frameQueue), Range(toProcess) \cup Range(pending))
    /\ Before(Range(toProcess), Range(pending))

(* What is being mapped is pending, and the oldest is done first.          *)
MappingInOrder ==
    /\ \A f \in Frame : map[f] = "mapping" => f \in Range(pending)
    /\ \A f, g \in Frame : f < g /\ map[f] = "mapping" => map[g] \in {"mapping", "none"}

(* A scan leaves behind it only buffers that are not mapped.               *)
ScanInOrder ==
    main = "scan" => \A i \in 1 .. Len(pending) : i < next => map[pending[i]] = "mapping"

OrderInv ==
    /\ \A f \in Frame : map[f] = "none" <=> f > frameNumber
    /\ ~ownThread => StagesInOrder /\ MappingInOrder /\ ScanInOrder

-----------------------------------------------------------------------------
(* Sorted sequences.                                                       *)
LEMMA AppendLargest ==
    ASSUME NEW s \in Seq(Frame), NEW e \in Frame, Increasing(s), \A x \in Range(s) : x < e
    PROVE  Increasing(Append(s, e))
<1>1. /\ Len(Append(s, e)) = Len(s) + 1 /\ Len(s) \in Nat
      /\ \A i \in 1 .. Len(s) : Append(s, e)[i] = s[i]
      /\ Append(s, e)[Len(s) + 1] = e
    BY AppendProperties, LenProperties
<1>2. \A i \in 1 .. Len(s) : s[i] < e
    BY RangeEquality
<1>3. SUFFICES ASSUME NEW i \in 1 .. Len(s) + 1, NEW j \in 1 .. Len(s) + 1, i < j
               PROVE  Append(s, e)[i] < Append(s, e)[j]
    BY <1>1 DEF Increasing
<1>4. i \in 1 .. Len(s) /\ Append(s, e)[i] = s[i]
    BY <1>1, <1>3
<1>5. CASE j = Len(s) + 1
    BY <1>1, <1>2, <1>4, <1>5
<1>6. CASE j \in 1 .. Len(s)
    BY <1>1, <1>3, <1>4, <1>6 DEF Increasing
<1>7. QED BY <1>5, <1>6, <1>1

LEMMA HeadIsSmallest ==
    ASSUME NEW s \in Seq(Frame), s # <<>>, Increasing(s)
    PROVE  /\ Increasing(Tail(s))
           /\ Range(Tail(s)) \subseteq Range(s)
           /\ Head(s) \in Range(s) /\ Head(s) \in Frame
           /\ \A x \in Range(Tail(s)) : Head(s) < x
           /\ \A x \in Range(s) : Head(s) <= x
<1>1. /\ Tail(s) \in Seq(Frame) /\ Len(Tail(s)) = Len(s) - 1
      /\ \A i \in 1 .. Len(s) - 1 : Tail(s)[i] = s[i + 1]
      /\ Len(s) \in Nat \ {0} /\ Head(s) = s[1] /\ Head(s) \in Frame
    BY HeadTailProperties, EmptySeq
<1>2. /\ Range(s) = {s[i] : i \in 1 .. Len(s)}
      /\ Range(Tail(s)) = {Tail(s)[i] : i \in 1 .. Len(s) - 1}
    BY <1>1, RangeEquality
<1>3. Increasing(Tail(s))
    <2>1. SUFFICES ASSUME NEW i \in 1 .. Len(s) - 1, NEW j \in 1 .. Len(s) - 1, i < j
                   PROVE  Tail(s)[i] < Tail(s)[j]
        BY <1>1 DEF Increasing
    <2>2. i + 1 \in 1 .. Len(s) /\ j + 1 \in 1 .. Len(s) /\ i + 1 < j + 1
        BY <2>1, <1>1
    <2>3. s[i + 1] < s[j + 1]
        BY <2>2 DEF Increasing
    <2>4. QED BY <2>3, <1>1
<1>4. ASSUME NEW x \in Range(Tail(s)) PROVE x \in Range(s) /\ Head(s) < x
    <2>1. PICK i \in 1 .. Len(s) - 1 : x = Tail(s)[i]
        BY <1>2
    <2>2. x = s[i + 1] /\ i + 1 \in 1 .. Len(s) /\ 1 \in 1 .. Len(s) /\ 1 < i + 1
        BY <2>1, <1>1
    <2>3. s[1] < s[i + 1]
        BY <2>2 DEF Increasing
    <2>4. QED BY <2>2, <2>3, <1>1, <1>2
<1>5. ASSUME NEW x \in Range(s) PROVE Head(s) <= x
    <2>1. PICK i \in 1 .. Len(s) : x = s[i]
        BY <1>2
    <2>2. CASE i = 1
        BY <2>1, <2>2, <1>1 DEF Frame
    <2>3. CASE i # 1
        <3>1. 1 \in 1 .. Len(s) /\ 1 < i
            BY <2>3, <1>1
        <3>2. s[1] < s[i] /\ s[i] \in Frame
            BY <3>1, ElementOfSeq DEF Increasing
        <3>3. QED BY <3>2, <2>1, <1>1 DEF Frame
    <2>4. QED BY <2>2, <2>3
<1>6. Head(s) \in Range(s)
    BY <1>1, <1>2
<1>7. QED BY <1>1, <1>3, <1>4, <1>5, <1>6

(* Taking out the first element leaves the tail.                           *)
LEMMA RemoveAtOne ==
    ASSUME NEW s \in Seq(Frame), s # <<>>
    PROVE  RemoveAt(s, 1) = Tail(s)
<1>1. /\ Tail(s) \in Seq(Frame) /\ Len(Tail(s)) = Len(s) - 1
      /\ \A i \in 1 .. Len(s) - 1 : Tail(s)[i] = s[i + 1]
      /\ Len(s) \in Nat \ {0}
    BY HeadTailProperties, EmptySeq
<1>2. Len(s) >= 1 /\ 1 \in 1 .. Len(s)
    BY <1>1
<1>3. /\ RemoveAt(s, 1) \in Seq(Frame) /\ Len(RemoveAt(s, 1)) = Len(s) - 1
      /\ \A i \in 1 .. Len(s) - 1 : RemoveAt(s, 1)[i] = s[IF i < 1 THEN i ELSE i + 1]
    BY <1>2, RemoveElement
<1>4. PICK r \in Seq(Frame) : r = RemoveAt(s, 1)
    BY <1>3
<1>5. PICK t \in Seq(Frame) : t = Tail(s)
    BY <1>1
<1>6. Len(r) = Len(t) /\ \A i \in 1 .. Len(r) : r[i] = t[i]
    <2>1. Len(r) = Len(s) - 1 /\ Len(t) = Len(s) - 1
        BY <1>1, <1>3, <1>4, <1>5
    <2>2. SUFFICES ASSUME NEW i \in 1 .. Len(s) - 1 PROVE r[i] = t[i]
        BY <2>1
    <2>3. ~(i < 1)
        BY <1>1
    <2>4. QED BY <2>3, <1>1, <1>3, <1>4, <1>5
<1>7. r = t
    BY <1>6, SeqEqual
<1>8. QED BY <1>4, <1>5, <1>7

-----------------------------------------------------------------------------
LEMMA InitInOrder == Init => OrderInv
<1> SUFFICES ASSUME Init PROVE OrderInv
    OBVIOUS
<1>1. Range(<<>>) = {} /\ Increasing(<<>>)
    BY DEF Range, Increasing
<1>2. Encoding = {}
    BY DEF Init, Encoding
<1>3. QED
    BY <1>1, <1>2 DEF Init, OrderInv, StagesInOrder, MappingInOrder, ScanInOrder, Before, Frame

(* The pending frames, and all the others, are captured.                   *)
LEMMA StagesAreCaptured ==
    ASSUME IInv
    PROVE  /\ Range(pending) \cup Range(toProcess) \cup Range(frameQueue) \cup Encoding
                 \cup Range(encoded) \subseteq 1 .. frameNumber
           /\ frameNumber \in Nat
           /\ 1 .. frameNumber \subseteq Frame
BY MaxFramesAssumption DEF IInv, TypeOK, FramesInv, InOnePlace, Captured, Frame

(* The library finishes the oldest copy, and not during a scan.            *)
LEMMA CallBackInOrder == ASSUME IInv, OrderInv, NEW f \in Frame, CallBack(f) PROVE OrderInv'
<1>1. map' = [map EXCEPT ![f] = "called"] /\ map \in [Frame -> MapState]
    BY DEF CallBack, IInv, TypeOK
<1>2. map'[f] = "called" /\ \A g \in Frame \ {f} : map'[g] = map[g]
    BY <1>1
<1>3. map[f] = "mapping" /\ \A g \in Frame : g < f => map[g] # "mapping"
    BY DEF CallBack
<1>4. UNCHANGED <<ownThread, frameNumber, main, pending, toProcess, frameQueue, encoding,
                  encoded>>
    BY DEF CallBack, mainVars, encoderVars
<1>5. \A g \in Frame : map'[g] = "none" <=> g > frameNumber'
    BY <1>2, <1>3, <1>4 DEF OrderInv
<1>6. ASSUME ~ownThread PROVE StagesInOrder' /\ MappingInOrder' /\ ScanInOrder'
    <2>1. StagesInOrder'
        BY <1>4, <1>6 DEF OrderInv, StagesInOrder, Encoding
    <2>2. \A g \in Frame : map'[g] = "mapping" => g \in Range(pending')
        BY <1>2, <1>4, <1>6 DEF OrderInv, MappingInOrder
    <2>3. ASSUME NEW g \in Frame, NEW h \in Frame, g < h, map'[g] = "mapping"
          PROVE  map'[h] \in {"mapping", "none"}
        <3>1. g # f /\ map[g] = "mapping"
            BY <1>2, <2>3
        <3>2. h # f
            BY <1>3, <2>3, <3>1
        <3>3. QED BY <1>2, <1>6, <2>3, <3>1, <3>2 DEF OrderInv, MappingInOrder
    <2>4. main # "scan"
        BY <1>6 DEF CallBack
    <2>5. QED BY <1>4, <2>1, <2>2, <2>3, <2>4 DEF MappingInOrder, ScanInOrder
<1>7. QED BY <1>4, <1>5, <1>6 DEF OrderInv

(* What a callback that is under way does changes nothing for the others.  *)
LEMMA CallbackInOrder ==
    ASSUME IInv, OrderInv, NEW f \in Frame, WriteStatus(f) \/ SetComplete(f)
    PROVE  OrderInv'
<1>1. map[f] \in {"called", "written"}
    BY DEF WriteStatus, SetComplete
<1>2. map'[f] \in {"written", "complete"} /\ \A g \in Frame \ {f} : map'[g] = map[g]
    BY DEF WriteStatus, SetComplete, IInv, TypeOK
<1>3. UNCHANGED <<ownThread, frameNumber, main, next, pending, toProcess, frameQueue, encoding,
                  encoded>>
    BY DEF WriteStatus, SetComplete, mainVars, encoderVars
<1>4. \A g \in Frame : (map'[g] = "none" <=> map[g] = "none")
                      /\ (map'[g] = "mapping" <=> map[g] = "mapping")
    BY <1>1, <1>2
<1>5. \A g \in Frame : map'[g] = "none" <=> g > frameNumber'
    BY <1>3, <1>4 DEF OrderInv
<1>6. ASSUME ~ownThread PROVE StagesInOrder' /\ MappingInOrder' /\ ScanInOrder'
    <2>1. StagesInOrder'
        BY <1>3, <1>6 DEF OrderInv, StagesInOrder, Encoding
    <2>2. MappingInOrder'
        <3>1. \A g \in Frame : map'[g] = "mapping" => g \in Range(pending')
            BY <1>3, <1>4, <1>6 DEF OrderInv, MappingInOrder
        <3>2. ASSUME NEW g \in Frame, NEW h \in Frame, g < h, map'[g] = "mapping"
              PROVE  map'[h] \in {"mapping", "none"}
            BY <1>4, <1>6, <3>2 DEF OrderInv, MappingInOrder
        <3>3. QED BY <3>1, <3>2 DEF MappingInOrder
    <2>3. ScanInOrder'
        <3>1. \A i \in 1 .. Len(pending) : pending[i] \in Frame
            BY ElementOfSeq DEF IInv, TypeOK
        <3>2. QED BY <1>3, <1>4, <1>6, <3>1 DEF OrderInv, ScanInOrder
    <2>4. QED BY <2>1, <2>2, <2>3
<1>7. QED BY <1>3, <1>5, <1>6 DEF OrderInv

(* The steps that move no frame; each scan starts at the first buffer.     *)
LEMMA PhaseInOrder ==
    ASSUME IInv, OrderInv,
           \/ FreeFlag \/ FreeStatus \/ BeginCapture \/ ScanDone \/ Processed \/ CaptureFails \/ StopRecording
           \/ Discarded \/ SignalEncoder \/ Join \/ Finalize \/ CheckDone \/ CheckCount
           \/ UNCHANGED vars
    PROVE  OrderInv'
<1> USE DEF BeginCapture, ScanDone, Processed, CaptureFails, StopRecording, Discarded,
            SignalEncoder, Join, Finalize, CheckDone, CheckCount, FreeFlag, FreeStatus, vars,
            gpuVars, mainVars, encoderVars
<1>1. UNCHANGED <<ownThread, map, frameNumber, pending, toProcess, frameQueue, encoding,
                  encoded>>
    OBVIOUS
<1>2. main' = "scan" => next' = 1 \/ UNCHANGED <<main, next>>
    OBVIOUS
<1>3. ~ownThread => ScanInOrder'
    BY <1>1, <1>2, LenProperties DEF OrderInv, ScanInOrder, IInv, TypeOK
<1>4. QED
    BY <1>1, <1>3 DEF OrderInv, StagesInOrder, MappingInOrder, Encoding, Complete

(* What a scan finds is the oldest of the pending frames: those it passed  *)
(* are still being mapped, and no frame is mapped before an older one.     *)
LEMMA ScanTakesOldest ==
    ASSUME IInv, OrderInv, ~ownThread, Scan, Complete(pending[next])
    PROVE  /\ next = 1 /\ pending # <<>>
           /\ toProcess' = Append(toProcess, Head(pending)) /\ pending' = Tail(pending)
<1>1. next \in 1 .. Len(pending) /\ pending \in Seq(Frame) /\ Len(pending) \in Nat
    BY LenProperties DEF Scan, IInv, TypeOK
<1>2. next = 1
    <2>1. SUFFICES ASSUME next # 1 PROVE FALSE
        OBVIOUS
    <2>2. 1 \in 1 .. Len(pending) /\ 1 < next
        BY <1>1, <2>1
    <2>3. map[pending[1]] = "mapping"
        BY <2>2 DEF Scan, OrderInv, ScanInOrder
    <2>4. pending[1] < pending[next] /\ pending[1] \in Frame /\ pending[next] \in Frame
        BY <1>1, <2>2, ElementOfSeq DEF OrderInv, StagesInOrder, Increasing
    <2>5. QED BY <2>3, <2>4 DEF OrderInv, MappingInOrder, Complete, Scan
<1>3. pending # <<>> /\ Head(pending) = pending[1]
    BY <1>1, <1>2, EmptySeq
<1>4. QED BY <1>1, <1>2, <1>3, RemoveAtOne DEF Scan

LEMMA ScanInOrderStep == ASSUME IInv, OrderInv, inCallback = 0, Scan PROVE OrderInv'
<1> USE DEF Scan, gpuVars, encoderVars
<1>1. UNCHANGED <<ownThread, map, frameNumber, main, frameQueue, encoding, encoded>>
    OBVIOUS
<1>2. \A f \in Frame : map'[f] = "none" <=> f > frameNumber'
    BY <1>1 DEF OrderInv
<1>3. next \in 1 .. Len(pending) /\ pending \in Seq(Frame) /\ toProcess \in Seq(Frame)
    BY LenProperties DEF IInv, TypeOK
<1>4. CASE ~Complete(pending[next])
    <2>1. next' = next + 1 /\ UNCHANGED <<pending, toProcess>>
        BY <1>4
    <2>2. ~ownThread => map[pending[next]] = "mapping"
        <3>1. pending[next] \in Frame /\ pending[next] \in Range(pending)
            BY <1>3, ElementOfSeq, RangeEquality
        <3>2. map[pending[next]] # "none"
            BY <3>1, StagesAreCaptured DEF OrderInv
        <3>3. map[pending[next]] \in MapState
            BY <3>1 DEF IInv, TypeOK
        <3>4. ~ownThread => map[pending[next]] \notin {"called", "written"}
            BY <3>1 DEF IInv, MapInv, UnderWay, Frame
        <3>5. QED BY <1>4, <3>2, <3>3, <3>4 DEF MapState, Complete
    <2>3. ~ownThread => ScanInOrder'
        BY <1>1, <1>3, <2>1, <2>2, LenProperties DEF OrderInv, ScanInOrder
    <2>4. QED
        BY <1>1, <2>1, <2>3 DEF OrderInv, StagesInOrder, MappingInOrder, Encoding, Complete
<1>5. CASE Complete(pending[next])
    <2>1. SUFFICES ASSUME ~ownThread PROVE StagesInOrder' /\ MappingInOrder' /\ ScanInOrder'
        BY <1>1, <1>2 DEF OrderInv
    <2>2. /\ next = 1 /\ pending # <<>>
          /\ toProcess' = Append(toProcess, Head(pending)) /\ pending' = Tail(pending)
        BY <1>5, <2>1, ScanTakesOldest
    <2>3. StagesInOrder /\ MappingInOrder
        BY <2>1 DEF OrderInv
    <2>4. /\ Increasing(pending') /\ Range(pending') \subseteq Range(pending)
          /\ Head(pending) \in Range(pending) /\ Head(pending) \in Frame
          /\ \A x \in Range(pending') : Head(pending) < x
        BY <1>3, <2>2, <2>3, HeadIsSmallest DEF StagesInOrder
    <2>5. \A x \in Range(toProcess) : x < Head(pending)
        BY <2>3, <2>4 DEF StagesInOrder, Before
    <2>6. /\ Increasing(toProcess')
          /\ Range(toProcess') = Range(toProcess) \cup {Head(pending)}
        BY <1>3, <2>2, <2>3, <2>4, <2>5, AppendLargest, AppendElement DEF StagesInOrder
    <2>7. StagesInOrder'
        BY <1>1, <2>3, <2>4, <2>6 DEF StagesInOrder, Before, Encoding
    <2>8. MappingInOrder'
        <3>1. Head(pending) = pending[1]
            BY <1>3, <2>2
        <3>2. map[Head(pending)] # "mapping"
            BY <1>5, <2>2, <3>1 DEF Complete
        <3>3. \A x \in Range(pending) : x = Head(pending) \/ x \in Range(pending')
            BY <1>3, <2>2, TakeHead DEF IInv, NoRepetition
        <3>4. QED BY <1>1, <2>3, <3>2, <3>3 DEF MappingInOrder, Complete
    <2>9. ScanInOrder'
        BY <1>1, <1>5, <2>2, LenProperties DEF ScanInOrder
    <2>10. QED BY <2>7, <2>8, <2>9
<1>6. QED BY <1>4, <1>5

LEMMA ProcessInOrder == ASSUME IInv, OrderInv, Process PROVE OrderInv'
<1> USE DEF Process, encoderVars
<1>1. UNCHANGED <<ownThread, map, frameNumber, main, pending, encoding, encoded>>
    OBVIOUS
<1>2. SUFFICES ASSUME ~ownThread PROVE StagesInOrder' /\ MappingInOrder' /\ ScanInOrder'
    BY <1>1 DEF OrderInv
<1>3. StagesInOrder /\ MappingInOrder /\ toProcess \in Seq(Frame) /\ frameQueue \in Seq(Frame)
    BY <1>2 DEF OrderInv, IInv, TypeOK
<1>4. PICK f : f = Head(toProcess)
    OBVIOUS
<1>5. /\ Increasing(toProcess') /\ Range(toProcess') \subseteq Range(toProcess)
      /\ f \in Range(toProcess) /\ f \in Frame
      /\ \A x \in Range(toProcess') : f < x
    BY <1>3, <1>4, HeadIsSmallest DEF StagesInOrder
<1>6. MappingInOrder' /\ ScanInOrder'
    BY <1>1, <1>3 DEF MappingInOrder, ScanInOrder, Complete
<1>7. StagesInOrder'
    <2>1. CASE frameQueue' = frameQueue
        BY <1>1, <1>3, <1>5, <2>1 DEF StagesInOrder, Before, Encoding
    <2>2. CASE frameQueue' = Append(frameQueue, f)
        <3>1. \A x \in Range(frameQueue) : x < f
            BY <1>3, <1>5 DEF StagesInOrder, Before
        <3>2. /\ Increasing(frameQueue')
              /\ Range(frameQueue') = Range(frameQueue) \cup {f}
            BY <1>3, <1>5, <2>2, <3>1, AppendLargest, AppendElement DEF StagesInOrder
        <3>3. QED BY <1>1, <1>3, <1>5, <3>2 DEF StagesInOrder, Before, Encoding
    <2>3. QED BY <1>4, <2>1, <2>2
<1>8. QED BY <1>6, <1>7

(* A new frame is the last of all.                                         *)
LEMMA CaptureInOrder == ASSUME IInv, OrderInv, Capture PROVE OrderInv'
<1> USE DEF Capture, encoderVars
<1>1. PICK f : f = frameNumber + 1
    OBVIOUS
<1>2. /\ frameNumber' = f /\ map' = [map EXCEPT ![f] = "mapping"] /\ pending' = Append(pending, f)
      /\ UNCHANGED <<ownThread, toProcess, frameQueue, encoding, encoded>>
      /\ main' = "frame"
    BY <1>1
<1>3. f \in Frame /\ frameNumber \in Nat
    BY <1>1, MaxFramesAssumption DEF IInv, TypeOK, PhaseInv, Frame
<1>4. map'[f] = "mapping" /\ \A g \in Frame \ {f} : map'[g] = map[g]
    BY <1>2, <1>3 DEF IInv, TypeOK
<1>5. \A g \in Frame : map'[g] = "none" <=> g > frameNumber'
    BY <1>1, <1>2, <1>3, <1>4 DEF OrderInv, Frame
<1>6. SUFFICES ASSUME ~ownThread PROVE StagesInOrder' /\ MappingInOrder' /\ ScanInOrder'
    BY <1>2, <1>5 DEF OrderInv
<1>7. StagesInOrder /\ MappingInOrder /\ pending \in Seq(Frame)
    BY <1>2, <1>6 DEF OrderInv, IInv, TypeOK
<1>8. \A x \in Range(pending) \cup Range(toProcess) \cup Range(frameQueue) \cup Encoding
               \cup Range(encoded) : x < f
    BY <1>1, <1>3, StagesAreCaptured
<1>9. Increasing(pending') /\ Range(pending') = Range(pending) \cup {f}
    BY <1>2, <1>3, <1>7, <1>8, AppendLargest, AppendElement DEF StagesInOrder
<1>10. StagesInOrder'
    BY <1>2, <1>7, <1>8, <1>9 DEF StagesInOrder, Before, Encoding
<1>11. MappingInOrder'
    <2>1. \A g \in Frame : g > f => map[g] = "none"
        BY <1>1, <1>3 DEF OrderInv, Frame
    <2>2. QED BY <1>3, <1>4, <1>7, <1>9, <2>1 DEF MappingInOrder, Complete, Frame
<1>12. ScanInOrder'
    BY <1>2 DEF ScanInOrder
<1>13. QED BY <1>10, <1>11, <1>12

(* The oldest buffer is the first one destroyed.                           *)
LEMMA DestroyInOrder == ASSUME IInv, OrderInv, DestroyBuffer PROVE OrderInv'
<1> USE DEF DestroyBuffer, GiveUpOldest, encoderVars
<1>1. PICK f : f = Head(pending)
    OBVIOUS
<1>2. /\ map' = (IF map[f] = "mapping" THEN [map EXCEPT ![f] = "called"] ELSE map)
      /\ pending' = Tail(pending) /\ main' = "free"
      /\ UNCHANGED <<ownThread, frameNumber, toProcess, frameQueue, encoding, encoded>>
    BY <1>1
<1>3. pending \in Seq(Frame) /\ pending # <<>> /\ map \in [Frame -> MapState]
    BY DEF IInv, TypeOK
<1>4. f \in Frame /\ f \in Range(pending)
    BY <1>1, <1>3, TakeHead
<1>5. /\ map'[f] = IF map[f] = "mapping" THEN "called" ELSE map[f]
      /\ \A g \in Frame \ {f} : map'[g] = map[g]
    BY <1>2, <1>3, <1>4
<1>6. \A g \in Frame : map'[g] = "none" <=> g > frameNumber'
    BY <1>2, <1>4, <1>5 DEF OrderInv
<1>7. SUFFICES ASSUME ~ownThread PROVE StagesInOrder' /\ MappingInOrder' /\ ScanInOrder'
    BY <1>2, <1>6 DEF OrderInv
<1>8. StagesInOrder /\ MappingInOrder
    BY <1>2, <1>7 DEF OrderInv
<1>9. /\ Increasing(pending') /\ Range(pending') \subseteq Range(pending)
      /\ \A x \in Range(pending) : f <= x
    BY <1>1, <1>2, <1>3, <1>8, HeadIsSmallest DEF StagesInOrder
<1>10. StagesInOrder'
    BY <1>2, <1>8, <1>9 DEF StagesInOrder, Before, Encoding
<1>11. MappingInOrder'
    <2>1. \A x \in Range(pending) : x = f \/ x \in Range(pending')
        BY <1>1, <1>2, <1>3, TakeHead DEF IInv, NoRepetition
    <2>2. \A g \in Frame : map'[g] = "mapping" => map[g] = "mapping" /\ g # f
        BY <1>5
    <2>3. \A g \in Frame : map'[g] = "mapping" => g \in Range(pending')
        BY <1>8, <2>1, <2>2 DEF MappingInOrder
    <2>4. ASSUME NEW g \in Frame, NEW h \in Frame, g < h, map'[g] = "mapping"
          PROVE  map'[h] \in {"mapping", "none"}
        <3>1. map[g] = "mapping" /\ g \in Range(pending) /\ f <= g
            BY <1>8, <1>9, <2>2, <2>4 DEF MappingInOrder
        <3>2. h # f
            BY <2>4, <3>1, <1>4 DEF Frame
        <3>3. QED BY <1>5, <1>8, <2>4, <3>1, <3>2 DEF MappingInOrder
    <2>5. QED BY <2>3, <2>4 DEF MappingInOrder
<1>12. ScanInOrder'
    BY <1>2 DEF ScanInOrder
<1>13. QED BY <1>10, <1>11, <1>12

LEMMA TryGetFrameInOrder == ASSUME IInv, OrderInv, TryGetFrame PROVE OrderInv'
<1> USE DEF TryGetFrame, gpuVars, mainVars
<1>1. UNCHANGED <<ownThread, map, frameNumber, main, next, pending, toProcess, encoded>>
    OBVIOUS
<1>2. SUFFICES ASSUME ~ownThread PROVE StagesInOrder' /\ MappingInOrder' /\ ScanInOrder'
    BY <1>1 DEF OrderInv
<1>3. StagesInOrder /\ MappingInOrder /\ ScanInOrder
    BY <1>1, <1>2 DEF OrderInv
<1>4. MappingInOrder' /\ ScanInOrder'
    BY <1>1, <1>3 DEF MappingInOrder, ScanInOrder, Complete
<1>5. CASE frameQueue = <<>>
    BY <1>1, <1>3, <1>4, <1>5 DEF StagesInOrder, Encoding
<1>6. CASE frameQueue # <<>>
    <2>1. /\ Increasing(frameQueue') /\ Range(frameQueue') \subseteq Range(frameQueue)
          /\ Head(frameQueue) \in Range(frameQueue)
          /\ \A x \in Range(frameQueue') : Head(frameQueue) < x
        <3>1. frameQueue \in Seq(Frame) /\ Increasing(frameQueue) /\ frameQueue' = Tail(frameQueue)
            BY <1>3, <1>6 DEF StagesInOrder, IInv, TypeOK
        <3>2. QED BY <1>6, <3>1, HeadIsSmallest
    <2>2. Encoding' \subseteq {Head(frameQueue)}
        BY <1>6 DEF Encoding
    <2>3. StagesInOrder'
        BY <1>1, <1>3, <2>1, <2>2 DEF StagesInOrder, Before
    <2>4. QED BY <1>4, <2>3
<1>7. QED BY <1>5, <1>6

LEMMA EncodeFrameInOrder == ASSUME IInv, OrderInv, EncodeFrame PROVE OrderInv'
<1> USE DEF EncodeFrame, gpuVars, mainVars
<1>1. UNCHANGED <<ownThread, map, frameNumber, main, next, pending, toProcess, frameQueue>>
    OBVIOUS
<1>2. SUFFICES ASSUME ~ownThread PROVE StagesInOrder' /\ MappingInOrder' /\ ScanInOrder'
    BY <1>1 DEF OrderInv
<1>3. StagesInOrder /\ MappingInOrder /\ ScanInOrder
    BY <1>1, <1>2 DEF OrderInv
<1>4. MappingInOrder' /\ ScanInOrder'
    BY <1>1, <1>3 DEF MappingInOrder, ScanInOrder, Complete
<1>5. /\ encoding \in Frame /\ Encoding = {encoding} /\ Encoding' = {}
      /\ encoded \in Seq(Frame)
    BY DEF IInv, TypeOK, PhaseInv, Encoding
<1>6. StagesInOrder'
    <2>1. CASE encoded' = encoded
        BY <1>1, <1>3, <1>5, <2>1 DEF StagesInOrder, Before
    <2>2. CASE encoded' = Append(encoded, encoding)
        <3>1. \A x \in Range(encoded) : x < encoding
            BY <1>3, <1>5 DEF StagesInOrder, Before
        <3>2. /\ Increasing(encoded')
              /\ Range(encoded') = Range(encoded) \cup {encoding}
            BY <1>3, <1>5, <2>2, <3>1, AppendLargest, AppendElement DEF StagesInOrder
        <3>3. QED BY <1>1, <1>3, <1>5, <3>2 DEF StagesInOrder, Before
    <2>3. QED BY <2>1, <2>2
<1>7. QED BY <1>4, <1>6

-----------------------------------------------------------------------------
(* The frames keep their order from the capture to the animation, provided *)
(* the library calls back only from the calls of the main thread.          *)
THEOREM FramesKeepTheirOrder == Spec => []EncodedInOrder
<1>1. IInv /\ OrderInv /\ [Next]_vars => OrderInv'
    BY CallBackInOrder, CallbackInOrder, PhaseInOrder, ScanInOrderStep, ProcessInOrder,
       CaptureInOrder, DestroyInOrder, TryGetFrameInOrder, EncodeFrameInOrder
    DEF Next, MainStep, EncoderStep, CallbackStep
<1>2. OrderInv => EncodedInOrder
    BY DEF OrderInv, StagesInOrder, Increasing, EncodedInOrder
<1>3. QED BY <1>1, <1>2, InitInOrder, InvHolds, PTL DEF Spec
=============================================================================
