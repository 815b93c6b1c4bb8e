--------------------------- MODULE Handles_proofs ---------------------------
(***************************************************************************)
(* Proofs about the handles of the two JavaScript engines: V8Handles, for  *)
(* any number of addresses, functions and nested calls, and                *)
(* QuickJsHandles, for any number of boxes, objects, references and nested *)
(* calls.                                                                  *)
(***************************************************************************)
EXTENDS V8Handles, QuickJsHandles, SequenceTheorems, FiniteSetTheorems, TLAPS

-----------------------------------------------------------------------------
(* V8: the inductive invariant says who owns which handle.                 *)

(* What is tracked or kept is allocated, and what is kept is protected.    *)
OwnerInv ==
    /\ frameHandles \subseteq live
    /\ protectedHandles = kept
    /\ kept \subseteq live

(* No two calls in progress use the same handle, and none uses one that is *)
(* free; the end of the frame does not touch arguments.  What a call has   *)
(* unprotected is no argument any more, and may be another handle by now.  *)
CallInv ==
    /\ \A i \in 1 .. Len(calls) :
          /\ UsedBy(calls[i]) \subseteq live
          /\ Arguments(calls[i]) \cap (frameHandles \cup calls[i].locals) = {}
    /\ \A i, j \in 1 .. Len(calls) : i # j => UsedBy(calls[i]) \cap UsedBy(calls[j]) = {}

(* Every handle has an owner: the frame, native code or a call; or it is   *)
(* an argument that was returned.                                          *)
LiveInv ==
    \A h \in live : \/ h \in frameHandles \cup kept \cup returnedArguments
                    \/ \E i \in 1 .. Len(calls) : h \in Arguments(calls[i])

OwnedInv == TypeOK /\ OwnerInv /\ CallInv /\ LiveInv

(* All this as long as no call has returned whose argument it unprotected. *)
IInv == TypeOK /\ (corrupted \/ OwnedInv)

-----------------------------------------------------------------------------
(* Append, and the removal of the last element.                            *)
LEMMA AppendFacts ==
    ASSUME NEW S, NEW s \in Seq(S), NEW e \in S
    PROVE  /\ Append(s, e) \in Seq(S)
           /\ Len(Append(s, e)) = Len(s) + 1
           /\ \A i \in 1 .. Len(s) : Append(s, e)[i] = s[i]
           /\ Append(s, e)[Len(s) + 1] = e
OBVIOUS

LEMMA PopFacts ==
    ASSUME NEW S, NEW s \in Seq(S), s # <<>>
    PROVE  /\ SubSeq(s, 1, Len(s) - 1) \in Seq(S)
           /\ Len(SubSeq(s, 1, Len(s) - 1)) = Len(s) - 1
           /\ \A i \in 1 .. Len(s) - 1 : SubSeq(s, 1, Len(s) - 1)[i] = s[i]
           /\ Len(s) \in Nat /\ Len(s) >= 1
           /\ s[Len(s)] \in S
<1>1. Len(s) \in Nat /\ Len(s) >= 1 /\ s \in [1 .. Len(s) -> S]
    OBVIOUS
<1>2. \A i \in 1 .. Len(s) - 1 : s[i] \in S
    BY <1>1
<1> QED
    BY <1>1, <1>2, SubSeqProperties

(* The change of the locals of the innermost call.                         *)
LEMMA LocalsFacts ==
    ASSUME NEW s \in Seq(Call), s # <<>>, NEW L \in SUBSET Handle
    PROVE  LET t == [s EXCEPT ![Len(s)] = [s[Len(s)] EXCEPT !.locals = L]]
           IN  /\ t \in Seq(Call) /\ Len(t) = Len(s)
               /\ \A i \in 1 .. Len(s) : Arguments(t[i]) = Arguments(s[i])
               /\ \A i \in 1 .. Len(s) : i # Len(s) => t[i] = s[i]
               /\ t[Len(s)].locals = L
<1> DEFINE t == [s EXCEPT ![Len(s)] = [s[Len(s)] EXCEPT !.locals = L]]
<1>1. Len(s) \in 1 .. Len(s) /\ s \in [1 .. Len(s) -> Call]
    OBVIOUS
<1>2. s[Len(s)] \in Call
    BY <1>1
<1>3. [s[Len(s)] EXCEPT !.locals = L] \in Call
    BY <1>2 DEF Call
<1>4. t \in Seq(Call) /\ Len(t) = Len(s)
    BY <1>3
<1>5. \A i \in 1 .. Len(s) : i # Len(s) => t[i] = s[i]
    BY <1>1
<1>6. t[Len(s)] = [s[Len(s)] EXCEPT !.locals = L]
    BY <1>1
<1>7. /\ t[Len(s)].locals = L /\ t[Len(s)].args = s[Len(s)].args
      /\ t[Len(s)].disposed = s[Len(s)].disposed
    BY <1>2, <1>6 DEF Call
<1>8. \A i \in 1 .. Len(s) : Arguments(t[i]) = Arguments(s[i])
    BY <1>5, <1>7 DEF Arguments
<1> QED
    BY <1>4, <1>5, <1>7, <1>8

(* The innermost call has unprotected an argument.                         *)
LEMMA DisposedFacts ==
    ASSUME NEW s \in Seq(Call), s # <<>>, NEW D \in SUBSET Handle
    PROVE  LET t == [s EXCEPT ![Len(s)] = [s[Len(s)] EXCEPT !.disposed = D]]
           IN  /\ t \in Seq(Call) /\ Len(t) = Len(s)
               /\ \A i \in 1 .. Len(s) : t[i].locals = s[i].locals /\ t[i].args = s[i].args
               /\ \A i \in 1 .. Len(s) : i # Len(s) => t[i] = s[i]
               /\ t[Len(s)].disposed = D
<1> DEFINE t == [s EXCEPT ![Len(s)] = [s[Len(s)] EXCEPT !.disposed = D]]
<1>1. Len(s) \in 1 .. Len(s) /\ s \in [1 .. Len(s) -> Call]
    OBVIOUS
<1>2. s[Len(s)] \in Call
    BY <1>1
<1>3. [s[Len(s)] EXCEPT !.disposed = D] \in Call
    BY <1>2 DEF Call
<1>4. t \in Seq(Call) /\ Len(t) = Len(s)
    BY <1>3
<1>5. \A i \in 1 .. Len(s) : i # Len(s) => t[i] = s[i]
    BY <1>1
<1>6. t[Len(s)] = [s[Len(s)] EXCEPT !.disposed = D]
    BY <1>1
<1>7. /\ t[Len(s)].locals = s[Len(s)].locals /\ t[Len(s)].args = s[Len(s)].args
      /\ t[Len(s)].disposed = D
    BY <1>2, <1>6 DEF Call
<1> QED
    BY <1>4, <1>5, <1>7

-----------------------------------------------------------------------------
(* Nothing is allocated at the start.                                     *)
LEMMA InitEstablishes == Init => IInv
<1> SUFFICES ASSUME Init PROVE IInv
    OBVIOUS
<1> USE DEF Init
<1>1. TypeOK
    <2>1. calls \in Seq(Call)
        OBVIOUS
    <2>2. native \in [Function -> Native]
        BY DEF Native
    <2> QED
        BY <2>1, <2>2 DEF TypeOK
<1>2. OwnerInv /\ LiveInv
    BY DEF OwnerInv, LiveInv
<1>3. CallInv
    BY DEF CallInv
<1> QED
    BY <1>1, <1>2, <1>3 DEF IInv, OwnedInv

(* Allocate, followed by tracking.                                         *)
LEMMA AllocateStep ==
    ASSUME OwnedInv, NEW h \in Handle, Allocate(h), frameHandles' = frameHandles \cup {h},
           native' \in [Function -> Native], held' \subseteq Function
    PROVE  OwnedInv'
<1> USE DEF OwnedInv
<1>1. CASE calls = <<>>
    <2>1. calls' = calls
        BY <1>1 DEF Allocate
    <2> QED
        BY <1>1, <2>1 DEF Allocate, TypeOK, OwnerInv, CallInv, LiveInv, UsedBy
<1>2. CASE calls # <<>>
    <2> DEFINE n == Len(calls)
               L == calls[n].locals \cup {h}
    <2>1. calls \in Seq(Call) /\ n \in 1 .. n /\ calls[n] \in Call
        BY <1>2 DEF TypeOK
    <2>2. L \in SUBSET Handle
        BY <2>1 DEF Call
    <2>3. calls' = [calls EXCEPT ![n].locals = L]
        BY <1>2 DEF Allocate
    <2>4. /\ calls' \in Seq(Call) /\ Len(calls') = n
          /\ \A i \in 1 .. n : Arguments(calls'[i]) = Arguments(calls[i])
          /\ \A i \in 1 .. n : i # n => calls'[i] = calls[i]
          /\ calls'[n].locals = L
        <3> HIDE DEF L
        <3> DEFINE t == [calls EXCEPT ![Len(calls)] = [calls[Len(calls)] EXCEPT !.locals = L]]
        <3>1. /\ t \in Seq(Call) /\ Len(t) = Len(calls)
              /\ \A i \in 1 .. Len(calls) : Arguments(t[i]) = Arguments(calls[i])
              /\ \A i \in 1 .. Len(calls) : i # Len(calls) => t[i] = calls[i]
              /\ t[Len(calls)].locals = L
            BY <1>2, <2>1, <2>2, LocalsFacts
        <3>2. calls' = t
            BY <2>3
        <3> QED
            BY <3>1, <3>2
    <2>5. \A i \in 1 .. n : /\ UsedBy(calls'[i]) \subseteq UsedBy(calls[i]) \cup {h}
                            /\ calls'[i].locals \subseteq calls[i].locals \cup {h}
        BY <2>4 DEF UsedBy
    <2>6. \A i \in 1 .. n : i # n => UsedBy(calls'[i]) = UsedBy(calls[i])
        BY <2>4 DEF UsedBy
    <2>7. h \notin live /\ live' = live \cup {h}
        BY DEF Allocate
    <2>8. TypeOK'
        BY <2>4, <2>7 DEF TypeOK, Allocate
    <2>9. OwnerInv'
        BY <2>7 DEF OwnerInv, Allocate
    <2>10. \A i \in 1 .. n : UsedBy(calls[i]) \subseteq live
               /\ Arguments(calls[i]) \cap (frameHandles \cup calls[i].locals) = {}
        BY DEF CallInv
    <2>11. \A i \in 1 .. n : Arguments(calls[i]) \subseteq live
        BY <2>10 DEF UsedBy
    <2>12. \A i \in 1 .. n : UsedBy(calls'[i]) \subseteq live'
               /\ Arguments(calls'[i]) \cap (frameHandles' \cup calls'[i].locals) = {}
        BY <2>4, <2>5, <2>7, <2>10, <2>11
    <2>13. \A i, j \in 1 .. n : i # j => UsedBy(calls'[i]) \cap UsedBy(calls'[j]) = {}
        <3>1. \A i, j \in 1 .. n : i # j => UsedBy(calls[i]) \cap UsedBy(calls[j]) = {}
            BY DEF CallInv
        <3>2. \A i \in 1 .. n : h \notin UsedBy(calls[i])
            BY <2>7, <2>10
        <3>3. \A i, j \in 1 .. n : i # j => i # n \/ j # n
            OBVIOUS
        <3> HIDE DEF n
        <3> QED
            BY <2>5, <2>6, <3>1, <3>2, <3>3
    <2>14. CallInv'
        BY <2>4, <2>12, <2>13 DEF CallInv
    <2>15. LiveInv'
        BY <2>4, <2>7 DEF LiveInv, Allocate
    <2> QED
        BY <2>8, <2>9, <2>14, <2>15
<1> QED
    BY <1>1, <1>2

(* Protect keeps a handle of the running code.                             *)
LEMMA ProtectStep == ASSUME OwnedInv, NEW h \in Handle, Protect(h) PROVE OwnedInv'
<1> USE DEF OwnedInv
<1>1. h \in live
    <2>1. CASE calls = <<>>
        BY <2>1 DEF Protect, OwnerInv
    <2>2. CASE calls # <<>>
        <3>1. Len(calls) \in 1 .. Len(calls)
            BY <2>2 DEF TypeOK
        <3> QED
            BY <2>2, <3>1 DEF Protect, CallInv, Top
    <2> QED
        BY <2>1, <2>2
<1>2. TypeOK'
    BY DEF TypeOK, Protect, functionVars
<1>3. OwnerInv' /\ LiveInv'
    BY <1>1 DEF OwnerInv, LiveInv, Protect
<1>4. CallInv'
    BY DEF CallInv, Protect
<1> QED
    BY <1>2, <1>3, <1>4

(* Unprotect deletes a handle that no other call uses.                     *)
LEMMA UnprotectStep == ASSUME OwnedInv, NEW h \in Handle, Unprotect(h) PROVE OwnedInv'
<1> USE DEF OwnedInv
<1>1. /\ live' = live \ {h} /\ kept' = kept \ {h} /\ frameHandles' = frameHandles \ {h}
      /\ protectedHandles' = protectedHandles \ {h}
      /\ UNCHANGED <<returnedArguments, inFrame, functionVars, corrupted>>
    BY DEF Unprotect, Forget
<1>2. OwnerInv'
    BY <1>1 DEF OwnerInv
<1>3. CASE calls = <<>>
    <2>1. calls' = calls
        BY <1>3 DEF Unprotect, Forget
    <2>2. TypeOK' /\ LiveInv'
        BY <1>1, <1>3, <2>1 DEF TypeOK, LiveInv, functionVars
    <2>3. CallInv'
        BY <1>3, <2>1 DEF CallInv
    <2> QED
        BY <1>2, <2>2, <2>3
<1>4. CASE calls # <<>>
    <2> DEFINE n == Len(calls)
               L == calls[n].locals \ {h}
    <2>1. calls \in Seq(Call) /\ n \in 1 .. n /\ calls[n] \in Call
        BY <1>4 DEF TypeOK
    <2>2. L \in SUBSET Handle
        BY <2>1 DEF Call
    <2>3. calls' = [calls EXCEPT ![n].locals = L]
        BY <1>4 DEF Unprotect, Forget
    <2>4. /\ calls' \in Seq(Call) /\ Len(calls') = n
          /\ \A i \in 1 .. n : Arguments(calls'[i]) = Arguments(calls[i])
          /\ \A i \in 1 .. n : i # n => calls'[i] = calls[i]
          /\ calls'[n].locals = L
        <3> HIDE DEF L
        <3> DEFINE t == [calls EXCEPT ![Len(calls)] = [calls[Len(calls)] EXCEPT !.locals = L]]
        <3>1. /\ t \in Seq(Call) /\ Len(t) = Len(calls)
              /\ \A i \in 1 .. Len(calls) : Arguments(t[i]) = Arguments(calls[i])
              /\ \A i \in 1 .. Len(calls) : i # Len(calls) => t[i] = calls[i]
              /\ t[Len(calls)].locals = L
            BY <1>4, <2>1, <2>2, LocalsFacts
        <3>2. calls' = t
            BY <2>3
        <3> QED
            BY <3>1, <3>2
    <2>5. \A i \in 1 .. n : /\ UsedBy(calls'[i]) \subseteq UsedBy(calls[i])
                            /\ calls'[i].locals \subseteq calls[i].locals
        BY <2>4 DEF UsedBy
    <2>6. \A i \in 1 .. n : h \notin Arguments(calls[i]) /\ (i # n => h \notin calls[i].locals)
        BY <2>1 DEF Unprotect, Disposable
    <2>7. \A i \in 1 .. n : h \notin UsedBy(calls'[i])
        BY <2>4, <2>6 DEF UsedBy
    <2>8. TypeOK'
        BY <1>1, <2>4 DEF TypeOK, functionVars
    <2>9. \A i \in 1 .. n : UsedBy(calls'[i]) \subseteq live'
              /\ Arguments(calls'[i]) \cap (frameHandles' \cup calls'[i].locals) = {}
        BY <1>1, <2>4, <2>5, <2>7 DEF CallInv
    <2>10. \A i, j \in 1 .. n : i # j => UsedBy(calls'[i]) \cap UsedBy(calls'[j]) = {}
        BY <2>5 DEF CallInv
    <2>11. CallInv'
        BY <2>4, <2>9, <2>10 DEF CallInv
    <2>12. LiveInv'
        BY <1>1, <2>4 DEF LiveInv
    <2> QED
        BY <1>2, <2>8, <2>11, <2>12
<1> QED
    BY <1>3, <1>4

(* A call unprotects its argument, which is then no longer its own.        *)
LEMMA UnprotectArgumentStep ==
    ASSUME OwnedInv, NEW h \in Handle, UnprotectArgument(h) PROVE OwnedInv'
<1> DEFINE n == Len(calls)
           D == calls[n].disposed \cup {h}
<1>1. /\ calls # <<>> /\ h \in kept /\ h \in Arguments(calls[n])
      /\ live' = live \ {h} /\ kept' = kept \ {h} /\ frameHandles' = frameHandles \ {h}
      /\ protectedHandles' = protectedHandles \ {h}
      /\ UNCHANGED <<returnedArguments, inFrame, functionVars, corrupted>>
    BY DEF UnprotectArgument, Top
<1>2. calls \in Seq(Call) /\ n \in 1 .. n /\ calls[n] \in Call
    BY <1>1 DEF OwnedInv, TypeOK
<1>3. D \in SUBSET Handle
    BY <1>2 DEF Call
<1>4. calls' = [calls EXCEPT ![n] = [calls[n] EXCEPT !.disposed = D]]
    BY DEF UnprotectArgument
<1>5. /\ calls' \in Seq(Call) /\ Len(calls') = n
      /\ \A i \in 1 .. n : calls'[i].locals = calls[i].locals /\ calls'[i].args = calls[i].args
      /\ \A i \in 1 .. n : i # n => calls'[i] = calls[i]
      /\ calls'[n].disposed = D
    <2> HIDE DEF D
    <2> DEFINE t == [calls EXCEPT ![Len(calls)] = [calls[Len(calls)] EXCEPT !.disposed = D]]
    <2>1. /\ t \in Seq(Call) /\ Len(t) = Len(calls)
          /\ \A i \in 1 .. Len(calls) : t[i].locals = calls[i].locals /\ t[i].args = calls[i].args
          /\ \A i \in 1 .. Len(calls) : i # Len(calls) => t[i] = calls[i]
          /\ t[Len(calls)].disposed = D
        BY <1>1, <1>2, <1>3, DisposedFacts
    <2> QED
        BY <1>4, <2>1
<1>6. /\ \A i \in 1 .. n : UsedBy(calls[i]) \subseteq live
      /\ \A i \in 1 .. n : Arguments(calls[i]) \cap (frameHandles \cup calls[i].locals) = {}
      /\ \A i, j \in 1 .. n : i # j => UsedBy(calls[i]) \cap UsedBy(calls[j]) = {}
    BY DEF OwnedInv, CallInv
<1>7. h \in UsedBy(calls[n]) /\ \A i \in 1 .. n : i # n => h \notin UsedBy(calls[i])
    BY <1>1, <1>2, <1>6 DEF UsedBy
<1>8. \A i \in 1 .. n : Arguments(calls'[i]) = Arguments(calls[i]) \ {h}
    <2>1. ASSUME NEW i \in 1 .. n, i # n PROVE Arguments(calls'[i]) = Arguments(calls[i]) \ {h}
        BY <1>5, <1>7, <2>1 DEF UsedBy
    <2>2. Arguments(calls'[n]) = Arguments(calls[n]) \ {h}
        BY <1>2, <1>5 DEF Arguments
    <2> QED
        BY <2>1, <2>2
<1>9. \A i \in 1 .. n : UsedBy(calls'[i]) = UsedBy(calls[i]) \ {h}
    <2>1. h \notin calls[n].locals
        BY <1>1, <1>2, <1>6
    <2>2. \A i \in 1 .. n : h \notin calls[i].locals
        BY <1>7, <2>1 DEF UsedBy
    <2> QED
        BY <1>5, <1>8, <2>2 DEF UsedBy
<1>10. TypeOK'
    BY <1>1, <1>5 DEF OwnedInv, TypeOK, functionVars
<1>11. OwnerInv'
    BY <1>1 DEF OwnedInv, OwnerInv
<1>12. \A i \in 1 .. n : UsedBy(calls'[i]) \subseteq live'
           /\ Arguments(calls'[i]) \cap (frameHandles' \cup calls'[i].locals) = {}
    BY <1>1, <1>5, <1>6, <1>8, <1>9
<1>13. \A i, j \in 1 .. n : i # j => UsedBy(calls'[i]) \cap UsedBy(calls'[j]) = {}
    BY <1>6, <1>9
<1>14. CallInv'
    BY <1>5, <1>12, <1>13 DEF CallInv
<1>15. LiveInv'
    BY <1>1, <1>5, <1>8 DEF OwnedInv, LiveInv
<1> QED
    BY <1>10, <1>11, <1>14, <1>15 DEF OwnedInv

(* A call comes with handles of its own.                                   *)
LEMMA NativeCallStep == ASSUME OwnedInv, NEW A \in SUBSET Handle, NativeCall(A) PROVE OwnedInv'
<1> USE DEF OwnedInv
<1> DEFINE n == Len(calls)
           c == [args |-> A, disposed |-> {}, locals |-> {}]
<1>1. calls \in Seq(Call) /\ n \in Nat /\ c \in Call
    BY DEF TypeOK, Call
<1>2. calls' = Append(calls, c) /\ live' = live \cup A /\ A \cap live = {}
    BY DEF NativeCall
<1>3. /\ calls' \in Seq(Call) /\ Len(calls') = n + 1
      /\ \A i \in 1 .. n : calls'[i] = calls[i]
      /\ calls'[n + 1] = c
    BY <1>1, <1>2, AppendFacts
<1>4. \A i \in 1 .. n + 1 : i \in 1 .. n \/ i = n + 1
    BY <1>1
<1>5. TypeOK' /\ OwnerInv'
    BY <1>2, <1>3 DEF TypeOK, OwnerInv, NativeCall, functionVars
<1>6. UsedBy(c) = A /\ Arguments(c) = A /\ c.locals = {}
    BY DEF UsedBy, Arguments
<1>7. \A i \in 1 .. n : /\ UsedBy(calls[i]) \subseteq live
                        /\ Arguments(calls[i]) \cap (frameHandles \cup calls[i].locals) = {}
    BY DEF CallInv
<1>8. \A i \in 1 .. n + 1 :
          /\ UsedBy(calls'[i]) \subseteq live'
          /\ Arguments(calls'[i]) \cap (frameHandles' \cup calls'[i].locals) = {}
    BY <1>2, <1>3, <1>4, <1>6, <1>7 DEF OwnerInv, NativeCall
<1>9. \A i, j \in 1 .. n + 1 : i # j => UsedBy(calls'[i]) \cap UsedBy(calls'[j]) = {}
    BY <1>2, <1>3, <1>4, <1>6, <1>7 DEF CallInv
<1>10. CallInv'
    BY <1>3, <1>8, <1>9 DEF CallInv
<1>11. \A i \in 1 .. n : i \in 1 .. n + 1
    BY <1>1
<1>12. n + 1 \in 1 .. n + 1
    BY <1>1
<1>13. LiveInv'
    BY <1>2, <1>3, <1>6, <1>11, <1>12 DEF LiveInv, NativeCall
<1> QED
    BY <1>5, <1>10, <1>13

(* The end of a call deletes its own handles only, unless it deletes one   *)
(* that the call has unprotected.                                          *)
LEMMA ReturnStep == ASSUME OwnedInv, NEW R \in SUBSET Handle, Return(R) PROVE IInv'
<1> USE DEF OwnedInv
<1> DEFINE n == Len(calls)
           D == SpentArguments(R) \cup SpentResult(R)
<1>1. calls \in Seq(Call) /\ calls # <<>>
    BY DEF TypeOK, Return
<1>2. calls' = SubSeq(calls, 1, n - 1)
    BY DEF Return, Pop
<1>3. /\ calls' \in Seq(Call) /\ Len(calls') = n - 1
      /\ \A i \in 1 .. n - 1 : calls'[i] = calls[i]
      /\ n \in Nat /\ n >= 1 /\ calls[n] \in Call
    BY <1>1, <1>2, PopFacts
<1>4. /\ live' = live \ D /\ frameHandles' = frameHandles \ SpentResult(R)
      /\ returnedArguments' = returnedArguments \cup ((R \cap Arguments(calls[n])) \ protectedHandles)
      /\ corrupted' = (SpentArguments(R) \cap calls[n].disposed # {})
      /\ UNCHANGED <<protectedHandles, kept, inFrame, functionVars>>
    BY DEF Return, Top, ReturnedNow
<1>5. n \in 1 .. n /\ \A i \in 1 .. n - 1 : i \in 1 .. n /\ i # n
    BY <1>3
<1>6. TypeOK'
    BY <1>3, <1>4 DEF TypeOK, Call, functionVars, Arguments
<1>7. SUFFICES ASSUME ~corrupted' PROVE OwnedInv'
    BY <1>6 DEF IInv
<1>8. SpentArguments(R) \subseteq Arguments(calls[n])
    BY <1>4, <1>7 DEF SpentArguments, Top, Arguments
<1>9. D \subseteq UsedBy(calls[n]) /\ D \cap kept = {} /\ SpentArguments(R) \cap frameHandles = {}
    <2>1. SpentResult(R) \subseteq UsedBy(calls[n])
        BY DEF Return, Results, SpentResult, Top, OwnerInv
    <2>2. D \cap kept = {}
        BY DEF SpentArguments, SpentResult, OwnerInv
    <2>3. SpentArguments(R) \subseteq UsedBy(calls[n])
        BY <1>8 DEF UsedBy
    <2>4. SpentArguments(R) \cap frameHandles = {}
        BY <1>5, <1>8 DEF CallInv
    <2> QED
        BY <2>1, <2>2, <2>3, <2>4
<1>10. OwnerInv'
    BY <1>4, <1>9 DEF OwnerInv
<1>11. \A i \in 1 .. n - 1 : UsedBy(calls[i]) \cap D = {} /\ UsedBy(calls[i]) \subseteq live
    BY <1>5, <1>9 DEF CallInv
<1>12. \A i \in 1 .. n - 1 :
          /\ UsedBy(calls'[i]) \subseteq live'
          /\ Arguments(calls'[i]) \cap (frameHandles' \cup calls'[i].locals) = {}
    BY <1>3, <1>4, <1>5, <1>11 DEF CallInv
<1>13. \A i, j \in 1 .. n - 1 : i # j => UsedBy(calls'[i]) \cap UsedBy(calls'[j]) = {}
    BY <1>3, <1>5 DEF CallInv
<1>14. CallInv'
    BY <1>3, <1>12, <1>13 DEF CallInv
<1>15. LiveInv'
    <2> SUFFICES ASSUME NEW h \in live'
                 PROVE  \/ h \in frameHandles' \cup kept' \cup returnedArguments'
                        \/ \E i \in 1 .. Len(calls') : h \in Arguments(calls'[i])
        BY DEF LiveInv
    <2>1. h \in live /\ h \notin D
        BY <1>4
    <2>2. CASE h \in frameHandles \cup kept \cup returnedArguments
        BY <1>4, <2>1, <2>2
    <2>3. CASE \E i \in 1 .. n : h \in Arguments(calls[i])
        <3>1. PICK i \in 1 .. n : h \in Arguments(calls[i])
            BY <2>3
        <3>2. CASE i = n
            BY <1>4, <2>1, <3>1, <3>2 DEF SpentArguments, Top, OwnerInv, Arguments
        <3>3. CASE i # n
            <4>1. i \in 1 .. n - 1
                BY <1>3, <3>3
            <4> QED
                BY <1>3, <3>1, <4>1
        <3> QED
            BY <3>2, <3>3
    <2> QED
        BY <2>1, <2>2, <2>3 DEF LiveInv
<1> QED
    BY <1>6, <1>10, <1>14, <1>15 DEF OwnedInv

(* The end of the frame deletes what is tracked and not kept.              *)
LEMMA ClearStep == ASSUME OwnedInv, ClearFrameHandles PROVE OwnedInv'
<1> USE DEF OwnedInv, ClearFrameHandles
<1>1. native' \in [Function -> Native] /\ held' = held
    BY DEF ClearFrameFunctions, TypeOK, Native
<1>2. TypeOK'
    BY <1>1 DEF TypeOK
<1>3. OwnerInv'
    BY DEF OwnerInv
<1>4. CallInv' /\ LiveInv'
    BY DEF CallInv, LiveInv, OwnerInv
<1> QED
    BY <1>2, <1>3, <1>4

(* Steps that do not touch handles.                                        *)
LEMMA OtherSteps ==
    ASSUME OwnedInv, UNCHANGED <<handleVars, calls, returnedArguments, corrupted>>,
           inFrame' \in BOOLEAN, native' \in [Function -> Native], held' \subseteq Function
    PROVE  OwnedInv'
BY DEF OwnedInv, TypeOK, OwnerInv, CallInv, LiveInv, handleVars

(* Every step preserves the invariant, one case for each action.           *)
LEMMA InvStep == IInv /\ [Next]_vars => IInv'
<1> SUFFICES ASSUME IInv, [Next]_vars PROVE IInv'
    OBVIOUS
<1>1. CASE UNCHANGED vars
    BY <1>1 DEF IInv, OwnedInv, TypeOK, OwnerInv, CallInv, LiveInv, vars, handleVars, functionVars
<1>2. CASE Next
    <2>1. OwnedInv /\ Step
        BY <1>2 DEF Next, IInv
    <2>2. SUFFICES OwnedInv' \/ IInv'
        BY DEF IInv, OwnedInv
    <2>3. ASSUME NEW A \in SUBSET Handle, NativeCall(A) PROVE OwnedInv'
        BY <2>1, <2>3, NativeCallStep
    <2>4. ASSUME NEW h \in Handle, NewHandle(h) PROVE OwnedInv'
        <3>1. native' \in [Function -> Native] /\ held' \subseteq Function
            BY <2>1, <2>4 DEF NewHandle, functionVars, OwnedInv, TypeOK
        <3> QED
            BY <2>1, <2>4, <3>1, AllocateStep DEF NewHandle
    <2>5. ASSUME NEW h \in Handle, Protect(h) \/ Unprotect(h) \/ UnprotectArgument(h)
          PROVE  OwnedInv'
        BY <2>1, <2>5, ProtectStep, UnprotectStep, UnprotectArgumentStep
    <2>6. ASSUME NEW h \in Handle, NEW f \in Function, NEW suspended \in BOOLEAN,
                 NewFunction(h, f, suspended)
          PROVE  OwnedInv'
        <3>1. native' \in [Function -> Native] /\ held' \subseteq Function
            BY <2>1, <2>6 DEF NewFunction, OwnedInv, TypeOK, Native
        <3> QED
            BY <2>1, <2>6, <3>1, AllocateStep DEF NewFunction
    <2>7. ASSUME NEW R \in SUBSET Handle, Return(R) PROVE IInv'
        BY <2>1, <2>7, ReturnStep
    <2>8. CASE BeginFrame
        BY <2>1, <2>8, OtherSteps DEF BeginFrame, functionVars, OwnedInv, TypeOK
    <2>9. CASE ClearFrameHandles
        BY <2>1, <2>9, ClearStep
    <2>10. ASSUME NEW f \in Function, CollectFunction(f) PROVE OwnedInv'
        <3>1. native' \in [Function -> Native] /\ held' \subseteq Function /\ inFrame' \in BOOLEAN
            BY <2>1, <2>10 DEF CollectFunction, OwnedInv, TypeOK, Native
        <3> QED
            BY <2>1, <2>10, <3>1, OtherSteps DEF CollectFunction
    <2> QED
        BY <2>1, <2>3, <2>4, <2>5, <2>6, <2>7, <2>8, <2>9, <2>10 DEF Step
<1> QED
    BY <1>1, <1>2

-----------------------------------------------------------------------------
(* In every reachable state each handle has one owner, or a call has       *)
(* returned whose argument it had unprotected.                             *)
THEOREM InvHolds == Spec => []IInv
BY InitEstablishes, InvStep, PTL DEF Spec

(* What native code has protected is not deleted under it before such a    *)
(* call returns: the promise of protect().                                 *)
THEOREM ProtectionHolds == Spec => []KeptHandlesAreLive
<1>1. IInv => KeptHandlesAreLive
    BY DEF IInv, OwnedInv, OwnerInv, KeptHandlesAreLive
<1> QED
    BY <1>1, InvHolds, PTL

(* No call that is nested in another takes away what that one uses, and a  *)
(* call loses no argument but the one it unprotects itself.                *)
THEOREM CallsKeepTheirHandles == Spec => []HandlesInUseAreLive
<1>1. IInv => HandlesInUseAreLive
    BY DEF IInv, OwnedInv, CallInv, HandlesInUseAreLive, InUse
<1> QED
    BY <1>1, InvHolds, PTL

(* Whatever will be deleted, at the end of a call or of a frame, is        *)
(* allocated and has one owner, but for an argument that its own call has  *)
(* unprotected.                                                            *)
THEOREM NoDoubleDelete == Spec => []DeletedOnce
<1>1. IInv => DeletedOnce
    BY DEF IInv, OwnedInv, OwnerInv, CallInv, DeletedOnce, UsedBy
<1> QED
    BY <1>1, InvHolds, PTL

(* A frame leaves nothing behind but what is kept or was returned.         *)
THEOREM FramesDoNotLeak == Spec => FrameReleasesAll
<1>1. IInv /\ [Next]_vars =>
          [inFrame /\ ~inFrame' => live' \subseteq kept' \cup returnedArguments']_vars
    <2> SUFFICES ASSUME IInv, [Next]_vars, inFrame, ~inFrame'
                 PROVE  live' \subseteq kept' \cup returnedArguments'
        OBVIOUS
    <2>1. ClearFrameHandles
        BY DEF Next, Step, vars, NativeCall, NewHandle, NewFunction, Allocate, Protect, Unprotect,
               UnprotectArgument, Forget, Return, BeginFrame, CollectFunction
    <2>2. OwnedInv
        BY <2>1 DEF Next, vars, IInv, ClearFrameHandles
    <2>3. live \subseteq frameHandles \cup kept \cup returnedArguments
        BY <2>1, <2>2 DEF ClearFrameHandles, OwnedInv, LiveInv
    <2> QED
        BY <2>1, <2>2, <2>3 DEF ClearFrameHandles, OwnedInv, OwnerInv
<1> QED
    BY <1>1, InvHolds, PTL DEF Spec, FrameReleasesAll

-----------------------------------------------------------------------------
(* QuickJS: the inductive invariant counts references.                     *)

(* What native code keeps is what it protects; it is allocated, and so is  *)
(* what a call in progress uses, and no two of these use the same box.     *)
BoxInv ==
    /\ protectedBoxes = keptBoxes
    /\ keptBoxes \subseteq Live
    /\ \A i \in 1 .. Len(activations) :
          /\ BoxesOf(activations[i]) \subseteq Live
          /\ ArgumentBoxes(activations[i]) \cap activations[i].locals = {}
    /\ \A i, j \in 1 .. Len(activations) : i # j
          => BoxesOf(activations[i]) \cap BoxesOf(activations[j]) = {}

(* The boxes that hold o.                                                  *)
Boxes(o) == {h \in Box : box[h] = o}

(* The reference count of an object covers the references of the script,   *)
(* one for each of its boxes and one more for each box that is kept,       *)
(* unless a native function has returned a box that it also keeps.         *)
CountInv ==
    \A o \in Object :
        /\ IsFiniteSet(Boxes(o))
        /\ o \notin handedOut =>
              script[o] + Cardinality(Boxes(o)) + Cardinality(keptBoxes \cap Boxes(o))
                  <= refs[o]
        /\ o \notin born => script[o] = 0 /\ Boxes(o) = {}

CountedInv == QuickTypeOK /\ BoxInv /\ CountInv

(* The inductive invariant: all this as long as no box was used after it   *)
(* was deleted.                                                            *)
QuickInv == QuickTypeOK /\ (misused \/ CountedInv)

-----------------------------------------------------------------------------
(* The change of the locals of the innermost call.                         *)
LEMMA ActivationFacts ==
    ASSUME NEW s \in Seq(Activation), s # <<>>, NEW L \in SUBSET Box
    PROVE  LET t == [s EXCEPT ![Len(s)] = [s[Len(s)] EXCEPT !.locals = L]]
           IN  /\ t \in Seq(Activation) /\ Len(t) = Len(s)
               /\ \A i \in 1 .. Len(s) : ArgumentBoxes(t[i]) = ArgumentBoxes(s[i])
               /\ \A i \in 1 .. Len(s) : i # Len(s) => t[i] = s[i]
               /\ t[Len(s)].locals = L
<1> DEFINE t == [s EXCEPT ![Len(s)] = [s[Len(s)] EXCEPT !.locals = L]]
<1>1. Len(s) \in 1 .. Len(s) /\ s \in [1 .. Len(s) -> Activation]
    OBVIOUS
<1>2. s[Len(s)] \in Activation
    BY <1>1
<1>3. [s[Len(s)] EXCEPT !.locals = L] \in Activation
    BY <1>2 DEF Activation
<1>4. t \in Seq(Activation) /\ Len(t) = Len(s)
    BY <1>3
<1>5. \A i \in 1 .. Len(s) : i # Len(s) => t[i] = s[i]
    BY <1>1
<1>6. t[Len(s)] = [s[Len(s)] EXCEPT !.locals = L]
    BY <1>1
<1>7. /\ t[Len(s)].locals = L /\ t[Len(s)].args = s[Len(s)].args
      /\ t[Len(s)].disposed = s[Len(s)].disposed
    BY <1>2, <1>6 DEF Activation
<1>8. \A i \in 1 .. Len(s) : ArgumentBoxes(t[i]) = ArgumentBoxes(s[i])
    BY <1>5, <1>7 DEF ArgumentBoxes
<1> QED
    BY <1>4, <1>5, <1>7, <1>8

(* The innermost call has unprotected an argument.                         *)
LEMMA DisposedBoxFacts ==
    ASSUME NEW s \in Seq(Activation), s # <<>>, NEW D \in SUBSET Box
    PROVE  LET t == [s EXCEPT ![Len(s)] = [s[Len(s)] EXCEPT !.disposed = D]]
           IN  /\ t \in Seq(Activation) /\ Len(t) = Len(s)
               /\ \A i \in 1 .. Len(s) : t[i].locals = s[i].locals /\ t[i].args = s[i].args
               /\ \A i \in 1 .. Len(s) : i # Len(s) => t[i] = s[i]
               /\ t[Len(s)].disposed = D
<1> DEFINE t == [s EXCEPT ![Len(s)] = [s[Len(s)] EXCEPT !.disposed = D]]
<1>1. Len(s) \in 1 .. Len(s) /\ s \in [1 .. Len(s) -> Activation]
    OBVIOUS
<1>2. s[Len(s)] \in Activation
    BY <1>1
<1>3. [s[Len(s)] EXCEPT !.disposed = D] \in Activation
    BY <1>2 DEF Activation
<1>4. t \in Seq(Activation) /\ Len(t) = Len(s)
    BY <1>3
<1>5. \A i \in 1 .. Len(s) : i # Len(s) => t[i] = s[i]
    BY <1>1
<1>6. t[Len(s)] = [s[Len(s)] EXCEPT !.disposed = D]
    BY <1>1
<1>7. /\ t[Len(s)].locals = s[Len(s)].locals /\ t[Len(s)].args = s[Len(s)].args
      /\ t[Len(s)].disposed = D
    BY <1>2, <1>6 DEF Activation
<1> QED
    BY <1>4, <1>5, <1>7

(* Sets with fewer and with more elements.                                 *)
LEMMA Fewer ==
    ASSUME NEW S, IsFiniteSet(S), NEW T \in SUBSET S
    PROVE  /\ IsFiniteSet(T) /\ Cardinality(T) \in Nat /\ Cardinality(S) \in Nat
           /\ Cardinality(T) <= Cardinality(S)
           /\ \A x \in S \ T : Cardinality(T) + 1 <= Cardinality(S)
<1>1. /\ IsFiniteSet(T) /\ Cardinality(T) \in Nat /\ Cardinality(S) \in Nat
      /\ Cardinality(T) <= Cardinality(S)
    BY FS_Subset, FS_CardinalityType
<1>2. ASSUME NEW x \in S \ T PROVE Cardinality(T) + 1 <= Cardinality(S)
    BY <1>1, FS_Subset
<1>3. QED BY <1>1, <1>2

(* A set with one more element has at most one more.                       *)
LEMMA OneMoreElement ==
    ASSUME NEW S, IsFiniteSet(S), NEW x
    PROVE  /\ IsFiniteSet(S \cup {x}) /\ Cardinality(S \cup {x}) \in Nat
           /\ Cardinality(S) \in Nat
           /\ Cardinality(S \cup {x}) <= Cardinality(S) + 1
<1>1. IsFiniteSet(S \cup {x})
    BY FS_AddElement
<1>2. Cardinality(S) \in Nat /\ Cardinality(S \cup {x}) \in Nat
    BY <1>1, FS_CardinalityType
<1>3. \/ Cardinality(S \cup {x}) = Cardinality(S)
      \/ Cardinality(S \cup {x}) = Cardinality(S) + 1
    BY FS_AddElement
<1>4. QED BY <1>1, <1>2, <1>3

-----------------------------------------------------------------------------
(* There is always a call in progress, the host at least.                  *)
LEMMA TopFacts ==
    ASSUME QuickTypeOK
    PROVE  /\ activations \in Seq(Activation) /\ activations # <<>>
           /\ Len(activations) \in 1 .. Len(activations)
           /\ Len(activations) \in Nat /\ Len(activations) >= 1
           /\ \A i \in 1 .. Len(activations) : activations[i] \in Activation
           /\ Innermost \in Activation /\ BoxesOf(Innermost) \subseteq Box
           /\ Innermost.args \subseteq Box /\ ArgumentBoxes(Innermost) \subseteq BoxesOf(Innermost)
           /\ Innermost.locals \subseteq BoxesOf(Innermost)
<1>1. activations \in Seq(Activation) /\ Len(activations) \in 1 .. MaxNesting
          /\ MaxNesting \in Nat
    BY BoundsAssumption DEF QuickTypeOK
<1>2. activations # <<>> /\ Len(activations) \in 1 .. Len(activations)
          /\ Len(activations) \in Nat /\ Len(activations) >= 1
    BY <1>1
<1>3. \A i \in 1 .. Len(activations) : activations[i] \in Activation
    BY <1>1
<1>4. Innermost \in Activation
    BY <1>2, <1>3 DEF Innermost
<1>5. /\ BoxesOf(Innermost) \subseteq Box /\ Innermost.args \subseteq Box
      /\ ArgumentBoxes(Innermost) \subseteq BoxesOf(Innermost)
      /\ Innermost.locals \subseteq BoxesOf(Innermost)
    BY <1>4 DEF Activation, BoxesOf, ArgumentBoxes
<1>6. QED BY <1>1, <1>2, <1>3, <1>4, <1>5

(* The first state: the host calls, and there is no box.                   *)
LEMMA QuickStarts == QuickInit => QuickInv
<1> SUFFICES ASSUME QuickInit PROVE QuickInv
    OBVIOUS
<1>1. activations = <<Host>> /\ Host \in Activation
    BY DEF QuickInit, Activation, Host
<1>2. /\ activations \in Seq(Activation) /\ Len(activations) = 1
      /\ BoxesOf(activations[1]) = {} /\ ArgumentBoxes(activations[1]) = {}
    BY <1>1 DEF BoxesOf, ArgumentBoxes, Host
<1>3. QuickTypeOK
    <2>1. misused \in BOOLEAN
        BY DEF QuickInit
    <2>2. QED BY <1>2, <2>1, BoundsAssumption DEF QuickInit, QuickTypeOK
<1>4. BoxInv
    BY <1>2 DEF QuickInit, BoxInv
<1>5. \A o \in Object : Boxes(o) = {} /\ keptBoxes \cap Boxes(o) = {} /\ script[o] = 0
          /\ refs[o] = 0
    BY NoObjectAssumption DEF QuickInit, Boxes
<1>6. CountInv
    BY <1>5, FS_EmptySet DEF CountInv
<1>7. QED BY <1>3, <1>4, <1>6 DEF QuickInv, CountedInv

-----------------------------------------------------------------------------
(* A box is allocated and used by the innermost call.                      *)
LEMMA LocalAdded ==
    ASSUME QuickTypeOK, BoxInv, NEW h \in Box, NEW o \in Object, h \notin Live,
           box' = [box EXCEPT ![h] = o], AddLocal(h), UNCHANGED <<protectedBoxes, keptBoxes>>
    PROVE  BoxInv' /\ activations' \in Seq(Activation) /\ Len(activations') = Len(activations)
<1>1. PICK n : n = Len(activations)
    OBVIOUS
<1>2. /\ activations \in Seq(Activation) /\ activations # <<>> /\ n \in 1 .. n
          /\ activations[n] \in Activation
    BY <1>1, TopFacts
<1>3. PICK L : L = activations[n].locals \cup {h}
    OBVIOUS
<1>4. L \in SUBSET Box
    BY <1>2, <1>3 DEF Activation
<1>5. activations' = [activations EXCEPT ![n] = [activations[n] EXCEPT !.locals = L]]
    BY <1>1, <1>3 DEF AddLocal
<1>6. /\ activations' \in Seq(Activation) /\ Len(activations') = n
      /\ \A i \in 1 .. n : ArgumentBoxes(activations'[i]) = ArgumentBoxes(activations[i])
      /\ \A i \in 1 .. n : i # n => activations'[i] = activations[i]
      /\ activations'[n].locals = L
    <2> DEFINE t == [activations EXCEPT ![Len(activations)]
                   = [activations[Len(activations)] EXCEPT !.locals = L]]
    <2>1. /\ t \in Seq(Activation) /\ Len(t) = Len(activations)
          /\ \A i \in 1 .. Len(activations) : ArgumentBoxes(t[i]) = ArgumentBoxes(activations[i])
          /\ \A i \in 1 .. Len(activations) : i # Len(activations) => t[i] = activations[i]
          /\ t[Len(activations)].locals = L
        BY <1>2, <1>4, ActivationFacts
    <2>2. activations' = t
        BY <1>1, <1>5
    <2>3. QED BY <1>1, <2>1, <2>2
<1>7. BoxesOf(activations'[n]) = BoxesOf(activations[n]) \cup {h}
    BY <1>2, <1>3, <1>6 DEF BoxesOf
<1>8. \A i \in 1 .. n : i # n => BoxesOf(activations'[i]) = BoxesOf(activations[i])
    BY <1>6
<1>9. Live' = Live \cup {h}
    BY NoObjectAssumption DEF Live, QuickTypeOK
<1>10. \A i \in 1 .. n : /\ BoxesOf(activations[i]) \subseteq Live
                         /\ h \notin BoxesOf(activations[i])
                         /\ ArgumentBoxes(activations[i]) \cap activations[i].locals = {}
    BY <1>1 DEF BoxInv
<1>11. \A i \in 1 .. n : BoxesOf(activations'[i]) \subseteq Live'
           /\ ArgumentBoxes(activations'[i]) \cap activations'[i].locals = {}
    <2>1. ASSUME NEW i \in 1 .. n PROVE BoxesOf(activations'[i]) \subseteq Live'
        BY <1>7, <1>8, <1>9, <1>10
    <2>2. \A i \in 1 .. n : h \notin ArgumentBoxes(activations[i])
        BY <1>10 DEF BoxesOf
    <2>3. ArgumentBoxes(activations'[n]) \cap activations'[n].locals = {}
        BY <1>2, <1>3, <1>6, <1>10, <2>2
    <2>4. ASSUME NEW i \in 1 .. n, i # n
          PROVE  ArgumentBoxes(activations'[i]) \cap activations'[i].locals = {}
        BY <1>6, <1>10, <2>4
    <2>5. QED BY <2>1, <2>3, <2>4
<1>12. \A i, j \in 1 .. n : i # j => BoxesOf(activations'[i]) \cap BoxesOf(activations'[j]) = {}
    <2>1. \A i, j \in 1 .. n : i # j
              => BoxesOf(activations[i]) \cap BoxesOf(activations[j]) = {}
        BY <1>1 DEF BoxInv
    <2>2. QED BY <1>7, <1>8, <1>10, <2>1
<1>13. BoxInv'
    BY <1>1, <1>6, <1>9, <1>11, <1>12 DEF BoxInv
<1>14. QED BY <1>1, <1>6, <1>13

(* One object has one box more, which nobody keeps yet.                    *)
LEMMA BoxFilled ==
    ASSUME QuickTypeOK, BoxInv, CountInv, NEW h \in Box, NEW o \in Object, h \notin Live,
           box' = [box EXCEPT ![h] = o], keptBoxes' = keptBoxes, NEW p \in Object
    PROVE  /\ IsFiniteSet(Boxes(p)) /\ IsFiniteSet(Boxes(p)')
           /\ Cardinality(Boxes(p)) \in Nat /\ Cardinality(Boxes(p)') \in Nat
           /\ keptBoxes' \cap Boxes(p)' = keptBoxes \cap Boxes(p)
           /\ Cardinality(keptBoxes \cap Boxes(p)) \in Nat
           /\ IF p = o THEN Cardinality(Boxes(p)') <= Cardinality(Boxes(p)) + 1
                       ELSE Boxes(p)' = Boxes(p)
<1>1. IsFiniteSet(Boxes(p)) /\ h \notin keptBoxes
    BY DEF CountInv, BoxInv
<1>2. box[h] = NoObject /\ box \in [Box -> Object \cup {NoObject}]
    BY DEF Live, QuickTypeOK
<1>3. Boxes(p)' = IF p = o THEN Boxes(p) \cup {h} ELSE Boxes(p)
    BY <1>2, NoObjectAssumption DEF Boxes
<1>4. keptBoxes' \cap Boxes(p)' = keptBoxes \cap Boxes(p)
    BY <1>1, <1>3
<1>5. Cardinality(keptBoxes \cap Boxes(p)) \in Nat
    BY <1>1, Fewer
<1>6. QED BY <1>1, <1>3, <1>4, <1>5, OneMoreElement, FS_CardinalityType

(* The box gets a reference of its own: a new object's first one, or one   *)
(* more.                                                                   *)
LEMMA CountFilled ==
    ASSUME QuickTypeOK, BoxInv, CountInv, NEW h \in Box, NEW o \in Object, h \notin Live,
           box' = [box EXCEPT ![h] = o], UNCHANGED <<script, keptBoxes, handedOut>>,
           \/ o \notin born /\ refs' = [refs EXCEPT ![o] = 1] /\ born' = born \cup {o}
           \/ script[o] > 0 /\ refs' = [refs EXCEPT ![o] = @ + 1] /\ born' = born
    PROVE  CountInv'
<1>1. SUFFICES ASSUME NEW p \in Object
               PROVE  /\ IsFiniteSet(Boxes(p)')
                      /\ p \notin handedOut => script[p] + Cardinality(Boxes(p)')
                                                + Cardinality(keptBoxes' \cap Boxes(p)')
                                                    <= refs'[p]
                      /\ p \notin born' => script[p] = 0 /\ Boxes(p)' = {}
    BY DEF CountInv
<1>2. /\ IsFiniteSet(Boxes(p)) /\ IsFiniteSet(Boxes(p)')
      /\ Cardinality(Boxes(p)) \in Nat /\ Cardinality(Boxes(p)') \in Nat
      /\ keptBoxes' \cap Boxes(p)' = keptBoxes \cap Boxes(p)
      /\ Cardinality(keptBoxes \cap Boxes(p)) \in Nat
      /\ IF p = o THEN Cardinality(Boxes(p)') <= Cardinality(Boxes(p)) + 1
                  ELSE Boxes(p)' = Boxes(p)
    BY BoxFilled
<1>3. script[p] \in Nat /\ refs[p] \in Nat
    BY BoundsAssumption DEF QuickTypeOK
<1>4. /\ p \notin handedOut =>
            script[p] + Cardinality(Boxes(p)) + Cardinality(keptBoxes \cap Boxes(p)) <= refs[p]
      /\ p \notin born => script[p] = 0 /\ Boxes(p) = {}
    BY DEF CountInv
<1>5. Cardinality(keptBoxes' \cap Boxes(p)') = Cardinality(keptBoxes \cap Boxes(p))
    BY <1>2
<1>6. CASE p # o
    <2>1. refs'[p] = refs[p] /\ (p \notin born' => p \notin born)
        BY <1>6 DEF QuickTypeOK
    <2>2. QED BY <1>2, <1>4, <1>6, <2>1
<1>7. CASE p = o /\ p \notin born
    <2>1. script[p] = 0 /\ Cardinality(Boxes(p)) = 0 /\ Cardinality(keptBoxes \cap Boxes(p)) = 0
        BY <1>4, <1>7, FS_EmptySet
    <2>2. refs'[p] = 1 /\ p \in born'
        BY <1>7, <2>1 DEF QuickTypeOK
    <2>3. Cardinality(Boxes(p)') <= 1
        BY <1>2, <1>7, <2>1
    <2>4. QED BY <1>2, <1>5, <1>7, <2>1, <2>2, <2>3
<1>8. CASE p = o /\ p \in born
    <2>1. refs'[p] = refs[p] + 1 /\ p \in born'
        BY <1>8 DEF QuickTypeOK
    <2>2. Cardinality(Boxes(p)') <= Cardinality(Boxes(p)) + 1
        BY <1>2, <1>8
    <2>3. QED BY <1>2, <1>3, <1>4, <1>5, <1>8, <2>1, <2>2
<1>9. QED BY <1>6, <1>7, <1>8

(* An object is made, or got from another: its box is the call's.          *)
LEMMA NewObjectStep ==
    ASSUME CountedInv, NEW h \in Box, NEW o \in Object, NewObject(h, o) \/ GetValue(h, o)
    PROVE  CountedInv'
<1>1. /\ QuickTypeOK /\ BoxInv /\ CountInv
    BY DEF CountedInv
<1>2. /\ h \notin Live /\ box' = [box EXCEPT ![h] = o] /\ AddLocal(h)
      /\ UNCHANGED <<script, protectedBoxes, keptBoxes, handedOut, misused>>
    BY DEF NewObject, GetValue
<1>3. \/ o \notin born /\ refs' = [refs EXCEPT ![o] = 1] /\ born' = born \cup {o}
      \/ /\ script[o] > 0 /\ refs' = [refs EXCEPT ![o] = @ + 1] /\ born' = born
         /\ refs[o] \in 1 .. MaxRefs - 1
    BY DEF NewObject, GetValue, Dup
<1>4. BoxInv' /\ activations' \in Seq(Activation) /\ Len(activations') = Len(activations)
    BY <1>1, <1>2, LocalAdded
<1>5. CountInv'
    BY <1>1, <1>2, <1>3, CountFilled
<1>6. refs' \in [Object -> 0 .. MaxRefs] /\ born' \subseteq Object
    BY <1>1, <1>3, BoundsAssumption DEF QuickTypeOK
<1>7. QuickTypeOK'
    BY <1>1, <1>2, <1>4, <1>6 DEF QuickTypeOK
<1>8. QED BY <1>4, <1>5, <1>7 DEF CountedInv

(* The script calls a native function with a box as argument.              *)
LEMMA CallbackStep ==
    ASSUME CountedInv, NEW h \in Box, NEW o \in Object, NativeCallback(h, o)
    PROVE  CountedInv'
<1>1. /\ QuickTypeOK /\ BoxInv /\ CountInv
    BY DEF CountedInv
<1>2. /\ h \notin Live /\ box' = [box EXCEPT ![h] = o] /\ Len(activations) < MaxNesting
      /\ activations' = Append(activations, [args |-> {h}, disposed |-> {}, locals |-> {}])
      /\ UNCHANGED <<script, born, protectedBoxes, keptBoxes, handedOut, misused>>
      /\ script[o] > 0 /\ refs' = [refs EXCEPT ![o] = @ + 1] /\ refs[o] \in 1 .. MaxRefs - 1
    BY DEF NativeCallback, Dup
<1>3. PICK n : n = Len(activations)
    OBVIOUS
<1>4. PICK c : c = [args |-> {h}, disposed |-> {}, locals |-> {}]
    OBVIOUS
<1>5. c \in Activation /\ BoxesOf(c) = {h} /\ c.locals = {}
    BY <1>4 DEF Activation, BoxesOf, ArgumentBoxes
<1>6. activations \in Seq(Activation) /\ n \in Nat /\ n >= 1
    BY <1>1, <1>3, TopFacts
<1>7. /\ activations' \in Seq(Activation) /\ Len(activations') = n + 1
      /\ \A i \in 1 .. n : activations'[i] = activations[i]
      /\ activations'[n + 1] = c
    BY <1>2, <1>3, <1>4, <1>5, <1>6, AppendFacts
<1>8. Live' = Live \cup {h}
    BY <1>1, <1>2, NoObjectAssumption DEF Live, QuickTypeOK
<1>9. \A i \in 1 .. n + 1 : i \in 1 .. n \/ i = n + 1
    BY <1>6
<1>10. \A i \in 1 .. n : /\ BoxesOf(activations[i]) \subseteq Live
                         /\ h \notin BoxesOf(activations[i])
                         /\ ArgumentBoxes(activations[i]) \cap activations[i].locals = {}
    BY <1>1, <1>2, <1>3 DEF BoxInv
<1>11. \A i \in 1 .. n + 1 : BoxesOf(activations'[i]) \subseteq Live'
           /\ ArgumentBoxes(activations'[i]) \cap activations'[i].locals = {}
    BY <1>5, <1>7, <1>8, <1>9, <1>10
<1>12. \A i, j \in 1 .. n + 1 : i # j
           => BoxesOf(activations'[i]) \cap BoxesOf(activations'[j]) = {}
    <2>1. \A i, j \in 1 .. n : i # j
              => BoxesOf(activations[i]) \cap BoxesOf(activations[j]) = {}
        BY <1>1, <1>3 DEF BoxInv
    <2>2. \A i \in 1 .. n : BoxesOf(activations'[i]) = BoxesOf(activations[i])
        BY <1>7
    <2>3. BoxesOf(activations'[n + 1]) = {h}
        BY <1>5, <1>7
    <2>4. TAKE i, j \in 1 .. n + 1
    <2>5. HAVE i # j
    <2>6. CASE i \in 1 .. n /\ j \in 1 .. n
        BY <2>1, <2>2, <2>5, <2>6
    <2>7. CASE i = n + 1 /\ j \in 1 .. n
        BY <1>10, <2>2, <2>3, <2>7
    <2>8. CASE i \in 1 .. n /\ j = n + 1
        BY <1>10, <2>2, <2>3, <2>8
    <2>9. QED BY <1>9, <2>5, <2>6, <2>7, <2>8
<1>13. BoxInv'
    BY <1>1, <1>2, <1>7, <1>8, <1>11, <1>12 DEF BoxInv
<1>14. CountInv'
    BY <1>1, <1>2, CountFilled
<1>15. Len(activations') \in 1 .. MaxNesting /\ refs' \in [Object -> 0 .. MaxRefs]
    BY <1>1, <1>2, <1>3, <1>6, <1>7, BoundsAssumption DEF QuickTypeOK
<1>16. QuickTypeOK'
    BY <1>1, <1>2, <1>7, <1>15 DEF QuickTypeOK
<1>17. QED BY <1>13, <1>14, <1>16 DEF CountedInv

-----------------------------------------------------------------------------
(* What one object's references are, and what a step must show of them.    *)
LEMMA CountFacts ==
    ASSUME QuickTypeOK, CountInv, NEW p \in Object
    PROVE  /\ IsFiniteSet(Boxes(p)) /\ Cardinality(Boxes(p)) \in Nat
           /\ IsFiniteSet(keptBoxes \cap Boxes(p))
           /\ Cardinality(keptBoxes \cap Boxes(p)) \in Nat
           /\ script[p] \in Nat /\ refs[p] \in Nat
           /\ refs[p] <= MaxRefs /\ script[p] <= MaxRefs /\ MaxRefs \in Nat
           /\ p \notin handedOut =>
                 script[p] + Cardinality(Boxes(p)) + Cardinality(keptBoxes \cap Boxes(p))
                     <= refs[p]
           /\ p \notin born => script[p] = 0 /\ Boxes(p) = {}
<1>1. IsFiniteSet(Boxes(p))
    BY DEF CountInv
<1>2. refs[p] \in 0 .. MaxRefs /\ script[p] \in 0 .. MaxRefs /\ MaxRefs \in Nat
    BY BoundsAssumption DEF QuickTypeOK
<1>3. QED BY <1>1, <1>2, Fewer DEF CountInv

(* The boxes of p after a step that changes none.                          *)
LEMMA SameBoxes == ASSUME box' = box, NEW p PROVE Boxes(p)' = Boxes(p)
BY DEF Boxes

(* The script gets a reference of its own; the box keeps its.              *)
LEMMA GiveStep ==
    ASSUME CountedInv, NEW h \in Box, GiveToScript(h)
    PROVE  CountedInv'
<1>1. /\ QuickTypeOK /\ BoxInv /\ CountInv
    BY DEF CountedInv
<1>2. PICK o : o = box[h]
    OBVIOUS
<1>3. h \in Live
    BY <1>1, TopFacts DEF GiveToScript, BoxInv, Innermost
<1>4. o \in Object /\ h \in Boxes(o)
    BY <1>1, <1>2, <1>3 DEF Live, QuickTypeOK, Boxes
<1>5. /\ refs[o] \in 1 .. MaxRefs - 1 /\ refs' = [refs EXCEPT ![o] = @ + 1]
      /\ script[o] < MaxRefs /\ script' = [script EXCEPT ![o] = @ + 1]
      /\ UNCHANGED <<box, born, protectedBoxes, keptBoxes, activations, handedOut, misused>>
    BY <1>2 DEF GiveToScript, Dup
<1>6. BoxInv'
    BY <1>1, <1>5 DEF BoxInv, Live
<1>7. QuickTypeOK'
    BY <1>1, <1>4, <1>5, BoundsAssumption DEF QuickTypeOK
<1>8. ASSUME NEW p \in Object
      PROVE  /\ IsFiniteSet(Boxes(p)')
             /\ p \notin handedOut' => script'[p] + Cardinality(Boxes(p)')
                                        + Cardinality(keptBoxes' \cap Boxes(p)') <= refs'[p]
             /\ p \notin born' => script'[p] = 0 /\ Boxes(p)' = {}
    <2>1. Boxes(p)' = Boxes(p) /\ keptBoxes' \cap Boxes(p)' = keptBoxes \cap Boxes(p)
        BY <1>5, SameBoxes
    <2>2. CASE p = o
        <3>1. refs'[p] = refs[p] + 1 /\ script'[p] = script[p] + 1
            BY <1>1, <1>4, <1>5, <2>2 DEF QuickTypeOK
        <3>2. p \in born
            BY <1>1, <1>4, <2>2 DEF CountInv
        <3>3. /\ IsFiniteSet(Boxes(p)) /\ Cardinality(Boxes(p)) \in Nat
              /\ Cardinality(keptBoxes \cap Boxes(p)) \in Nat /\ script[p] \in Nat
              /\ refs[p] \in Nat
              /\ p \notin handedOut =>
                    script[p] + Cardinality(Boxes(p)) + Cardinality(keptBoxes \cap Boxes(p))
                        <= refs[p]
            BY <1>1, CountFacts
        <3>4. /\ Cardinality(Boxes(p)') = Cardinality(Boxes(p))
              /\ Cardinality(keptBoxes' \cap Boxes(p)') = Cardinality(keptBoxes \cap Boxes(p))
              /\ p \in born' /\ handedOut' = handedOut
            BY <1>5, <2>1, <3>2
        <3>5. IsFiniteSet(Boxes(p)')
            BY <2>1, <3>3
        <3>6. QED BY <3>1, <3>3, <3>4, <3>5
    <2>3. CASE p # o
        <3>1. refs'[p] = refs[p] /\ script'[p] = script[p]
            BY <1>1, <1>5, <2>3 DEF QuickTypeOK
        <3>2. QED BY <1>1, <1>5, <2>1, <3>1, CountFacts
    <2>4. QED BY <2>2, <2>3
<1>9. QED BY <1>6, <1>7, <1>8 DEF CountedInv, CountInv

(* The script gives up one of its references.                              *)
LEMMA DropStep ==
    ASSUME CountedInv, NEW o \in Object, ScriptDrops(o)
    PROVE  CountedInv'
<1>1. /\ QuickTypeOK /\ BoxInv /\ CountInv
    BY DEF CountedInv
<1>2. /\ script[o] > 0 /\ script' = [script EXCEPT ![o] = @ - 1]
      /\ refs' = [refs EXCEPT ![o] = IF @ < 1 THEN 0 ELSE @ - 1]
      /\ UNCHANGED <<box, born, protectedBoxes, keptBoxes, activations, handedOut, misused>>
    BY DEF ScriptDrops, Freed
<1>3. BoxInv'
    BY <1>1, <1>2 DEF BoxInv, Live
<1>4. QuickTypeOK'
    BY <1>1, <1>2, BoundsAssumption DEF QuickTypeOK
<1>5. ASSUME NEW p \in Object
      PROVE  /\ IsFiniteSet(Boxes(p)')
             /\ p \notin handedOut' => script'[p] + Cardinality(Boxes(p)')
                                        + Cardinality(keptBoxes' \cap Boxes(p)') <= refs'[p]
             /\ p \notin born' => script'[p] = 0 /\ Boxes(p)' = {}
    <2>1. Boxes(p)' = Boxes(p) /\ keptBoxes' \cap Boxes(p)' = keptBoxes \cap Boxes(p)
        BY <1>2, SameBoxes
    <2>2. CASE p = o
        <3>1. refs'[p] = (IF refs[p] < 1 THEN 0 ELSE refs[p] - 1) /\ script'[p] = script[p] - 1
            BY <1>1, <1>2, <2>2 DEF QuickTypeOK
        <3>2. QED BY <1>1, <1>2, <2>1, <2>2, <3>1, CountFacts
    <2>3. CASE p # o
        <3>1. refs'[p] = refs[p] /\ script'[p] = script[p]
            BY <1>1, <1>2, <2>3 DEF QuickTypeOK
        <3>2. QED BY <1>1, <1>2, <2>1, <3>1, CountFacts
    <2>4. QED BY <2>2, <2>3
<1>6. QED BY <1>3, <1>4, <1>5 DEF CountedInv, CountInv

(* A box that is kept has a second reference.                              *)
LEMMA BoxProtectStep ==
    ASSUME CountedInv, NEW h \in Box, ProtectBox(h)
    PROVE  CountedInv'
<1>1. /\ QuickTypeOK /\ BoxInv /\ CountInv
    BY DEF CountedInv
<1>2. PICK o : o = box[h]
    OBVIOUS
<1>3. h \in Live /\ h \notin keptBoxes
    BY <1>1, TopFacts DEF ProtectBox, BoxInv, Innermost
<1>4. o \in Object /\ h \in Boxes(o)
    BY <1>1, <1>2, <1>3 DEF Live, QuickTypeOK, Boxes
<1>5. /\ refs[o] \in 1 .. MaxRefs - 1 /\ refs' = [refs EXCEPT ![o] = @ + 1]
      /\ keptBoxes' = keptBoxes \cup {h} /\ protectedBoxes' = protectedBoxes \cup {h}
      /\ UNCHANGED <<box, script, born, activations, handedOut, misused>>
    BY <1>2 DEF ProtectBox, Dup
<1>6. BoxInv'
    BY <1>1, <1>3, <1>5 DEF BoxInv, Live
<1>7. QuickTypeOK'
    BY <1>1, <1>4, <1>5, BoundsAssumption DEF QuickTypeOK
<1>8. ASSUME NEW p \in Object
      PROVE  /\ IsFiniteSet(Boxes(p)')
             /\ p \notin handedOut' => script'[p] + Cardinality(Boxes(p)')
                                        + Cardinality(keptBoxes' \cap Boxes(p)') <= refs'[p]
             /\ p \notin born' => script'[p] = 0 /\ Boxes(p)' = {}
    <2>1. Boxes(p)' = Boxes(p)
        BY <1>5, SameBoxes
    <2>2. CASE p = o
        <3>1. refs'[p] = refs[p] + 1
            BY <1>1, <1>4, <1>5, <2>2 DEF QuickTypeOK
        <3>2. keptBoxes' \cap Boxes(p)' = (keptBoxes \cap Boxes(p)) \cup {h}
            BY <1>4, <1>5, <2>1, <2>2
        <3>3. /\ Cardinality((keptBoxes \cap Boxes(p)) \cup {h})
                  <= Cardinality(keptBoxes \cap Boxes(p)) + 1
              /\ Cardinality((keptBoxes \cap Boxes(p)) \cup {h}) \in Nat
            BY <1>1, CountFacts, OneMoreElement
        <3>4. Cardinality(keptBoxes' \cap Boxes(p)')
                  = Cardinality((keptBoxes \cap Boxes(p)) \cup {h})
            BY <3>2
        <3>5. QED BY <1>1, <1>5, <2>1, <3>1, <3>3, <3>4, CountFacts
    <2>3. CASE p # o
        <3>1. refs'[p] = refs[p]
            BY <1>1, <1>5, <2>3 DEF QuickTypeOK
        <3>2. h \notin Boxes(p)
            BY <1>2, <2>3 DEF Boxes
        <3>3. keptBoxes' \cap Boxes(p)' = keptBoxes \cap Boxes(p)
            BY <1>5, <2>1, <3>2
        <3>4. QED BY <1>1, <1>5, <2>1, <3>1, <3>3, CountFacts
    <2>4. QED BY <2>2, <2>3
<1>9. QED BY <1>6, <1>7, <1>8 DEF CountedInv, CountInv

(* A box that is no longer kept is deleted: one reference is released, the *)
(* other is lost.                                                          *)
LEMMA BoxDeleted ==
    ASSUME QuickTypeOK, BoxInv, CountInv, NEW h \in Box, h \in keptBoxes, Deleted(h)
    PROVE  /\ CountInv' /\ Live' = Live \ {h} /\ h \in Live
           /\ refs' \in [Object -> 0 .. MaxRefs] /\ box' \in [Box -> Object \cup {NoObject}]
           /\ keptBoxes' = keptBoxes \ {h} /\ protectedBoxes' = protectedBoxes \ {h}
           /\ UNCHANGED <<script, born, handedOut, misused>>
<1>1. QuickTypeOK /\ CountInv
    OBVIOUS
<1>2. PICK o : o = box[h]
    OBVIOUS
<1>3. h \in keptBoxes /\ h \in Live
    BY DEF BoxInv
<1>4. o \in Object /\ h \in Boxes(o)
    BY <1>2, <1>3 DEF Live, QuickTypeOK, Boxes
<1>5. /\ refs' = [refs EXCEPT ![o] = IF @ < 1 THEN 0 ELSE @ - 1]
      /\ box' = [box EXCEPT ![h] = NoObject]
      /\ keptBoxes' = keptBoxes \ {h} /\ protectedBoxes' = protectedBoxes \ {h}
      /\ UNCHANGED <<script, born, handedOut, misused>>
    BY <1>2 DEF Deleted, Freed
<1>6. ASSUME NEW p \in Object
      PROVE  /\ IsFiniteSet(Boxes(p)')
             /\ p \notin handedOut' => script'[p] + Cardinality(Boxes(p)')
                                        + Cardinality(keptBoxes' \cap Boxes(p)') <= refs'[p]
             /\ p \notin born' => script'[p] = 0 /\ Boxes(p)' = {}
    <2>1. Boxes(p)' = Boxes(p) \ {h}
        BY <1>1, <1>5, NoObjectAssumption DEF Boxes, QuickTypeOK
    <2>2. keptBoxes' \cap Boxes(p)' = (keptBoxes \cap Boxes(p)) \ {h}
        BY <1>5, <2>1
    <2>3. CASE p = o
        <3>1. refs'[p] = IF refs[p] < 1 THEN 0 ELSE refs[p] - 1
            BY <1>1, <1>4, <1>5, <2>3 DEF QuickTypeOK
        <3>2. h \in Boxes(p) /\ h \in keptBoxes \cap Boxes(p)
            BY <1>3, <1>4, <2>3
        <3>3. /\ IsFiniteSet(Boxes(p) \ {h}) /\ Cardinality(Boxes(p) \ {h}) \in Nat
              /\ Cardinality(Boxes(p) \ {h}) + 1 <= Cardinality(Boxes(p))
            BY <1>1, <3>2, CountFacts, Fewer
        <3>4. /\ Cardinality((keptBoxes \cap Boxes(p)) \ {h}) \in Nat
              /\ Cardinality((keptBoxes \cap Boxes(p)) \ {h}) + 1
                    <= Cardinality(keptBoxes \cap Boxes(p))
            BY <1>1, <3>2, CountFacts, Fewer
        <3>5. /\ Cardinality(Boxes(p)') = Cardinality(Boxes(p) \ {h})
              /\ Cardinality(keptBoxes' \cap Boxes(p)')
                    = Cardinality((keptBoxes \cap Boxes(p)) \ {h})
            BY <2>1, <2>2
        <3>6. p \in born
            BY <1>1, <3>2, CountFacts
        <3>7. QED BY <1>1, <1>5, <2>1, <3>1, <3>3, <3>4, <3>5, <3>6, CountFacts
    <2>4. CASE p # o
        <3>1. refs'[p] = refs[p]
            BY <1>1, <1>5, <2>4 DEF QuickTypeOK
        <3>2. h \notin Boxes(p)
            BY <1>2, <2>4 DEF Boxes
        <3>3. Boxes(p)' = Boxes(p) /\ keptBoxes' \cap Boxes(p)' = keptBoxes \cap Boxes(p)
            BY <2>1, <2>2, <3>2
        <3>4. QED BY <1>1, <1>5, <3>1, <3>3, CountFacts
    <2>5. QED BY <2>3, <2>4
<1>7. Live' = Live \ {h}
    BY <1>5 DEF Live, QuickTypeOK
<1>8. refs' \in [Object -> 0 .. MaxRefs]
    BY <1>4, <1>5, BoundsAssumption DEF QuickTypeOK
<1>9. box' \in [Box -> Object \cup {NoObject}]
    BY <1>5 DEF QuickTypeOK
<1>10. QED BY <1>3, <1>5, <1>6, <1>7, <1>8, <1>9 DEF CountInv

(* The calls lose no box but the one that is deleted.                      *)
LEMMA CallsWithout ==
    ASSUME BoxInv, NEW h, Live' = Live \ {h},
           keptBoxes' = keptBoxes \ {h}, protectedBoxes' = protectedBoxes \ {h},
           Len(activations') = Len(activations),
           \A i \in 1 .. Len(activations) :
              /\ BoxesOf(activations'[i]) = BoxesOf(activations[i]) \ {h}
              /\ ArgumentBoxes(activations'[i]) \subseteq ArgumentBoxes(activations[i])
              /\ activations'[i].locals \subseteq activations[i].locals
    PROVE  BoxInv'
<1>1. PICK n : n = Len(activations) /\ n = Len(activations')
    OBVIOUS
<1>2. /\ \A i \in 1 .. n : /\ BoxesOf(activations[i]) \subseteq Live
                          /\ ArgumentBoxes(activations[i]) \cap activations[i].locals = {}
      /\ \A i, j \in 1 .. n : i # j
            => BoxesOf(activations[i]) \cap BoxesOf(activations[j]) = {}
    BY <1>1 DEF BoxInv
<1>3. /\ \A i \in 1 .. n : /\ BoxesOf(activations'[i]) \subseteq Live'
                          /\ ArgumentBoxes(activations'[i]) \cap activations'[i].locals = {}
      /\ \A i, j \in 1 .. n : i # j
            => BoxesOf(activations'[i]) \cap BoxesOf(activations'[j]) = {}
    BY <1>1, <1>2
<1>4. QED BY <1>1, <1>3 DEF BoxInv

(* Native code unprotects what it keeps.                                   *)
LEMMA BoxUnprotectStep ==
    ASSUME CountedInv, NEW h \in Box, UnprotectBox(h)
    PROVE  CountedInv'
<1>1. /\ QuickTypeOK /\ BoxInv /\ CountInv
    BY DEF CountedInv
<1>2. /\ h \in keptBoxes /\ Deleted(h)
      /\ \A i \in 1 .. Len(activations) :
            /\ h \notin ArgumentBoxes(activations[i])
            /\ i < Len(activations) => h \notin activations[i].locals
    BY DEF UnprotectBox, DisposableBox
<1>3. /\ CountInv' /\ Live' = Live \ {h} /\ h \in Live
      /\ refs' \in [Object -> 0 .. MaxRefs] /\ box' \in [Box -> Object \cup {NoObject}]
      /\ keptBoxes' = keptBoxes \ {h} /\ protectedBoxes' = protectedBoxes \ {h}
      /\ UNCHANGED <<script, born, handedOut, misused>>
    BY <1>1, <1>2, BoxDeleted
<1>4. PICK n : n = Len(activations)
    OBVIOUS
<1>5. /\ activations \in Seq(Activation) /\ activations # <<>> /\ n \in 1 .. n /\ n \in Nat
      /\ \A i \in 1 .. n : activations[i] \in Activation
    BY <1>1, <1>4, TopFacts
<1>6. PICK L : L = activations[n].locals \ {h}
    OBVIOUS
<1>7. L \in SUBSET Box
    BY <1>5, <1>6 DEF Activation
<1>8. /\ activations' \in Seq(Activation) /\ Len(activations') = n
      /\ \A i \in 1 .. n : ArgumentBoxes(activations'[i]) = ArgumentBoxes(activations[i])
      /\ \A i \in 1 .. n : i # n => activations'[i] = activations[i]
      /\ activations'[n].locals = L
    <2> DEFINE t == [activations EXCEPT ![Len(activations)]
                   = [activations[Len(activations)] EXCEPT !.locals = L]]
    <2>1. /\ t \in Seq(Activation) /\ Len(t) = Len(activations)
          /\ \A i \in 1 .. Len(activations) : ArgumentBoxes(t[i]) = ArgumentBoxes(activations[i])
          /\ \A i \in 1 .. Len(activations) : i # Len(activations) => t[i] = activations[i]
          /\ t[Len(activations)].locals = L
        BY <1>5, <1>7, ActivationFacts
    <2>2. activations' = t
        BY <1>4, <1>6 DEF UnprotectBox
    <2>3. QED BY <1>4, <2>1, <2>2
<1>9. ASSUME NEW i \in 1 .. n
      PROVE  /\ BoxesOf(activations'[i]) = BoxesOf(activations[i]) \ {h}
             /\ activations'[i].locals \subseteq activations[i].locals
    <2>1. CASE i = n
        BY <1>2, <1>4, <1>5, <1>6, <1>8, <2>1 DEF BoxesOf
    <2>2. CASE i # n
        <3>1. i < n
            BY <1>5, <2>2
        <3>2. h \notin BoxesOf(activations[i])
            BY <1>2, <1>4, <3>1 DEF BoxesOf
        <3>3. QED BY <1>8, <2>2, <3>2
    <2>3. QED BY <2>1, <2>2
<1>10. BoxInv'
    BY <1>1, <1>3, <1>4, <1>8, <1>9, CallsWithout
<1>11. QuickTypeOK'
    BY <1>1, <1>3, <1>4, <1>8 DEF QuickTypeOK
<1>12. QED BY <1>3, <1>10, <1>11 DEF CountedInv

(* A call unprotects its argument, which is then no longer its own.        *)
LEMMA ArgumentUnprotectStep ==
    ASSUME CountedInv, NEW h \in Box, UnprotectArgumentBox(h)
    PROVE  CountedInv'
<1>1. /\ QuickTypeOK /\ BoxInv /\ CountInv
    BY DEF CountedInv
<1>2. h \in keptBoxes /\ h \in ArgumentBoxes(Innermost) /\ Deleted(h)
    BY DEF UnprotectArgumentBox
<1>3. /\ CountInv' /\ Live' = Live \ {h} /\ h \in Live
      /\ refs' \in [Object -> 0 .. MaxRefs] /\ box' \in [Box -> Object \cup {NoObject}]
      /\ keptBoxes' = keptBoxes \ {h} /\ protectedBoxes' = protectedBoxes \ {h}
      /\ UNCHANGED <<script, born, handedOut, misused>>
    BY <1>1, <1>2, BoxDeleted
<1>4. PICK n : n = Len(activations)
    OBVIOUS
<1>5. /\ activations \in Seq(Activation) /\ activations # <<>> /\ n \in 1 .. n /\ n \in Nat
      /\ \A i \in 1 .. n : activations[i] \in Activation
      /\ Innermost = activations[n]
    BY <1>1, <1>4, TopFacts DEF Innermost
<1>6. PICK D : D = activations[n].disposed \cup {h}
    OBVIOUS
<1>7. D \in SUBSET Box
    BY <1>5, <1>6 DEF Activation
<1>8. /\ activations' \in Seq(Activation) /\ Len(activations') = n
      /\ \A i \in 1 .. n : /\ activations'[i].locals = activations[i].locals
                          /\ activations'[i].args = activations[i].args
      /\ \A i \in 1 .. n : i # n => activations'[i] = activations[i]
      /\ activations'[n].disposed = D
    <2> DEFINE t == [activations EXCEPT ![Len(activations)]
                   = [activations[Len(activations)] EXCEPT !.disposed = D]]
    <2>1. /\ t \in Seq(Activation) /\ Len(t) = Len(activations)
          /\ \A i \in 1 .. Len(activations) : /\ t[i].locals = activations[i].locals
                                             /\ t[i].args = activations[i].args
          /\ \A i \in 1 .. Len(activations) : i # Len(activations) => t[i] = activations[i]
          /\ t[Len(activations)].disposed = D
        BY <1>5, <1>7, DisposedBoxFacts
    <2>2. activations' = t
        BY <1>4, <1>6 DEF UnprotectArgumentBox
    <2>3. QED BY <1>4, <2>1, <2>2
<1>9. ArgumentBoxes(activations'[n]) = ArgumentBoxes(activations[n]) \ {h}
    BY <1>5, <1>6, <1>8 DEF ArgumentBoxes
<1>10. /\ h \in BoxesOf(activations[n]) /\ h \notin activations[n].locals
       /\ \A i \in 1 .. n : i # n => h \notin BoxesOf(activations[i])
    <2>1. h \in BoxesOf(activations[n])
        BY <1>2, <1>5 DEF BoxesOf
    <2>2. h \notin activations[n].locals
        BY <1>1, <1>2, <1>4, <1>5 DEF BoxInv
    <2>3. \A i \in 1 .. n : i # n => h \notin BoxesOf(activations[i])
        BY <1>1, <1>4, <1>5, <2>1 DEF BoxInv
    <2>4. QED BY <2>1, <2>2, <2>3
<1>11. ASSUME NEW i \in 1 .. n
       PROVE  /\ BoxesOf(activations'[i]) = BoxesOf(activations[i]) \ {h}
              /\ ArgumentBoxes(activations'[i]) \subseteq ArgumentBoxes(activations[i])
              /\ activations'[i].locals \subseteq activations[i].locals
    <2>1. CASE i = n
        BY <1>8, <1>9, <1>10, <2>1 DEF BoxesOf
    <2>2. CASE i # n
        BY <1>8, <1>10, <2>2
    <2>3. QED BY <2>1, <2>2
<1>12. BoxInv'
    BY <1>1, <1>3, <1>4, <1>8, <1>11, CallsWithout
<1>13. QuickTypeOK'
    BY <1>1, <1>3, <1>4, <1>8 DEF QuickTypeOK
<1>14. QED BY <1>3, <1>12, <1>13 DEF CountedInv

-----------------------------------------------------------------------------
(* The boxes of the innermost call that nobody keeps are deleted.          *)
LEMMA BoxesForgotten ==
    ASSUME QuickTypeOK, BoxInv, keptBoxes' = keptBoxes,
           box' = [h \in Box |-> IF h \in Forgotten(Innermost) THEN NoObject ELSE box[h]]
    PROVE  /\ Live' = Live \ Forgotten(Innermost) /\ keptBoxes \subseteq Live'
           /\ Forgotten(Innermost) \subseteq BoxesOf(Innermost)
           /\ box' \in [Box -> Object \cup {NoObject}]
           /\ \A p \in Object : /\ Boxes(p)' = Boxes(p) \ Forgotten(Innermost)
                                /\ keptBoxes' \cap Boxes(p)' = keptBoxes \cap Boxes(p)
<1>1. Forgotten(Innermost) \subseteq BoxesOf(Innermost)
          /\ Forgotten(Innermost) \cap keptBoxes = {}
    BY DEF Forgotten, BoxInv
<1>2. Live' = Live \ Forgotten(Innermost)
    BY DEF Live
<1>3. keptBoxes \subseteq Live'
    BY <1>1, <1>2 DEF BoxInv
<1>4. box' \in [Box -> Object \cup {NoObject}]
    BY DEF QuickTypeOK
<1>5. ASSUME NEW p \in Object
      PROVE  /\ Boxes(p)' = Boxes(p) \ Forgotten(Innermost)
             /\ keptBoxes' \cap Boxes(p)' = keptBoxes \cap Boxes(p)
    <2>1. Boxes(p)' = Boxes(p) \ Forgotten(Innermost)
        BY NoObjectAssumption DEF Boxes
    <2>2. QED BY <1>1, <2>1
<1>6. QED BY <1>1, <1>2, <1>3, <1>4, <1>5

(* A native call returns: the other calls keep their boxes.                *)
LEMMA CallPopped ==
    ASSUME QuickTypeOK, BoxInv, PopCall
    PROVE  BoxInv' /\ activations' \in Seq(Activation) /\ Len(activations') \in 1 .. MaxNesting
<1>1. PICK n : n = Len(activations)
    OBVIOUS
<1>2. /\ n > 1 /\ activations' = SubSeq(activations, 1, n - 1)
          /\ UNCHANGED <<born, protectedBoxes, keptBoxes>>
      /\ box' = [h \in Box |-> IF h \in Forgotten(Innermost) THEN NoObject ELSE box[h]]
    BY <1>1 DEF PopCall
<1>3. /\ Live' = Live \ Forgotten(Innermost) /\ keptBoxes \subseteq Live'
      /\ Forgotten(Innermost) \subseteq BoxesOf(Innermost)
    BY <1>2, BoxesForgotten
<1>4. /\ activations \in Seq(Activation) /\ activations # <<>> /\ n \in 1 .. n
          /\ n \in 1 .. MaxNesting
      /\ MaxNesting \in Nat /\ n \in Nat
    BY <1>1, TopFacts, BoundsAssumption DEF QuickTypeOK
<1>5. /\ activations' \in Seq(Activation) /\ Len(activations') = n - 1
      /\ \A i \in 1 .. n - 1 : activations'[i] = activations[i]
    BY <1>1, <1>2, <1>4, PopFacts
<1>6. \A i \in 1 .. n - 1 : i \in 1 .. n /\ i # n
    BY <1>4
<1>7. /\ \A i \in 1 .. n : /\ BoxesOf(activations[i]) \subseteq Live
                          /\ ArgumentBoxes(activations[i]) \cap activations[i].locals = {}
      /\ \A i, j \in 1 .. n : i # j => BoxesOf(activations[i]) \cap BoxesOf(activations[j]) = {}
      /\ Innermost = activations[n]
    BY <1>1 DEF BoxInv, Innermost
<1>8. \A i \in 1 .. n - 1 : BoxesOf(activations[i]) \cap BoxesOf(Innermost) = {}
    BY <1>4, <1>6, <1>7
<1>9. \A i \in 1 .. n - 1 : BoxesOf(activations'[i]) = BoxesOf(activations[i])
    BY <1>5
<1>10. \A i \in 1 .. n - 1 : BoxesOf(activations'[i]) \subseteq Live'
           /\ ArgumentBoxes(activations'[i]) \cap activations'[i].locals = {}
    BY <1>3, <1>5, <1>6, <1>7, <1>8, <1>9
<1>11. \A i, j \in 1 .. n - 1 : i # j
           => BoxesOf(activations'[i]) \cap BoxesOf(activations'[j]) = {}
    BY <1>6, <1>7, <1>9
<1>12. BoxInv'
    BY <1>2, <1>3, <1>5, <1>10, <1>11 DEF BoxInv
<1>13. Len(activations') \in 1 .. MaxNesting
    BY <1>2, <1>4, <1>5
<1>14. QED BY <1>5, <1>12, <1>13

(* The arguments give their reference back; the box and its reference are  *)
(* counted no more.                                                        *)
LEMMA RefsSpent ==
    ASSUME QuickTypeOK, BoxInv, CountInv, PopCall, NEW p \in Object,
           refs' = [o \in Object |-> Freed(o, SpentRefs(o))[o]]
    PROVE  /\ refs'[p] \in 0 .. MaxRefs
           /\ refs'[p] = IF SpentRefs(p) = 0 THEN refs[p]
                         ELSE IF refs[p] < 1 THEN 0 ELSE refs[p] - 1
           /\ SpentRefs(p) # 0 /\ ~ReadsDeleted =>
                 \E h \in Boxes(p) : h \in Innermost.args /\ h \in Forgotten(Innermost)
<1>1. SpentRefs(p) \in {0, 1} /\ refs[p] \in 0 .. MaxRefs /\ MaxRefs \in Nat
    BY BoundsAssumption DEF SpentRefs, QuickTypeOK
<1>2. refs'[p] = IF refs[p] < SpentRefs(p) THEN 0 ELSE refs[p] - SpentRefs(p)
    <2>1. PICK k : k = SpentRefs(p)
        OBVIOUS
    <2>2. Freed(p, k)[p] = IF refs[p] < k THEN 0 ELSE refs[p] - k
        BY DEF Freed, QuickTypeOK
    <2>3. QED BY <2>1, <2>2
<1>3. ASSUME SpentRefs(p) # 0, ~ReadsDeleted
                 PROVE \E h \in Boxes(p) : h \in Innermost.args /\ h \in Forgotten(Innermost)
    <2>1. PICK h \in Innermost.args \ protectedBoxes : box[h] = p
        BY <1>3 DEF SpentRefs
    <2>2. h \in BoxesOf(Innermost) /\ h \in Box
        BY <1>3, <2>1, TopFacts DEF ReadsDeleted, ArgumentBoxes
    <2>3. QED BY <2>1, <2>2 DEF Boxes, Forgotten
<1>4. QED BY <1>1, <1>2, <1>3

(* A call ends without a result: each argument that nobody keeps is        *)
(* deleted with its reference.                                             *)
LEMMA ReturnUndefinedStep ==
    ASSUME CountedInv, ReturnUndefined
    PROVE  QuickInv'
<1>1. /\ QuickTypeOK /\ BoxInv /\ CountInv
    BY DEF CountedInv
<1>2. /\ PopCall /\ refs' = [o \in Object |-> Freed(o, SpentRefs(o))[o]]
      /\ misused' = ReadsDeleted
      /\ UNCHANGED <<script, handedOut, born, protectedBoxes, keptBoxes>>
      /\ box' = [h \in Box |-> IF h \in Forgotten(Innermost) THEN NoObject ELSE box[h]]
    BY DEF ReturnUndefined, PopCall
<1>3. BoxInv' /\ activations' \in Seq(Activation) /\ Len(activations') \in 1 .. MaxNesting
    BY <1>1, <1>2, CallPopped
<1>4. refs' \in [Object -> 0 .. MaxRefs]
    BY <1>1, <1>2, RefsSpent
<1>5. /\ box' \in [Box -> Object \cup {NoObject}]
      /\ \A p \in Object : /\ Boxes(p)' = Boxes(p) \ Forgotten(Innermost)
                           /\ keptBoxes' \cap Boxes(p)' = keptBoxes \cap Boxes(p)
    BY <1>1, <1>2, BoxesForgotten
<1>6. QuickTypeOK'
    <2>1. misused' \in BOOLEAN
        BY <1>2 DEF ReadsDeleted
    <2>2. QED BY <1>1, <1>2, <1>3, <1>4, <1>5, <2>1 DEF QuickTypeOK
<1> SUFFICES ASSUME ~misused' PROVE CountedInv'
    BY <1>6 DEF QuickInv
<1>7. ASSUME NEW p \in Object
      PROVE  /\ IsFiniteSet(Boxes(p)')
             /\ p \notin handedOut' => script'[p] + Cardinality(Boxes(p)')
                                        + Cardinality(keptBoxes' \cap Boxes(p)') <= refs'[p]
             /\ p \notin born' => script'[p] = 0 /\ Boxes(p)' = {}
    <2>1. /\ IsFiniteSet(Boxes(p)') /\ Cardinality(Boxes(p)') \in Nat
          /\ Cardinality(Boxes(p)) \in Nat
          /\ Cardinality(Boxes(p)') <= Cardinality(Boxes(p))
          /\ \A h \in Boxes(p) \ Boxes(p)' : Cardinality(Boxes(p)') + 1 <= Cardinality(Boxes(p))
        <3>1. Boxes(p)' \in SUBSET Boxes(p)
            BY <1>5
        <3>2. QED BY <1>1, <3>1, CountFacts, Fewer
    <2>2. Cardinality(keptBoxes' \cap Boxes(p)') = Cardinality(keptBoxes \cap Boxes(p))
        BY <1>5
    <2>3. /\ refs'[p] = IF SpentRefs(p) = 0 THEN refs[p]
                        ELSE IF refs[p] < 1 THEN 0 ELSE refs[p] - 1
          /\ SpentRefs(p) # 0 =>
                \E h \in Boxes(p) : h \in Innermost.args /\ h \in Forgotten(Innermost)
        BY <1>1, <1>2, RefsSpent
    <2>4. CASE SpentRefs(p) = 0
        BY <1>1, <1>2, <1>5, <2>1, <2>2, <2>3, <2>4, CountFacts
    <2>5. CASE SpentRefs(p) # 0
        <3>1. PICK h \in Boxes(p) : h \in Forgotten(Innermost)
            BY <2>3, <2>5
        <3>2. h \in Boxes(p) \ Boxes(p)'
            BY <1>5, <3>1
        <3>3. Cardinality(Boxes(p)') + 1 <= Cardinality(Boxes(p))
            BY <2>1, <3>2
        <3>4. QED BY <1>1, <1>2, <1>5, <2>1, <2>2, <2>3, <2>5, <3>3, CountFacts
    <2>6. QED BY <2>4, <2>5
<1>8. QED BY <1>3, <1>6, <1>7 DEF CountedInv, CountInv

(* The reference of the box that is returned becomes the script's.  If the *)
(* box is kept nothing is claimed of its object any more.                  *)
LEMMA ReturnHandleStep ==
    ASSUME CountedInv, NEW r \in Box, ReturnHandle(r)
    PROVE  QuickInv'
<1>1. /\ QuickTypeOK /\ BoxInv /\ CountInv
    BY DEF CountedInv
<1>2. PICK o : o = box[r]
    OBVIOUS
<1>3. /\ r \in BoxesOf(Innermost) \cup keptBoxes
      /\ misused' = (ReadsDeleted \/ r \in Innermost.args \ protectedBoxes)
      /\ PopCall /\ refs' = [q \in Object |-> Freed(q, SpentRefs(q))[q]]
      /\ script[o] < MaxRefs /\ script' = [script EXCEPT ![o] = @ + 1]
      /\ handedOut' = IF r \in keptBoxes THEN handedOut \cup {o} ELSE handedOut
      /\ UNCHANGED <<born, protectedBoxes, keptBoxes>>
      /\ box' = [h \in Box |-> IF h \in Forgotten(Innermost) THEN NoObject ELSE box[h]]
    BY <1>2 DEF ReturnHandle, PopCall
<1>4. r \in Live
    BY <1>1, <1>3, TopFacts DEF BoxInv, Innermost
<1>5. o \in Object /\ r \in Boxes(o)
    BY <1>1, <1>2, <1>4 DEF Live, QuickTypeOK, Boxes
<1>6. BoxInv' /\ activations' \in Seq(Activation) /\ Len(activations') \in 1 .. MaxNesting
    BY <1>1, <1>3, CallPopped
<1>7. refs' \in [Object -> 0 .. MaxRefs]
    BY <1>1, <1>3, RefsSpent
<1>8. /\ box' \in [Box -> Object \cup {NoObject}]
      /\ \A p \in Object : /\ Boxes(p)' = Boxes(p) \ Forgotten(Innermost)
                           /\ keptBoxes' \cap Boxes(p)' = keptBoxes \cap Boxes(p)
    BY <1>1, <1>3, BoxesForgotten
<1>9. script' \in [Object -> 0 .. MaxRefs] /\ handedOut' \subseteq Object
    BY <1>1, <1>3, <1>5, BoundsAssumption DEF QuickTypeOK
<1>10. QuickTypeOK'
    <2>1. misused' \in BOOLEAN
        BY <1>3 DEF ReadsDeleted
    <2>2. QED BY <1>1, <1>3, <1>6, <1>7, <1>8, <1>9, <2>1 DEF QuickTypeOK
<1> SUFFICES ASSUME ~misused' PROVE CountedInv'
    BY <1>10 DEF QuickInv
<1>11. ASSUME NEW p \in Object
       PROVE  /\ IsFiniteSet(Boxes(p)')
              /\ p \notin handedOut' => script'[p] + Cardinality(Boxes(p)')
                                         + Cardinality(keptBoxes' \cap Boxes(p)') <= refs'[p]
              /\ p \notin born' => script'[p] = 0 /\ Boxes(p)' = {}
    <2>1. Boxes(p)' \in SUBSET Boxes(p)
        BY <1>8
    <2>2. /\ IsFiniteSet(Boxes(p)') /\ Cardinality(Boxes(p)') \in Nat
          /\ Cardinality(Boxes(p)) \in Nat
          /\ Cardinality(Boxes(p)') <= Cardinality(Boxes(p))
          /\ \A h \in Boxes(p) \ Boxes(p)' : Cardinality(Boxes(p)') + 1 <= Cardinality(Boxes(p))
        BY <1>1, <2>1, CountFacts, Fewer
    <2>3. Cardinality(keptBoxes' \cap Boxes(p)') = Cardinality(keptBoxes \cap Boxes(p))
        BY <1>8
    <2>4. /\ refs'[p] = IF SpentRefs(p) = 0 THEN refs[p]
                        ELSE IF refs[p] < 1 THEN 0 ELSE refs[p] - 1
          /\ SpentRefs(p) # 0 =>
                \E h \in Boxes(p) : h \in Innermost.args /\ h \in Forgotten(Innermost)
        BY <1>1, <1>3, RefsSpent
    <2>5. p \notin born' => script'[p] = 0 /\ Boxes(p)' = {}
        <3>1. p \notin born => p # o /\ script[p] = 0 /\ Boxes(p) = {}
            BY <1>1, <1>5, CountFacts
        <3>2. QED BY <1>1, <1>3, <2>1, <3>1 DEF QuickTypeOK
    <2>6. ASSUME p \notin handedOut'
          PROVE  script'[p] + Cardinality(Boxes(p)')
                    + Cardinality(keptBoxes' \cap Boxes(p)') <= refs'[p]
        <3>1. p \notin handedOut
            BY <1>3, <2>6
        <3>2. CASE p # o
            <4>1. script'[p] = script[p]
                BY <1>1, <1>3, <3>2 DEF QuickTypeOK
            <4>2. CASE SpentRefs(p) = 0
                BY <1>1, <2>2, <2>3, <2>4, <3>1, <4>1, <4>2, CountFacts
            <4>3. CASE SpentRefs(p) # 0
                <5>1. PICK h \in Boxes(p) : h \in Forgotten(Innermost)
                    BY <2>4, <4>3
                <5>2. Cardinality(Boxes(p)') + 1 <= Cardinality(Boxes(p))
                    BY <1>8, <2>2, <5>1
                <5>3. QED BY <1>1, <2>2, <2>3, <2>4, <3>1, <4>1, <4>3, <5>2, CountFacts
            <4>4. QED BY <4>2, <4>3
        <3>3. CASE p = o
            <4>1. script'[p] = script[p] + 1
                BY <1>1, <1>3, <1>5, <3>3 DEF QuickTypeOK
            <4>2. r \notin keptBoxes
                BY <1>3, <2>6, <3>3
            <4>3. r \in Boxes(p) /\ r \in Forgotten(Innermost)
                BY <1>1, <1>3, <1>5, <3>3, <4>2, TopFacts DEF Forgotten, BoxInv
            <4>4. CASE SpentRefs(p) = 0
                <5>1. Cardinality(Boxes(p)') + 1 <= Cardinality(Boxes(p))
                    BY <1>8, <2>2, <4>3
                <5>2. QED BY <1>1, <2>2, <2>3, <2>4, <3>1, <4>1, <4>4, <5>1, CountFacts
            <4>5. CASE SpentRefs(p) # 0
                <5>1. PICK h \in Boxes(p) : h \in Innermost.args /\ h \in Forgotten(Innermost)
                    BY <2>4, <4>5
                <5>2. h # r
                    BY <1>3, <5>1 DEF Forgotten
                <5>3. PICK B : B = Boxes(p) \ {r}
                    OBVIOUS
                <5>4. /\ IsFiniteSet(B) /\ Cardinality(B) \in Nat
                      /\ Cardinality(B) + 1 <= Cardinality(Boxes(p))
                    BY <1>1, <4>3, <5>3, CountFacts, Fewer
                <5>5. Boxes(p)' \in SUBSET B /\ h \in B \ Boxes(p)'
                    BY <1>8, <4>3, <5>1, <5>2, <5>3
                <5>6. Cardinality(Boxes(p)') + 1 <= Cardinality(B)
                    BY <5>4, <5>5, Fewer
                <5>7. Cardinality(Boxes(p)') + 2 <= Cardinality(Boxes(p))
                    BY <2>2, <5>4, <5>6
                <5>8. QED BY <1>1, <2>2, <2>3, <2>4, <3>1, <4>1, <4>5, <5>7, CountFacts
            <4>6. QED BY <4>4, <4>5
        <3>4. QED BY <3>2, <3>3
    <2>7. QED BY <2>2, <2>5, <2>6
<1>12. QED BY <1>6, <1>10, <1>11 DEF CountedInv, CountInv

(* The boxes of a frame are forgotten at its end.                          *)
LEMMA HostReturnsStep ==
    ASSUME CountedInv, HostReturns
    PROVE  CountedInv'
<1>1. /\ QuickTypeOK /\ BoxInv /\ CountInv
    BY DEF CountedInv
<1>2. /\ activations' = <<Host>>
      /\ UNCHANGED <<refs, script, born, protectedBoxes, keptBoxes, handedOut, misused>>
      /\ box' = [h \in Box |-> IF h \in Forgotten(Innermost) THEN NoObject ELSE box[h]]
    BY DEF HostReturns
<1>3. Host \in Activation /\ BoxesOf(Host) = {} /\ ArgumentBoxes(Host) = {}
    BY DEF Activation, BoxesOf, ArgumentBoxes, Host
<1>4. /\ activations' \in Seq(Activation) /\ Len(activations') = 1
      /\ BoxesOf(activations'[1]) = {} /\ ArgumentBoxes(activations'[1]) = {}
    BY <1>2, <1>3
<1>5. /\ keptBoxes \subseteq Live' /\ box' \in [Box -> Object \cup {NoObject}]
      /\ \A p \in Object : /\ Boxes(p)' = Boxes(p) \ Forgotten(Innermost)
                           /\ keptBoxes' \cap Boxes(p)' = keptBoxes \cap Boxes(p)
    BY <1>1, <1>2, BoxesForgotten
<1>6. BoxInv'
    <2>1. \A i \in 1 .. Len(activations') :
              i = 1 /\ BoxesOf(activations'[i]) = {} /\ ArgumentBoxes(activations'[i]) = {}
        BY <1>4
    <2>2. \A i, j \in 1 .. Len(activations') : i = j
        BY <2>1
    <2>3. QED BY <1>1, <1>2, <1>5, <2>1, <2>2 DEF BoxInv
<1>7. QuickTypeOK'
    BY <1>1, <1>2, <1>4, <1>5, BoundsAssumption DEF QuickTypeOK
<1>8. ASSUME NEW p \in Object
      PROVE  /\ IsFiniteSet(Boxes(p)')
             /\ p \notin handedOut' => script'[p] + Cardinality(Boxes(p)')
                                        + Cardinality(keptBoxes' \cap Boxes(p)') <= refs'[p]
             /\ p \notin born' => script'[p] = 0 /\ Boxes(p)' = {}
    <2>1. Boxes(p)' \in SUBSET Boxes(p)
        BY <1>5
    <2>2. /\ IsFiniteSet(Boxes(p)') /\ Cardinality(Boxes(p)') \in Nat
          /\ Cardinality(Boxes(p)') <= Cardinality(Boxes(p))
        BY <1>1, <2>1, CountFacts, Fewer
    <2>3. Cardinality(keptBoxes' \cap Boxes(p)') = Cardinality(keptBoxes \cap Boxes(p))
        BY <1>5
    <2>4. QED BY <1>1, <1>2, <2>1, <2>2, <2>3, CountFacts
<1>9. QED BY <1>6, <1>7, <1>8 DEF CountedInv, CountInv

(* A step that changes nothing.                                            *)
LEMMA QuickStutter == ASSUME QuickInv, UNCHANGED quickVars PROVE QuickInv'
<1>1. UNCHANGED <<box, refs, script, born, protectedBoxes, keptBoxes, activations, handedOut,
                  misused>>
    BY DEF quickVars
<1>2. QuickTypeOK'
    BY <1>1 DEF QuickInv, QuickTypeOK
<1>3. BoxInv => BoxInv'
    BY <1>1 DEF BoxInv, Live
<1>4. CountInv => CountInv'
    BY <1>1 DEF CountInv, Boxes
<1>5. QED BY <1>1, <1>2, <1>3, <1>4 DEF QuickInv, CountedInv

(* In every reachable state boxes have one user each and reference counts  *)
(* cover the references there are, or a call has returned that had         *)
(* unprotected its argument, or has returned it.                           *)
THEOREM QuickInvariance == QuickSpec => []QuickInv
<1>1. QuickInv /\ [QuickNext]_quickVars => QuickInv'
    <2>1. SUFFICES ASSUME QuickInv, [QuickNext]_quickVars PROVE QuickInv'
        OBVIOUS
    <2>2. CASE UNCHANGED quickVars
        BY <2>1, <2>2, QuickStutter
    <2>3. CASE QuickNext
        <3>1. CountedInv /\ QuickStep
            BY <2>1, <2>3 DEF QuickNext, QuickInv
        <3>2. CountedInv' \/ QuickInv'
            BY <3>1, NewObjectStep, CallbackStep, GiveStep, BoxProtectStep, BoxUnprotectStep,
               ArgumentUnprotectStep, ReturnHandleStep, DropStep, ReturnUndefinedStep,
               HostReturnsStep
            DEF QuickStep
        <3>3. QED BY <3>2 DEF CountedInv, QuickInv
    <2>4. QED BY <2>1, <2>2, <2>3
<1>2. QED BY <1>1, QuickStarts, PTL DEF QuickSpec

(* Up to then, the boxes that native code keeps and those of the calls in  *)
(* progress are allocated: nested calls do not delete each other's, and a  *)
(* call loses no argument but the one it unprotects itself.                *)
THEOREM NoBoxIsUsedAfterDelete == QuickSpec => []BoxesAreAllocated
<1>1. QuickInv => BoxesAreAllocated
    BY DEF QuickInv, CountedInv, BoxInv, BoxesAreAllocated, BoxesInUse
<1>2. QED BY <1>1, QuickInvariance, PTL

(* An object that the script refers to, or that native code keeps a box    *)
(* of, is not freed as long as no kept box of it was returned, and no box  *)
(* was used after it was deleted.                                          *)
THEOREM KeptObjectsSurvive == QuickSpec => []KeptObjectsExist
<1>1. QuickInv => KeptObjectsExist
    <2>1. SUFFICES ASSUME QuickInv, ~misused, NEW o \in Object, o \notin handedOut,
                          script[o] > 0 \/ \E h \in keptBoxes : box[h] = o
                   PROVE  refs[o] > 0
        BY DEF KeptObjectsExist
    <2>2. /\ QuickTypeOK /\ BoxInv /\ CountInv
        BY <2>1 DEF QuickInv, CountedInv
    <2>3. /\ script[o] \in Nat /\ refs[o] \in Nat /\ Cardinality(Boxes(o)) \in Nat
          /\ IsFiniteSet(Boxes(o)) /\ Cardinality(keptBoxes \cap Boxes(o)) \in Nat
          /\ script[o] + Cardinality(Boxes(o)) + Cardinality(keptBoxes \cap Boxes(o)) <= refs[o]
        BY <2>1, <2>2, CountFacts
    <2>4. CASE script[o] > 0
        BY <2>3, <2>4
    <2>5. CASE \E h \in keptBoxes : box[h] = o
        <3>1. PICK h \in Box : h \in Boxes(o)
            BY <2>2, <2>5 DEF Boxes, BoxInv, Live
        <3>2. Cardinality(Boxes(o)) # 0
            BY <2>3, <3>1, FS_EmptySet
        <3>3. QED BY <2>3, <3>2
    <2>6. QED BY <2>1, <2>4, <2>5
<1>2. QED BY <1>1, QuickInvariance, PTL
=============================================================================
