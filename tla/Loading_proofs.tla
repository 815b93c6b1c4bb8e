--------------------------- MODULE Loading_proofs ---------------------------
(***************************************************************************)
(* Proofs about what is loaded: ModuleLoading, for every set of modules,   *)
(* every graph of imports between them and every number of reloads, and    *)
(* HotReload, for any number of saves and loads.                           *)
(***************************************************************************)
EXTENDS ModuleLoading, HotReload, SequenceTheorems, FiniteSetTheorems, TLAPS

-----------------------------------------------------------------------------
(* The module system.                                                      *)

Frame == [by : Module \cup {Host}, mod : Module, todo : SUBSET Module, exports : Object]

-----------------------------------------------------------------------------
(* What is said of the stack does not depend on what is left to be done.   *)
Alike(s, r) ==
    /\ Len(r) = Len(s)
    /\ \A i \in 1 .. Len(s) :
          r[i].by = s[i].by /\ r[i].mod = s[i].mod /\ r[i].exports = s[i].exports

(* The bodies on the stack are of different modules, those being executed. *)
(* Their exports object was cached before they began; only a module that   *)
(* assigns module.exports can have another one by now.                     *)
StackOK(s, inside, cached) ==
    /\ \A i, j \in 1 .. Len(s) : s[i].mod = s[j].mod => i = j
    /\ inside = {s[i].mod : i \in 1 .. Len(s)}
    /\ \A i \in 1 .. Len(s) :
          /\ cached[s[i].mod] = Initially(s[i].mod)
          /\ \/ s[i].exports = Initially(s[i].mod)
             \/ s[i].exports = Assigned(s[i].mod) /\ kind[s[i].mod] = "replaces"

StackInv == StackOK(stack, loading, cache)

(* A module is in the cache from its first execution on.                   *)
CacheInv ==
    \A m \in Module :
        /\ cache[m] \in {Undefined, Initially(m), Assigned(m)}
        /\ runs[m] = IF cache[m] = Undefined THEN 0 ELSE 1

(* The results of require() are of modules in the cache, and those it gave *)
(* as complete are not executed any more.                                  *)
ObtainedInv ==
    \A r \in obtained : kind[r.of] \notin {"broken", "missing"} =>
                            r.of \in Cached /\ (r.complete => r.of \notin loading)

(* executeCjsModule and clearCaches keep protected what the cache holds,   *)
(* and nothing else.                                                       *)
CachedIsProtected == protectedObjects = {cache[m] : m \in Cached}

IInv == TypeOK /\ StackInv /\ CacheInv /\ ObtainedInv /\ OneExportsObject /\ CachedIsProtected

-----------------------------------------------------------------------------
(* The objects of different modules differ.                                *)
LEMMA Objects ==
    ASSUME NEW m \in Module
    PROVE  /\ Initially(m) \in Object /\ Assigned(m) \in Object
           /\ Initially(m) # Undefined /\ Assigned(m) # Undefined
           /\ \A n \in Module \ {m} :
                 {Initially(m), Assigned(m)} \cap {Initially(n), Assigned(n)} = {}
BY DEF Initially, Assigned, Object, Undefined

LEMMA StackIsSeq ==
    ASSUME TypeOK
    PROVE  /\ stack \in Seq(Frame) /\ Len(stack) \in Nat
           /\ \A i \in 1 .. Len(stack) : stack[i] \in Frame
           /\ stack # <<>> => Len(stack) \in 1 .. Len(stack) /\ Top \in Frame
<1>1. stack \in Seq(Frame)
    BY DEF TypeOK, Frame
<1>2. /\ Len(stack) \in Nat /\ \A i \in 1 .. Len(stack) : stack[i] \in Frame
      /\ stack # <<>> => Len(stack) # 0
    BY <1>1, LenProperties, ElementOfSeq, EmptySeq
<1>3. QED BY <1>1, <1>2 DEF Top

LEMMA AlikeStacks ==
    ASSUME NEW s, NEW r, NEW inside, NEW cached, Alike(s, r), StackOK(s, inside, cached)
    PROVE  StackOK(r, inside, cached)
BY DEF Alike, StackOK

(* After a require() the module on top has less to do, that is all.        *)
LEMMA ObtainIs ==
    ASSUME NEW s \in Seq(Frame), NEW by, NEW m, NEW object, NEW complete,
           Obtain(s, by, m, object, complete)
    PROVE  /\ stack' \in Seq(Frame) /\ Alike(s, stack')
           /\ obtained' = obtained \cup
                 {[by |-> by, of |-> m, object |-> object, complete |-> complete]}
<1>1. PICK r : r = stack'
    OBVIOUS
<1>2. r \in Seq(Frame) /\ Alike(s, r)
    <2>1. CASE s = <<>>
        <3>1. r = s
            BY <1>1, <2>1 DEF Obtain
        <3>2. QED BY <3>1 DEF Alike
    <2>2. CASE s # <<>>
        <3>1. PICK n : n = Len(s)
            OBVIOUS
        <3>2. n \in 1 .. Len(s) /\ n \in Nat /\ \A i \in 1 .. Len(s) : s[i] \in Frame
            BY <2>2, <3>1, LenProperties, ElementOfSeq, EmptySeq
        <3>3. r = [s EXCEPT ![n] = [s[n] EXCEPT !.todo = @ \ {m}]]
            BY <1>1, <2>2, <3>1 DEF Obtain
        <3>4. PICK e : e = [s[n] EXCEPT !.todo = @ \ {m}]
            OBVIOUS
        <3>5. /\ e \in Frame
              /\ e.by = s[n].by /\ e.mod = s[n].mod /\ e.exports = s[n].exports
            <4>1. s[n] \in Frame
                BY <3>2
            <4>2. QED BY <3>4, <4>1 DEF Frame
        <3>6. r = [s EXCEPT ![n] = e]
            BY <3>3, <3>4
        <3>7. /\ r \in Seq(Frame) /\ Len(r) = Len(s)
              /\ \A i \in 1 .. Len(s) : r[i] = IF i = n THEN e ELSE s[i]
            BY <3>2, <3>5, <3>6, ExceptSeq
        <3>8. QED BY <3>5, <3>7 DEF Alike
    <2>3. QED BY <2>1, <2>2
<1>3. QED BY <1>1, <1>2 DEF Obtain

(* A body that begins is put on top ...                                    *)
LEMMA PushFrame ==
    ASSUME NEW s \in Seq(Frame), NEW inside, NEW cached, StackOK(s, inside, cached),
           NEW f \in Frame, f.mod \notin inside, f.exports = Initially(f.mod),
           NEW cached2, cached2[f.mod] = Initially(f.mod),
           \A m \in Module \ {f.mod} : cached2[m] = cached[m]
    PROVE  /\ Append(s, f) \in Seq(Frame)
           /\ StackOK(Append(s, f), inside \cup {f.mod}, cached2)
<1>1. PICK r : r = Append(s, f)
    OBVIOUS
<1>2. /\ r \in Seq(Frame) /\ Len(r) = Len(s) + 1 /\ Len(s) \in Nat
      /\ \A i \in 1 .. Len(s) : r[i] = s[i] /\ s[i] \in Frame
      /\ r[Len(s) + 1] = f
    BY <1>1, AppendProperties, LenProperties, ElementOfSeq
<1>3. \A i \in 1 .. Len(r) : i \in 1 .. Len(s) \/ i = Len(s) + 1
    BY <1>2
<1>4. \A i \in 1 .. Len(s) : i \in 1 .. Len(r) /\ s[i].mod \in inside
    BY <1>2 DEF StackOK
<1>5. ASSUME NEW i \in 1 .. Len(r), NEW j \in 1 .. Len(r), r[i].mod = r[j].mod
      PROVE  i = j
    <2>1. CASE i \in 1 .. Len(s) /\ j \in 1 .. Len(s)
        BY <1>2, <1>5, <2>1 DEF StackOK
    <2>2. CASE i = Len(s) + 1 /\ j \in 1 .. Len(s)
        BY <1>2, <1>4, <1>5, <2>2
    <2>3. CASE i \in 1 .. Len(s) /\ j = Len(s) + 1
        BY <1>2, <1>4, <1>5, <2>3
    <2>4. QED BY <1>3, <2>1, <2>2, <2>3
<1>6. inside \cup {f.mod} = {r[i].mod : i \in 1 .. Len(r)}
    <2>1. inside = {s[i].mod : i \in 1 .. Len(s)}
        BY DEF StackOK
    <2>2. Len(s) + 1 \in 1 .. Len(r)
        BY <1>2
    <2>3. QED BY <2>1, <2>2, <1>2, <1>3, <1>4
<1>7. ASSUME NEW i \in 1 .. Len(r)
      PROVE  /\ cached2[r[i].mod] = Initially(r[i].mod)
             /\ \/ r[i].exports = Initially(r[i].mod)
                \/ r[i].exports = Assigned(r[i].mod) /\ kind[r[i].mod] = "replaces"
    <2>1. CASE i \in 1 .. Len(s)
        <3>1. s[i].mod \in Module \ {f.mod}
            BY <1>2, <1>4, <2>1 DEF Frame
        <3>2. QED BY <3>1, <1>2, <2>1 DEF StackOK
    <2>2. CASE i = Len(s) + 1
        BY <1>2, <2>2
    <2>3. QED BY <1>3, <2>1, <2>2
<1>8. StackOK(r, inside \cup {f.mod}, cached2)
    BY <1>5, <1>6, <1>7 DEF StackOK
<1>9. QED BY <1>1, <1>2, <1>8

(* ... and taken from it at its end.                                       *)
LEMMA PopFrame ==
    ASSUME NEW s \in Seq(Frame), s # <<>>, NEW inside, NEW cached, StackOK(s, inside, cached),
           NEW m, m = s[Len(s)].mod,
           NEW cached2, \A x \in Module \ {m} : cached2[x] = cached[x]
    PROVE  /\ SubSeq(s, 1, Len(s) - 1) \in Seq(Frame)
           /\ StackOK(SubSeq(s, 1, Len(s) - 1), inside \ {m}, cached2)
<1>1. PICK r : r = SubSeq(s, 1, Len(s) - 1)
    OBVIOUS
<1>2. /\ Len(s) \in Nat \ {0} /\ \A i \in 1 .. Len(s) : s[i] \in Frame
      /\ Len(s) \in 1 .. Len(s)
    BY LenProperties, ElementOfSeq, EmptySeq
<1>3. /\ r \in Seq(Frame) /\ Len(r) = Len(s) - 1
      /\ \A i \in 1 .. Len(s) - 1 : r[i] = s[i]
    <2>1. PICK k \in Nat : k = Len(s) - 1
        BY <1>2
    <2>2. \A i \in 1 .. k : s[i] \in Frame
        BY <2>1, <1>2
    <2>3. /\ SubSeq(s, 1, k) \in Seq(Frame)
          /\ Len(SubSeq(s, 1, k)) = IF 1 <= k THEN k - 1 + 1 ELSE 0
          /\ \A i \in 1 .. k - 1 + 1 : SubSeq(s, 1, k)[i] = s[1 + i - 1]
        BY <2>2, SubSeqProperties
    <2>4. r = SubSeq(s, 1, k)
        BY <1>1, <2>1
    <2>5. \A i \in 1 .. k : i \in 1 .. k - 1 + 1 /\ 1 + i - 1 = i
        BY <2>1
    <2>6. /\ r \in Seq(Frame) /\ Len(r) = IF 1 <= k THEN k - 1 + 1 ELSE 0
          /\ \A i \in 1 .. k : r[i] = s[i]
        BY <2>3, <2>4, <2>5
    <2>7. QED BY <2>1, <2>6
<1>4. \A i \in 1 .. Len(r) : i \in 1 .. Len(s) /\ i # Len(s) /\ r[i] = s[i]
    BY <1>2, <1>3
<1>5. \A i \in 1 .. Len(s) : i \in 1 .. Len(r) \/ i = Len(s)
    BY <1>2, <1>3
<1>6. \A i \in 1 .. Len(r) : r[i].mod \in Module \ {m}
    BY <1>2, <1>4 DEF StackOK, Frame
<1>7. inside \ {m} = {r[i].mod : i \in 1 .. Len(r)}
    <2>1. inside = {s[i].mod : i \in 1 .. Len(s)}
        BY DEF StackOK
    <2>2. QED BY <2>1, <1>4, <1>5, <1>6
<1>8. StackOK(r, inside \ {m}, cached2)
    <2>1. \A i, j \in 1 .. Len(r) : r[i].mod = r[j].mod => i = j
        BY <1>4 DEF StackOK
    <2>2. ASSUME NEW i \in 1 .. Len(r)
          PROVE  /\ cached2[r[i].mod] = Initially(r[i].mod)
                 /\ \/ r[i].exports = Initially(r[i].mod)
                    \/ r[i].exports = Assigned(r[i].mod) /\ kind[r[i].mod] = "replaces"
        BY <1>4, <1>6 DEF StackOK
    <2>3. QED BY <1>7, <2>1, <2>2 DEF StackOK
<1>9. QED BY <1>1, <1>3, <1>8

LEMMA InitEstablishes == Init => IInv
<1> SUFFICES ASSUME Init PROVE IInv
    OBVIOUS
<1>1. TypeOK
    <2>1. nativeExceptions \in BOOLEAN
        BY Zenon DEF Init
    <2>2. stack \in Seq([by : Module \cup {Host}, mod : Module, todo : SUBSET Module,
                         exports : Object])
        BY EmptySeq DEF Init
    <2>3. QED BY <2>1, <2>2, LoadsAssumption DEF Init, TypeOK
<1>2. StackInv
    BY DEF Init, StackInv, StackOK
<1>3. CacheInv /\ ObtainedInv /\ OneExportsObject /\ CachedIsProtected
    BY DEF Init, CacheInv, ObtainedInv, OneExportsObject, CachedIsProtected, Cached, Undefined
<1>4. QED BY <1>1, <1>2, <1>3 DEF IInv

-----------------------------------------------------------------------------
(* What is being executed is in the cache.                                 *)
LEMMA LoadingIsCached ==
    ASSUME IInv
    PROVE  loading \subseteq Cached /\ \A m \in Module : Known(m) <=> m \in Cached
<1>1. ASSUME NEW m \in loading PROVE m \in Cached
    <2>1. PICK i \in 1 .. Len(stack) : m = stack[i].mod
        BY <1>1 DEF IInv, StackInv, StackOK
    <2>2. m \in Module
        BY <1>1 DEF IInv, TypeOK
    <2>3. cache[m] = Initially(m)
        BY <2>1 DEF IInv, StackInv, StackOK
    <2>4. QED BY <2>2, <2>3, Objects DEF Cached
<1>2. QED BY <1>1 DEF Known

(* require() of a module that is known, or cannot be executed.             *)
LEMMA AnswerStep ==
    ASSUME IInv, NEW by \in Module, NEW m \in Module, NEW object \in Object \cup {Undefined},
           NEW complete \in BOOLEAN, Obtain(stack, by, m, object, complete),
           UNCHANGED <<program, cache, loading, protectedObjects, runs, load, result>>,
           kind[m] \notin {"broken", "missing"} =>
               m \in Cached /\ object = cache[m] /\ (complete => m \notin loading)
    PROVE  IInv'
<1>1. /\ stack' \in Seq(Frame) /\ Alike(stack, stack')
      /\ obtained' = obtained \cup
            {[by |-> by, of |-> m, object |-> object, complete |-> complete]}
    BY StackIsSeq, ObtainIs DEF IInv
<1>2. TypeOK'
    BY <1>1 DEF IInv, TypeOK, program, Frame
<1>3. StackInv'
    <2>1. StackOK(stack', loading, cache)
        BY <1>1, AlikeStacks DEF IInv, StackInv
    <2>2. QED BY <2>1 DEF StackInv, StackOK, program
<1>4. CacheInv' /\ CachedIsProtected'
    BY DEF IInv, CacheInv, CachedIsProtected, Cached, program
<1>5. PICK new : new = [by |-> by, of |-> m, object |-> object, complete |-> complete]
    OBVIOUS
<1>6. /\ obtained' = obtained \cup {new}
      /\ new.of = m /\ new.object = object /\ (new.complete <=> complete)
    BY <1>1, <1>5
<1>7. ObtainedInv' /\ OneExportsObject'
    BY <1>6 DEF IInv, ObtainedInv, OneExportsObject, Cached, program
<1>8. QED BY <1>2, <1>3, <1>4, <1>7 DEF IInv

(* require() of a module that is executed now.                             *)
LEMMA ExecuteStep ==
    ASSUME IInv, NEW by \in Module, NEW m \in Module, ~Known(m), Execute(by, m),
           UNCHANGED <<program, obtained, load, result>>
    PROVE  IInv'
<1>1. m \notin loading /\ m \notin Cached /\ cache[m] = Undefined /\ runs[m] = 0
    BY DEF Known, Cached, IInv, CacheInv
<1>2. /\ cache \in [Module -> Object \cup {Undefined}] /\ runs \in [Module -> Nat]
      /\ imports \in [Module -> SUBSET Module] /\ loading \subseteq Module
    BY DEF IInv, TypeOK
<1>3. PICK f : f = [by |-> by, mod |-> m, todo |-> imports[m], exports |-> Initially(m)]
    OBVIOUS
<1>4. f \in Frame /\ f.mod = m /\ f.exports = Initially(m)
    BY <1>2, <1>3, Objects DEF Frame
<1>5. /\ cache'[m] = Initially(m) /\ \A x \in Module \ {m} : cache'[x] = cache[x]
      /\ cache' \in [Module -> Object \cup {Undefined}]
      /\ loading' = loading \cup {m} /\ stack' = Append(stack, f)
      /\ runs'[m] = 1 /\ \A x \in Module \ {m} : runs'[x] = runs[x]
      /\ runs' \in [Module -> Nat]
      /\ protectedObjects' = protectedObjects \cup {Initially(m)}
    BY <1>1, <1>2, <1>3, Objects DEF Execute
<1>6. stack' \in Seq(Frame) /\ StackOK(stack', loading', cache')
    <2>1. stack \in Seq(Frame) /\ StackOK(stack, loading, cache)
        BY StackIsSeq DEF IInv, StackInv
    <2>2. QED BY <1>1, <1>4, <1>5, <2>1, PushFrame
<1>7. TypeOK'
    BY <1>5, <1>6, Objects DEF IInv, TypeOK, Frame, program
<1>8. StackInv'
    BY <1>6 DEF StackInv, StackOK, program
<1>9. CacheInv'
    BY <1>5, Objects DEF IInv, CacheInv
<1>10. Cached' = Cached \cup {m}
    BY <1>5, Objects DEF Cached
<1>11. ObtainedInv' /\ OneExportsObject'
    <2>1. ASSUME NEW r \in obtained, kind[r.of] \notin {"broken", "missing"}
          PROVE  /\ r.of \in Cached' /\ (r.complete => r.of \notin loading')
                 /\ cache'[r.of] = cache[r.of]
        <3>1. r.of \in Cached /\ r.of # m /\ r.of \in Module
            BY <1>1, <2>1 DEF IInv, ObtainedInv, Cached
        <3>2. QED BY <2>1, <3>1, <1>5, <1>10 DEF IInv, ObtainedInv
    <2>2. QED BY <2>1 DEF IInv, ObtainedInv, OneExportsObject, program
<1>12. CachedIsProtected'
    <2>1. \A x \in Cached : cache'[x] = cache[x]
        BY <1>1, <1>5 DEF Cached
    <2>2. QED BY <1>5, <1>10, <2>1 DEF IInv, CachedIsProtected
<1>13. QED BY <1>7, <1>8, <1>9, <1>11, <1>12 DEF IInv

LEMMA RequireStep == ASSUME IInv, RequireImport \/ RequireLater PROVE IInv'
<1>1. PICK by \in Module, m \in Module :
            Require(by, m) /\ UNCHANGED <<program, load, result>>
    <2>1. CASE RequireImport
        <3>1. Top.mod \in Module /\ Top.todo \subseteq Module
            BY <2>1, StackIsSeq DEF RequireImport, IInv, Frame
        <3>2. QED BY <2>1, <3>1 DEF RequireImport
    <2>2. CASE RequireLater
        BY <2>2 DEF RequireLater, Cached, IInv, TypeOK
    <2>3. QED BY <2>1, <2>2
<1>2. CASE /\ Known(m)
           /\ Obtain(stack, by, m, cache[m], m \notin loading)
           /\ UNCHANGED <<cache, loading, protectedObjects, runs>>
    <2>1. PICK complete \in BOOLEAN : complete = (m \notin loading)
        OBVIOUS
    <2>2. Obtain(stack, by, m, cache[m], complete)
        BY <1>2, <2>1
    <2>3. cache[m] \in Object \cup {Undefined} /\ m \in Cached
        BY <1>2, LoadingIsCached DEF IInv, TypeOK
    <2>4. QED BY <1>1, <1>2, <2>1, <2>2, <2>3, AnswerStep
<1>3. CASE /\ kind[m] \in {"broken", "missing"}
           /\ Obtain(stack, by, m, Undefined, TRUE)
           /\ UNCHANGED <<cache, loading, protectedObjects, runs>>
    BY <1>1, <1>3, AnswerStep
<1>4. CASE ~Known(m) /\ Execute(by, m) /\ UNCHANGED obtained
    BY <1>1, <1>4, ExecuteStep
<1>5. QED BY <1>1, <1>2, <1>3, <1>4 DEF Require

LEMMA AssignStep == ASSUME IInv, AssignExports PROVE IInv'
<1>1. PICK n : n = Len(stack)
    OBVIOUS
<1>2. /\ stack \in Seq(Frame) /\ n \in 1 .. Len(stack)
      /\ \A i \in 1 .. Len(stack) : stack[i] \in Frame
    BY <1>1, StackIsSeq DEF IInv, AssignExports
<1>3. PICK f : f = [stack[n] EXCEPT !.exports = Assigned(stack[n].mod)]
    OBVIOUS
<1>4. /\ f \in Frame /\ f.mod = stack[n].mod /\ f.exports = Assigned(f.mod)
      /\ kind[f.mod] = "replaces"
    <2>1. stack[n] \in Frame
        BY <1>2
    <2>2. stack[n].mod \in Module
        BY <2>1 DEF Frame
    <2>3. QED BY <1>1, <1>3, <2>1, <2>2, Objects DEF Frame, AssignExports, Top
<1>5. stack' = [stack EXCEPT ![n] = f]
    BY <1>1, <1>3 DEF AssignExports, Top
<1>6. /\ stack' \in Seq(Frame) /\ Len(stack') = Len(stack)
      /\ \A i \in 1 .. Len(stack) : stack'[i] = IF i = n THEN f ELSE stack[i]
    BY <1>2, <1>4, <1>5, ExceptSeq
<1>7. UNCHANGED <<program, cache, loading, protectedObjects, observed, load, result>>
    BY DEF AssignExports
<1>8. TypeOK'
    BY <1>6, <1>7 DEF IInv, TypeOK, Frame, program, observed
<1>9. StackInv'
    <2>1. StackOK(stack, loading, cache)
        BY DEF IInv, StackInv
    <2>2. \A i \in 1 .. Len(stack) : stack'[i].mod = stack[i].mod
        BY <1>4, <1>6
    <2>3. {stack'[i].mod : i \in 1 .. Len(stack')} = {stack[i].mod : i \in 1 .. Len(stack)}
        BY <1>6, <2>2
    <2>4. ASSUME NEW i \in 1 .. Len(stack)
          PROVE  /\ cache[stack'[i].mod] = Initially(stack'[i].mod)
                 /\ \/ stack'[i].exports = Initially(stack'[i].mod)
                    \/ /\ stack'[i].exports = Assigned(stack'[i].mod)
                       /\ kind[stack'[i].mod] = "replaces"
        BY <1>4, <1>6, <2>1, <2>2 DEF StackOK
    <2>5. \A i, j \in 1 .. Len(stack') : stack'[i].mod = stack'[j].mod => i = j
        BY <1>6, <2>1, <2>2 DEF StackOK
    <2>6. StackOK(stack', loading, cache)
        BY <1>6, <2>1, <2>3, <2>4, <2>5 DEF StackOK
    <2>7. QED BY <1>7, <2>6 DEF StackInv, StackOK, program
<1>10. CacheInv' /\ ObtainedInv' /\ OneExportsObject' /\ CachedIsProtected'
    BY <1>7
    DEF IInv, CacheInv, ObtainedInv, OneExportsObject, CachedIsProtected, Cached, program,
        observed
<1>11. QED BY <1>8, <1>9, <1>10 DEF IInv

(* The end of a body, with an error or without.                            *)
LEMMA EndStep == ASSUME IInv, Finish \/ Fail PROVE IInv'
<1>1. /\ stack # <<>> /\ Publish /\ PopModule /\ UNCHANGED <<program, runs, load>>
    BY DEF Finish, Fail
<1>2. PICK m : m = Top.mod
    OBVIOUS
<1>3. PICK exports : exports = Top.exports
    OBVIOUS
<1>4. PICK n : n = Len(stack)
    OBVIOUS
<1>5. /\ stack \in Seq(Frame) /\ n \in 1 .. Len(stack) /\ Top \in Frame /\ Top = stack[n]
    BY <1>1, <1>4, StackIsSeq DEF IInv, Top
<1>6. m \in Module /\ exports \in Object /\ Top.by \in Module \cup {Host}
    BY <1>2, <1>3, <1>5 DEF Frame
<1>7. /\ m \in loading /\ cache[m] = Initially(m)
      /\ exports = Initially(m) \/ (exports = Assigned(m) /\ kind[m] = "replaces")
    BY <1>2, <1>3, <1>5 DEF IInv, StackInv, StackOK
<1>8. /\ cache \in [Module -> Object \cup {Undefined}] /\ loading \subseteq Module
      /\ m \in Cached
    BY <1>7, LoadingIsCached DEF IInv, TypeOK
<1>9. /\ loading' = loading \ {m}
      /\ cache' = [cache EXCEPT ![m] = exports]
      /\ protectedObjects' = (protectedObjects \ {cache[m]}) \cup {exports}
    BY <1>1, <1>2, <1>3 DEF Publish
<1>10. /\ cache' \in [Module -> Object \cup {Undefined}]
       /\ cache'[m] = exports /\ \A x \in Module \ {m} : cache'[x] = cache[x]
    BY <1>6, <1>8, <1>9
<1>11. PICK rest : rest = SubSeq(stack, 1, Len(stack) - 1)
    OBVIOUS
<1>12. rest \in Seq(Frame) /\ StackOK(rest, loading', cache')
    <2>1. StackOK(stack, loading, cache) /\ m = stack[Len(stack)].mod
        BY <1>2, <1>4, <1>5 DEF IInv, StackInv
    <2>2. QED BY <1>1, <1>5, <1>9, <1>10, <1>11, <2>1, PopFrame
<1>13. PICK new : new = [by |-> Top.by, of |-> m, object |-> exports, complete |-> TRUE]
    OBVIOUS
<1>14. /\ stack' \in Seq(Frame) /\ StackOK(stack', loading', cache')
       /\ \/ obtained' = obtained
          \/ obtained' = obtained \cup {new} /\ Top.by \in Module
       /\ result' \in {result, "true"}
    <2>1. CASE Top.by = Host
        BY <1>1, <1>11, <1>12, <2>1 DEF PopModule
    <2>2. CASE Top.by # Host
        <3>1. PICK by : by = Top.by
            OBVIOUS
        <3>2. Obtain(rest, by, m, exports, TRUE) /\ result' = result
            BY <1>1, <1>2, <1>3, <1>11, <2>2, <3>1 DEF PopModule
        <3>3. rest \in Seq(Frame)
            BY <1>12
        <3>4. /\ stack' \in Seq(Frame) /\ Alike(rest, stack')
              /\ obtained' = obtained \cup
                    {[by |-> by, of |-> m, object |-> exports, complete |-> TRUE]}
            BY <3>2, <3>3, ObtainIs
        <3>5. StackOK(stack', loading', cache')
            <4>1. PICK inside, cached : inside = loading' /\ cached = cache'
                OBVIOUS
            <4>2. StackOK(rest, inside, cached)
                BY <1>12, <4>1 DEF StackOK
            <4>3. StackOK(stack', inside, cached)
                BY <3>4, <4>2, AlikeStacks
            <4>4. QED BY <4>1, <4>3 DEF StackOK
        <3>6. obtained' = obtained \cup {new} /\ Top.by \in Module
            BY <1>6, <1>13, <2>2, <3>1, <3>4
        <3>7. QED BY <3>2, <3>4, <3>5, <3>6
    <2>3. QED BY <2>1, <2>2
<1>15. new.of = m /\ new.object = exports /\ new.complete = TRUE
    BY <1>13
<1>16. TypeOK'
    <2>1. Top.by \in Module
              => new \in [by : Module, of : Module, object : Object \cup {Undefined},
                          complete : BOOLEAN]
        BY <1>6, <1>13
    <2>2. obtained' \subseteq [by : Module, of : Module, object : Object \cup {Undefined},
                               complete : BOOLEAN]
        BY <1>14, <2>1 DEF IInv, TypeOK
    <2>3. result' \in {"none", "true", "false"}
        BY <1>14 DEF IInv, TypeOK
    <2>4. loading' \subseteq Module /\ protectedObjects' \subseteq Object
        BY <1>6, <1>9 DEF IInv, TypeOK
    <2>5. stack' \in Seq([by : Module \cup {Host}, mod : Module, todo : SUBSET Module,
                          exports : Object])
        BY <1>14 DEF Frame
    <2>6. QED BY <1>1, <1>10, <2>2, <2>3, <2>4, <2>5 DEF IInv, TypeOK, program
<1>17. StackInv'
    BY <1>1, <1>14 DEF StackInv, StackOK, program
<1>18. exports # Undefined /\ cache[m] # Undefined
    BY <1>6, <1>7, Objects
<1>19. CacheInv'
    BY <1>1, <1>7, <1>10, <1>18 DEF IInv, CacheInv
<1>20. Cached' = Cached
    BY <1>8, <1>10, <1>18 DEF Cached
<1>21. ObtainedInv' /\ OneExportsObject'
    <2>1. ASSUME NEW r \in obtained, kind[r.of] \notin {"broken", "missing"}
          PROVE  /\ r.of \in Cached' /\ (r.complete => r.of \notin loading')
                 /\ r.complete \/ kind[r.of] # "replaces" => cache'[r.of] = cache[r.of]
        <3>1. r.of \in Cached /\ (r.complete => r.of \notin loading)
            BY <2>1 DEF IInv, ObtainedInv
        <3>2. CASE r.of = m
            BY <3>1, <3>2, <1>7, <1>9, <1>10, <1>20
        <3>3. CASE r.of # m
            BY <3>1, <3>3, <1>9, <1>10, <1>20 DEF Cached
        <3>4. QED BY <3>2, <3>3
    <2>2. m \in Cached' /\ m \notin loading' /\ exports = cache'[m]
        BY <1>8, <1>9, <1>10, <1>20
    <2>3. ObtainedInv'
        BY <1>1, <1>14, <1>15, <2>1, <2>2 DEF ObtainedInv, program
    <2>4. OneExportsObject'
        BY <1>1, <1>14, <1>15, <2>1, <2>2 DEF IInv, OneExportsObject, program
    <2>5. QED BY <2>3, <2>4
<1>22. CachedIsProtected'
    <2>1. \A x \in Cached \ {m} : cache[x] # cache[m] /\ cache'[x] = cache[x]
        <3>1. \A x \in Cached \ {m} :
                  cache[x] \in {Initially(x), Assigned(x)} /\ x \in Module \ {m}
            BY DEF IInv, CacheInv, Cached
        <3>2. QED BY <3>1, <1>6, <1>7, <1>10, Objects
    <2>2. QED BY <1>8, <1>9, <1>10, <1>20, <2>1 DEF IInv, CachedIsProtected
<1>23. QED BY <1>16, <1>17, <1>19, <1>21, <1>22 DEF IInv

LEMMA LoadStep == ASSUME IInv, LoadEntry PROVE IInv'
<1>1. /\ Entry \in Module /\ imports \in [Module -> SUBSET Module]
    BY EntryAssumption DEF IInv, TypeOK
<1>2. /\ obtained' = {} /\ load' = load + 1 /\ load < MaxLoads /\ UNCHANGED program
    BY DEF LoadEntry
<1>3. load' \in 0 .. MaxLoads
    BY <1>2, LoadsAssumption DEF IInv, TypeOK
<1>4. ObtainedInv' /\ OneExportsObject'
    BY <1>2 DEF ObtainedInv, OneExportsObject
<1>5. CASE kind[Entry] \in {"broken", "missing"}
    <2>1. /\ cache' = [m \in Module |-> Undefined] /\ loading' = {}
          /\ protectedObjects' = {} /\ runs' = [m \in Module |-> 0]
          /\ result' \in {"false", "true"} /\ stack' = stack /\ stack = <<>>
        BY <1>5 DEF LoadEntry
    <2>2. TypeOK'
        BY <1>2, <1>3, <2>1 DEF IInv, TypeOK, program
    <2>3. StackInv' /\ CacheInv' /\ CachedIsProtected'
        BY <2>1 DEF StackInv, StackOK, CacheInv, CachedIsProtected, Cached
    <2>4. QED BY <1>4, <2>2, <2>3 DEF IInv
<1>6. CASE kind[Entry] \notin {"broken", "missing"}
    <2>1. PICK f : f = [by |-> Host, mod |-> Entry, todo |-> imports[Entry],
                        exports |-> Initially(Entry)]
        OBVIOUS
    <2>2. /\ cache' = [m \in Module |-> IF m = Entry THEN Initially(m) ELSE Undefined]
          /\ loading' = {Entry} /\ protectedObjects' = {Initially(Entry)}
          /\ stack' = <<f>> /\ result' = "none"
          /\ runs' = [m \in Module |-> IF m = Entry THEN 1 ELSE 0]
        BY <1>6, <2>1 DEF LoadEntry
    <2>3. f \in Frame /\ f.mod = Entry /\ f.exports = Initially(Entry)
        BY <1>1, <2>1, Objects DEF Frame
    <2>4. stack' \in Seq(Frame) /\ Len(stack') = 1 /\ stack'[1] = f
        BY <2>2, <2>3
    <2>5. Cached' = {Entry} /\ cache'[Entry] = Initially(Entry)
        BY <1>1, <2>2, Objects DEF Cached
    <2>6. TypeOK'
        BY <1>1, <1>2, <1>3, <2>2, <2>4, Objects DEF IInv, TypeOK, program, Frame
    <2>7. StackInv'
        BY <2>2, <2>3, <2>4, <2>5 DEF StackInv, StackOK
    <2>8. CacheInv' /\ CachedIsProtected'
        BY <1>1, <2>2, <2>5, Objects DEF CacheInv, CachedIsProtected
    <2>9. QED BY <1>4, <2>6, <2>7, <2>8 DEF IInv
<1>7. QED BY <1>5, <1>6

LEMMA Preserved == IInv /\ [Next]_vars => IInv'
<1> SUFFICES ASSUME IInv, [Next]_vars PROVE IInv'
    OBVIOUS
<1>1. CASE LoadEntry
    BY <1>1, LoadStep
<1>2. CASE RequireImport \/ RequireLater
    BY <1>2, RequireStep
<1>3. CASE AssignExports
    BY <1>3, AssignStep
<1>4. CASE Finish \/ Fail
    BY <1>4, EndStep
<1>5. CASE UNCHANGED vars
    <2>1. TypeOK'
        BY <1>5 DEF IInv, TypeOK, vars, program, observed
    <2>2. StackInv'
        BY <1>5 DEF IInv, StackInv, StackOK, vars, program
    <2>3. CacheInv' /\ ObtainedInv' /\ OneExportsObject' /\ CachedIsProtected'
        BY <1>5
        DEF IInv, CacheInv, ObtainedInv, OneExportsObject, CachedIsProtected, Cached, vars,
            program, observed
    <2>4. QED BY <2>1, <2>2, <2>3 DEF IInv
<1>6. QED BY <1>1, <1>2, <1>3, <1>4, <1>5 DEF Next

-----------------------------------------------------------------------------
(* The inductive invariant holds throughout.                               *)
THEOREM Invariance == Spec => []IInv
BY InitEstablishes, Preserved, PTL DEF Spec

(* The variables of the module system keep their types.                    *)
THEOREM Typing == Spec => []TypeOK
<1>1. IInv => TypeOK
    BY DEF IInv
<1>2. QED BY <1>1, Invariance, PTL

(* executeCjsModule runs a module at most once in a load, whatever the     *)
(* cycles of imports, the callbacks and the errors; loading_ holds the     *)
(* modules whose bodies are on the stack.                                  *)
THEOREM ModulesRunOnce == Spec => []ExecutedOnce
<1>1. IInv => ExecutedOnce
    BY DEF IInv, CacheInv, StackInv, StackOK, ExecutedOnce, Executing
<1>2. QED BY <1>1, Invariance, PTL

(* All who require a module have the object that cjsCache_ holds, those in *)
(* a cycle as well unless it assigns module.exports.                       *)
THEOREM ExportsAreShared == Spec => []OneExportsObject
<1>1. IInv => OneExportsObject
    BY DEF IInv
<1>2. QED BY <1>1, Invariance, PTL

(* An exports object is protected exactly while cjsCache_ holds it: when   *)
(* executeCjsModule replaces it and when clearCaches drops it, it is       *)
(* released.                                                               *)
THEOREM CacheProtection == Spec => []CachedIsProtected
<1>1. IInv => CachedIsProtected
    BY DEF IInv
<1>2. QED BY <1>1, Invariance, PTL

-----------------------------------------------------------------------------
(* Watch mode.                                                             *)

(* loadScript has not been called.                                         *)
Unused == \A w \in Watch : context[w] = "none"

(* A file is empty only while there is a version to be written; an inode   *)
(* is a version of the entry file, and no watch is on one to come.         *)
VersionInv ==
    /\ \A f \in File : disk[f] = 0 => saved[f] <= MaxSaves
    /\ inode <= saved["entry"]
    /\ \A w \in Watch : watchedInode[w] <= inode

(* Events and the flag are used up in the poll that finds them; the        *)
(* shutdown ends every watch; and without a load there is nothing at all.  *)
PhaseInv ==
    /\ pendingEvents > 0 => pc = "events"
    /\ reloadRequested => pc = "check"
    /\ Stopping => Active = {}
    /\ Unused => /\ pc \notin {"load", "import"} /\ moduleCache["entry"] = Nothing
                 /\ osEvents = 0 /\ pendingEvents = 0 /\ ~reloadRequested

(* A load that require() is to execute finds no entry file in the cache.   *)
FreshInv ==
    Executed /\ ~nativeModules /\ pc = "load" => moduleCache["entry"] = Nothing

(* If the script is not the one on disk something is on its way to replace *)
(* it, in every phase: an event of the system, one that was taken over, a  *)
(* request, or a load.                                                     *)
OnItsWay ==
    Executed /\ Attached /\ loaded["entry"] # disk["entry"] =>
        osEvents > 0 \/ pendingEvents > 0 \/ reloadRequested \/ pc = "load"

(* The inductive invariant.                                                *)
HotInv == ReloadTypeOK /\ VersionInv /\ PhaseInv /\ FreshInv /\ OnItsWay

-----------------------------------------------------------------------------
(* With require(), Executed says that there was one load at most.          *)
LEMMA OneLoadThen ==
    ASSUME Executed', ~nativeModules', NEW v \in Watch, NEW w \in Watch,
           context'[v] # "none", context'[w] # "none"
    PROVE  v = w
<1>1. PICK S : S = {u \in Watch : context'[u] # "none"}
    OBVIOUS
<1>2. Cardinality(S) <= 1 /\ v \in S /\ w \in S
    BY <1>1 DEF Executed
<1>3. IsFiniteSet(1 .. MaxWatches)
    BY MaxWatchesAssumption, FS_Interval
<1>4. IsFiniteSet(S)
    BY <1>1, <1>3, FS_Subset DEF Watch
<1>5. Cardinality(S) = 1
    BY <1>2, <1>4, FS_CardinalityType, FS_EmptySet
<1>6. PICK x : S = {x}
    BY <1>4, <1>5, FS_Singleton
<1>7. QED BY <1>2, <1>6

(* The first state.                                                        *)
LEMMA ReloadStarts == ReloadInit => HotInv
<1> SUFFICES ASSUME ReloadInit PROVE HotInv
    OBVIOUS
<1>1. ReloadTypeOK
    <2>1. 1 \in Content \ {0} /\ 1 \in 1 .. MaxSaves + 1 /\ 0 \in 0 .. MaxSaves + 1
        BY MaxSavesAssumption DEF Content
    <2>2. /\ disk \in [File -> Content] /\ saved \in [File -> Content \ {0}]
          /\ inode \in 1 .. MaxSaves + 1
        BY <2>1 DEF ReloadInit
    <2>3. /\ moduleCache \in [File -> Content \cup {Nothing}]
          /\ loaded \in [File -> Content \cup {Nothing}]
        BY DEF ReloadInit
    <2>4. /\ context \in [Watch -> {"none", "active", "closing", "closed"}]
          /\ watchedInode \in [Watch -> 0 .. MaxSaves + 1]
        BY <2>1 DEF ReloadInit
    <2>5. QED BY <2>2, <2>3, <2>4 DEF ReloadInit, ReloadTypeOK, Phase
<1>2. VersionInv
    BY DEF ReloadInit, VersionInv, File
<1>3. PhaseInv /\ FreshInv /\ OnItsWay
    BY DEF ReloadInit, PhaseInv, FreshInv, OnItsWay, Stopping, Attached, Active, File
<1>4. QED BY <1>1, <1>2, <1>3 DEF HotInv

(* A watch that has begun stays so, whatever becomes of it: with           *)
(* require(), a second load cannot be undone.                              *)
LEMMA ExecutedBefore ==
    ASSUME nativeModules' = nativeModules, Executed',
           \A w \in Watch : context[w] # "none" => context'[w] # "none"
    PROVE  Executed
<1>1. SUFFICES ASSUME ~nativeModules PROVE Executed
    BY DEF Executed
<1>2. PICK S : S = {w \in Watch : context[w] # "none"}
    OBVIOUS
<1>3. PICK T : T = {w \in Watch : context'[w] # "none"}
    OBVIOUS
<1>4. IsFiniteSet(T)
    <2>1. IsFiniteSet(1 .. MaxWatches)
        BY MaxWatchesAssumption, FS_Interval
    <2>2. QED BY <1>3, <2>1, FS_Subset DEF Watch
<1>5. S \in SUBSET T
    BY <1>2, <1>3
<1>6. Cardinality(S) <= Cardinality(T) /\ Cardinality(S) \in Nat /\ Cardinality(T) \in Nat
    BY <1>4, <1>5, FS_Subset, FS_CardinalityType
<1>7. Cardinality(T) <= 1
    BY <1>1, <1>3 DEF Executed
<1>8. QED BY <1>2, <1>6, <1>7 DEF Executed

(* The watches stay as they are.                                           *)
LEMMA SameWatches ==
    ASSUME UNCHANGED <<nativeModules, watchVars>>
    PROVE  /\ Executed' <=> Executed
           /\ Active' = Active
           /\ Unused' <=> Unused
           /\ inode' = inode => (Attached' <=> Attached)
BY DEF watchVars, Executed, Active, Unused, Attached

-----------------------------------------------------------------------------
(* An editor truncates or writes a file in place: an event, if a watch is  *)
(* attached to it.                                                         *)
LEMMA InPlaceStep ==
    ASSUME HotInv, NEW f \in File, Truncate(f) \/ Write(f)
    PROVE  HotInv'
<1>1. /\ ReloadTypeOK /\ VersionInv /\ PhaseInv /\ FreshInv /\ OnItsWay
    BY DEF HotInv
<1>2. /\ IF f = "entry" THEN Notify ELSE UNCHANGED osEvents
      /\ UNCHANGED <<nativeModules, pc, inode, watchVars, pendingEvents, reloadRequested,
                     loadVars>>
      /\ \/ /\ saved[f] <= MaxSaves /\ saved' = saved
            /\ disk' = [disk EXCEPT ![f] = 0]
         \/ /\ disk[f] = 0 /\ saved' = [saved EXCEPT ![f] = @ + 1]
            /\ disk' = [disk EXCEPT ![f] = saved[f] + 1]
    BY <1>1 DEF Truncate, Write, ReloadTypeOK
<1>3. /\ saved[f] \in Nat /\ saved[f] # 0 /\ saved[f] <= MaxSaves + 1
      /\ osEvents \in Nat /\ MaxSaves \in Nat
    BY <1>1, MaxSavesAssumption DEF ReloadTypeOK, Content
<1>4. saved[f] <= MaxSaves
    BY <1>1, <1>2 DEF VersionInv
<1>5. osEvents' \in Nat /\ osEvents' >= osEvents
    BY <1>2, <1>3 DEF Notify
<1>6. /\ disk' \in [File -> Content] /\ saved' \in [File -> Content \ {0}]
    BY <1>1, <1>2, <1>3, <1>4 DEF ReloadTypeOK, Content
<1>7. ReloadTypeOK'
    BY <1>1, <1>2, <1>5, <1>6 DEF ReloadTypeOK, watchVars, loadVars
<1>8. VersionInv'
    <2>1. \A g \in File : disk'[g] = 0 => saved'[g] <= MaxSaves
        BY <1>1, <1>2, <1>3, <1>4 DEF VersionInv, ReloadTypeOK
    <2>2. /\ saved'["entry"] \in Nat /\ saved["entry"] \in Nat
          /\ saved'["entry"] >= saved["entry"]
        BY <1>1, <1>2, <1>3, <1>6, MaxSavesAssumption DEF ReloadTypeOK, Content, File
    <2>3. QED BY <1>1, <1>2, <2>1, <2>2, MaxSavesAssumption
            DEF VersionInv, ReloadTypeOK, watchVars
<1>9. /\ Executed' <=> Executed
      /\ Active' = Active
      /\ Unused' <=> Unused
      /\ Attached' <=> Attached
    BY <1>2, SameWatches
<1>10. Attached => ~Unused
    BY DEF Attached, Active, Unused
<1>11. PhaseInv'
    BY <1>1, <1>2, <1>9, <1>10 DEF PhaseInv, Stopping, Notify, loadVars
<1>12. FreshInv'
    BY <1>1, <1>2, <1>9 DEF FreshInv, loadVars
<1>13. OnItsWay'
    <2>1. CASE f = "entry" /\ Attached
        <3>1. osEvents' > 0
            BY <1>2, <1>3, <2>1 DEF Notify
        <3>2. QED BY <3>1 DEF OnItsWay
    <2>2. CASE f # "entry"
        <3>1. disk'["entry"] = disk["entry"]
            BY <1>1, <1>2, <2>2 DEF ReloadTypeOK, File
        <3>2. UNCHANGED <<osEvents, pendingEvents, reloadRequested, pc, loaded>>
            BY <1>2, <2>2 DEF loadVars
        <3>3. QED BY <1>1, <1>9, <3>1, <3>2 DEF OnItsWay
    <2>3. CASE ~Attached
        BY <1>9, <2>3 DEF OnItsWay
    <2>4. QED BY <2>1, <2>2, <2>3
<1>14. QED BY <1>7, <1>8, <1>11, <1>12, <1>13 DEF HotInv

(* An editor renames a file over the entry file: no watch is attached to   *)
(* what is there then.                                                     *)
LEMMA RenameStep == ASSUME HotInv, RenameOver PROVE HotInv'
<1>1. /\ ReloadTypeOK /\ VersionInv /\ PhaseInv /\ FreshInv /\ OnItsWay
    BY DEF HotInv
<1>2. PICK v : v = saved["entry"]
    OBVIOUS
<1>3. /\ v <= MaxSaves
      /\ saved' = [saved EXCEPT !["entry"] = v + 1]
      /\ disk' = [disk EXCEPT !["entry"] = v + 1]
      /\ inode' = inode + 1 /\ Notify
      /\ UNCHANGED <<nativeModules, pc, watchVars, pendingEvents, reloadRequested, loadVars>>
    BY <1>1, <1>2 DEF RenameOver, ReloadTypeOK, File
<1>4. /\ v \in Nat /\ v # 0 /\ MaxSaves \in Nat /\ inode \in Nat /\ inode <= v
      /\ osEvents \in Nat
    BY <1>1, <1>2, MaxSavesAssumption DEF ReloadTypeOK, VersionInv, Content, File
<1>5. /\ disk' \in [File -> Content] /\ saved' \in [File -> Content \ {0}]
      /\ inode' \in 1 .. MaxSaves + 1 /\ osEvents' \in Nat
    <2>1. v + 1 \in Content \ {0} /\ inode + 1 \in 1 .. MaxSaves + 1
        BY <1>3, <1>4 DEF Content
    <2>2. /\ disk' \in [File -> Content] /\ saved' \in [File -> Content \ {0}]
        BY <1>1, <1>3, <2>1 DEF ReloadTypeOK
    <2>3. osEvents' \in Nat
        BY <1>3, <1>4 DEF Notify
    <2>4. QED BY <1>3, <2>1, <2>2, <2>3
<1>6. ReloadTypeOK'
    BY <1>1, <1>3, <1>5 DEF ReloadTypeOK, watchVars, loadVars
<1>7. \A w \in Watch : watchedInode'[w] < inode'
    BY <1>1, <1>3, <1>4, MaxSavesAssumption DEF VersionInv, ReloadTypeOK, watchVars
<1>8. VersionInv'
    <2>1. \A g \in File : disk'[g] = 0 => saved'[g] <= MaxSaves
        BY <1>1, <1>3, <1>4 DEF VersionInv, ReloadTypeOK
    <2>2. saved'["entry"] = v + 1
        BY <1>1, <1>3 DEF ReloadTypeOK, File
    <2>3. \A w \in Watch : watchedInode'[w] <= inode'
        BY <1>4, <1>5, <1>6, <1>7, MaxSavesAssumption DEF ReloadTypeOK
    <2>4. QED BY <1>3, <1>4, <2>1, <2>2, <2>3 DEF VersionInv
<1>9. Active' = Active /\ (Executed' <=> Executed) /\ (Unused' <=> Unused)
    BY <1>3, SameWatches
<1>10. ~Attached'
    BY <1>4, <1>5, <1>6, <1>7, MaxSavesAssumption DEF Attached, Active, ReloadTypeOK
<1>11. Attached => ~Unused
    BY DEF Attached, Active, Unused
<1>12. PhaseInv' /\ FreshInv'
    BY <1>1, <1>3, <1>9, <1>11 DEF PhaseInv, FreshInv, Stopping, Notify, loadVars
<1>13. OnItsWay'
    BY <1>10 DEF OnItsWay
<1>14. QED BY <1>6, <1>8, <1>12, <1>13 DEF HotInv

(* loadScript: what is on disk is going to be read.  With require(), only  *)
(* the first one counts.                                                   *)
LEMMA LoadScriptStep ==
    ASSUME HotInv, NEW started \in BOOLEAN, LoadScript(started)
    PROVE  HotInv'
<1>1. /\ ReloadTypeOK /\ VersionInv /\ PhaseInv /\ FreshInv /\ OnItsWay
    BY DEF HotInv
<1>2. PICK w \in Watch :
          /\ context[w] = "none"
          /\ context' = [Unwatched({watchId}) EXCEPT
                            ![w] = IF started THEN "active" ELSE "closing"]
          /\ watches' = (watches \ {watchId}) \cup (IF started THEN {w} ELSE {})
          /\ watchId' = IF started THEN w ELSE 0
          /\ watchedInode' = [watchedInode EXCEPT ![w] = IF started THEN inode ELSE 0]
    BY DEF LoadScript
<1>3. /\ pc = "idle" /\ osEvents' = 0 /\ pc' = "load"
      /\ UNCHANGED <<fileVars, pendingEvents, reloadRequested, loadVars>>
    BY DEF LoadScript
<1>4. /\ context' \in [Watch -> {"none", "active", "closing", "closed"}]
      /\ watchedInode' \in [Watch -> 0 .. MaxSaves + 1]
      /\ watches' \subseteq Watch /\ watchId' \in Watch \cup {0}
    <2>1. inode \in 0 .. MaxSaves + 1
        BY <1>1, MaxSavesAssumption DEF ReloadTypeOK
    <2>2. QED BY <1>1, <1>2, <2>1, MaxSavesAssumption DEF ReloadTypeOK, Unwatched
<1>5. ReloadTypeOK'
    BY <1>1, <1>3, <1>4 DEF ReloadTypeOK, fileVars, loadVars, Phase
<1>6. VersionInv'
    BY <1>1, <1>2, <1>3, MaxSavesAssumption DEF VersionInv, ReloadTypeOK, fileVars
<1>7. context'[w] # "none" /\ \A u \in Watch : context[u] # "none" => context'[u] # "none"
    BY <1>1, <1>2 DEF ReloadTypeOK, Unwatched
<1>8. PhaseInv'
    BY <1>1, <1>3, <1>7 DEF PhaseInv, Unused, Stopping
<1>9. FreshInv'
    <2>1. SUFFICES ASSUME Executed', ~nativeModules' PROVE moduleCache'["entry"] = Nothing
        BY DEF FreshInv
    <2>2. ASSUME NEW u \in Watch, context[u] # "none" PROVE FALSE
        <3>1. u = w
            BY <1>7, <2>1, <2>2, OneLoadThen
        <3>2. QED BY <1>2, <2>2, <3>1
    <2>3. Unused
        BY <2>2 DEF Unused
    <2>4. QED BY <1>1, <1>3, <2>3 DEF PhaseInv, loadVars
<1>10. OnItsWay'
    BY <1>3 DEF OnItsWay
<1>11. QED BY <1>5, <1>6, <1>8, <1>9, <1>10 DEF HotInv

(* uv_run: the events change hands, and watches are closed.                *)
LEMMA RunOnceStep == ASSUME HotInv, RunOnce PROVE HotInv'
<1>1. /\ ReloadTypeOK /\ VersionInv /\ PhaseInv /\ FreshInv /\ OnItsWay
    BY DEF HotInv
<1>2. /\ pc = "idle" /\ pc' = "events"
      /\ pendingEvents' = pendingEvents + osEvents /\ osEvents' = 0
      /\ context' = [w \in Watch |-> IF context[w] = "closing" THEN "closed" ELSE context[w]]
      /\ UNCHANGED <<fileVars, watches, watchId, watchedInode, reloadRequested, loadVars>>
    BY DEF RunOnce
<1>3. /\ pendingEvents' \in Nat
      /\ osEvents > 0 \/ pendingEvents > 0 => pendingEvents' > 0
      /\ osEvents = 0 /\ pendingEvents = 0 => pendingEvents' = 0
    BY <1>1, <1>2 DEF ReloadTypeOK
<1>4. context' \in [Watch -> {"none", "active", "closing", "closed"}]
    BY <1>1, <1>2 DEF ReloadTypeOK
<1>5. ReloadTypeOK'
    BY <1>1, <1>2, <1>3, <1>4 DEF ReloadTypeOK, fileVars, loadVars, Phase
<1>6. VersionInv'
    BY <1>1, <1>2 DEF VersionInv, fileVars
<1>7. \A w \in Watch : /\ context'[w] = "none" <=> context[w] = "none"
                       /\ context'[w] = "active" <=> context[w] = "active"
    BY <1>1, <1>2 DEF ReloadTypeOK
<1>8. Active' = Active /\ (Unused' <=> Unused)
    BY <1>7 DEF Active, Unused
<1>9. Attached' <=> Attached
    BY <1>2, <1>8 DEF Attached, fileVars
<1>10. Executed' => Executed
    BY <1>2, <1>7, ExecutedBefore DEF fileVars
<1>11. PhaseInv'
    BY <1>1, <1>2, <1>3, <1>8 DEF PhaseInv, Stopping, loadVars
<1>12. FreshInv'
    BY <1>2 DEF FreshInv
<1>13. OnItsWay'
    BY <1>1, <1>2, <1>3, <1>9, <1>10 DEF OnItsWay, fileVars, loadVars
<1>14. QED BY <1>5, <1>6, <1>11, <1>12, <1>13 DEF HotInv

(* processPendingEvents: an event becomes a request.                       *)
LEMMA PendingStep == ASSUME HotInv, ProcessPendingEvents PROVE HotInv'
<1>1. /\ ReloadTypeOK /\ VersionInv /\ PhaseInv /\ FreshInv /\ OnItsWay
    BY DEF HotInv
<1>2. /\ pc = "events" /\ pc' = "check" /\ pendingEvents' = 0
      /\ reloadRequested' = (reloadRequested \/ pendingEvents > 0)
      /\ UNCHANGED <<fileVars, watchVars, osEvents, loadVars>>
    BY DEF ProcessPendingEvents
<1>3. reloadRequested' \in BOOLEAN
    BY <1>2
<1>4. ReloadTypeOK'
    BY <1>1, <1>2, <1>3 DEF ReloadTypeOK, fileVars, watchVars, loadVars, Phase
<1>5. VersionInv'
    BY <1>1, <1>2 DEF VersionInv, fileVars, watchVars
<1>6. /\ Executed' <=> Executed
      /\ Unused' <=> Unused
      /\ Attached' <=> Attached
    BY <1>2, SameWatches DEF fileVars
<1>7. PhaseInv'
    <2>1. ~Stopping' /\ ~(pendingEvents' > 0) /\ UNCHANGED <<osEvents, moduleCache>>
        BY <1>2 DEF Stopping, loadVars
    <2>2. ASSUME Unused'
          PROVE  moduleCache["entry"] = Nothing /\ osEvents = 0 /\ ~reloadRequested'
        <3>1. /\ moduleCache["entry"] = Nothing /\ osEvents = 0
              /\ pendingEvents = 0 /\ ~reloadRequested
            BY <1>1, <1>6, <2>2 DEF PhaseInv
        <3>2. ~(pendingEvents > 0)
            BY <3>1
        <3>3. ~reloadRequested'
            BY <1>2, <3>1, <3>2, Zenon
        <3>4. QED BY <3>1, <3>3
    <2>3. QED BY <1>2, <2>1, <2>2 DEF PhaseInv
<1>8. FreshInv'
    BY <1>2 DEF FreshInv
<1>9. OnItsWay'
    BY <1>1, <1>2, <1>6 DEF OnItsWay, fileVars, loadVars
<1>10. QED BY <1>4, <1>5, <1>7, <1>8, <1>9 DEF HotInv

(* The flag is not set, or it is taken down and a load begins.             *)
LEMMA CheckStep == ASSUME HotInv, NoReload \/ ReloadScript PROVE HotInv'
<1>1. /\ ReloadTypeOK /\ VersionInv /\ PhaseInv /\ FreshInv /\ OnItsWay
    BY DEF HotInv
<1>2. /\ pc = "check" /\ reloadRequested' = FALSE
      /\ UNCHANGED <<fileVars, watchVars, osEvents, pendingEvents, loaded>>
      /\ \/ pc' = "idle" /\ ~reloadRequested /\ moduleCache' = moduleCache
         \/ /\ pc' = "load" /\ reloadRequested
            /\ moduleCache' = IF nativeModules THEN moduleCache
                                               ELSE [f \in File |-> Nothing]
    BY <1>1 DEF NoReload, ReloadScript, eventVars, loadVars, ReloadTypeOK
<1>3. moduleCache' \in [File -> Content \cup {Nothing}]
    BY <1>1, <1>2 DEF ReloadTypeOK
<1>4. ReloadTypeOK'
    BY <1>1, <1>2, <1>3 DEF ReloadTypeOK, fileVars, watchVars, Phase
<1>5. VersionInv'
    BY <1>1, <1>2 DEF VersionInv, fileVars, watchVars
<1>6. /\ Executed' <=> Executed
      /\ Unused' <=> Unused
      /\ Attached' <=> Attached
    BY <1>2, SameWatches DEF fileVars
<1>7. PhaseInv'
    BY <1>1, <1>2, <1>6 DEF PhaseInv, Stopping
<1>8. FreshInv'
    BY <1>2 DEF FreshInv, fileVars, File
<1>9. OnItsWay'
    BY <1>1, <1>2, <1>6 DEF OnItsWay, PhaseInv, fileVars
<1>10. QED BY <1>4, <1>5, <1>7, <1>8, <1>9 DEF HotInv

(* The entry file is read: nothing has to be on its way any more.          *)
LEMMA EntryStep == ASSUME HotInv, LoadEntryFile PROVE HotInv'
<1>1. /\ ReloadTypeOK /\ VersionInv /\ PhaseInv /\ FreshInv /\ OnItsWay
    BY DEF HotInv
<1>2. /\ pc = "load" /\ pc' \in {"idle", "import"}
      /\ UNCHANGED <<fileVars, watchVars, eventVars>>
      /\ \/ ~nativeModules /\ moduleCache["entry"] # Nothing /\ UNCHANGED loadVars
         \/ /\ loaded' = [entry |-> disk["entry"], import |-> Nothing]
            /\ moduleCache' = IF nativeModules THEN moduleCache
                                 ELSE [moduleCache EXCEPT !["entry"] = disk["entry"]]
    BY DEF LoadEntryFile
<1>3. /\ disk["entry"] \in Content
      /\ moduleCache' \in [File -> Content \cup {Nothing}]
      /\ loaded' \in [File -> Content \cup {Nothing}]
    <2>1. disk["entry"] \in Content
        BY <1>1 DEF ReloadTypeOK, File
    <2>2. [entry |-> disk["entry"], import |-> Nothing]
              = [f \in File |-> IF f = "entry" THEN disk["entry"] ELSE Nothing]
        BY DEF File
    <2>3. loaded' \in [File -> Content \cup {Nothing}]
        BY <1>1, <1>2, <2>1, <2>2 DEF ReloadTypeOK, loadVars
    <2>4. moduleCache' \in [File -> Content \cup {Nothing}]
        BY <1>1, <1>2, <2>1 DEF ReloadTypeOK, loadVars
    <2>5. QED BY <2>1, <2>3, <2>4
<1>4. ReloadTypeOK'
    BY <1>1, <1>2, <1>3 DEF ReloadTypeOK, fileVars, watchVars, eventVars, Phase
<1>5. VersionInv'
    BY <1>1, <1>2 DEF VersionInv, fileVars, watchVars
<1>6. /\ Executed' <=> Executed
      /\ Unused' <=> Unused
    BY <1>2, SameWatches DEF fileVars
<1>7. ~Unused
    BY <1>1, <1>2 DEF PhaseInv
<1>8. PhaseInv'
    BY <1>1, <1>2, <1>6, <1>7 DEF PhaseInv, Stopping, eventVars
<1>9. FreshInv'
    BY <1>2 DEF FreshInv
<1>10. OnItsWay'
    <2>1. SUFFICES ASSUME Executed' PROVE loaded'["entry"] = disk'["entry"]
        BY DEF OnItsWay
    <2>2. nativeModules \/ moduleCache["entry"] = Nothing
        BY <1>1, <1>2, <1>6, <2>1 DEF FreshInv
    <2>3. loaded'["entry"] = disk["entry"]
        BY <1>1, <1>2, <2>2 DEF ReloadTypeOK
    <2>4. QED BY <1>2, <2>3 DEF fileVars
<1>11. QED BY <1>4, <1>5, <1>8, <1>9, <1>10 DEF HotInv

(* The import is resolved: the entry file is not concerned.                *)
LEMMA ImportStep == ASSUME HotInv, ImportModule PROVE HotInv'
<1>1. /\ ReloadTypeOK /\ VersionInv /\ PhaseInv /\ FreshInv /\ OnItsWay
    BY DEF HotInv
<1>2. PICK source :
          /\ source = IF moduleCache["import"] # Nothing THEN moduleCache["import"]
                                                         ELSE disk["import"]
          /\ loaded' = [loaded EXCEPT !["import"] = source]
          /\ moduleCache' = [moduleCache EXCEPT !["import"] = source]
    BY DEF ImportModule
<1>3. pc = "import" /\ pc' = "idle" /\ UNCHANGED <<fileVars, watchVars, eventVars>>
    BY DEF ImportModule
<1>4. source \in Content \cup {Nothing}
    BY <1>1, <1>2 DEF ReloadTypeOK, File
<1>5. /\ loaded' \in [File -> Content \cup {Nothing}]
      /\ moduleCache' \in [File -> Content \cup {Nothing}]
      /\ loaded'["entry"] = loaded["entry"]
      /\ moduleCache'["entry"] = moduleCache["entry"]
    BY <1>1, <1>2, <1>4 DEF ReloadTypeOK, File
<1>6. ReloadTypeOK'
    BY <1>1, <1>3, <1>5 DEF ReloadTypeOK, fileVars, watchVars, eventVars, Phase
<1>7. VersionInv'
    BY <1>1, <1>3 DEF VersionInv, fileVars, watchVars
<1>8. /\ Executed' <=> Executed
      /\ Unused' <=> Unused
      /\ Attached' <=> Attached
    BY <1>3, SameWatches DEF fileVars
<1>9. PhaseInv'
    BY <1>1, <1>3, <1>5, <1>8 DEF PhaseInv, Stopping, eventVars
<1>10. FreshInv'
    BY <1>3 DEF FreshInv
<1>11. OnItsWay'
    BY <1>1, <1>3, <1>5, <1>8 DEF OnItsWay, fileVars, eventVars
<1>12. QED BY <1>6, <1>7, <1>9, <1>10, <1>11 DEF HotInv

(* The runtime stops: no watch is left.                                    *)
LEMMA StopStep == ASSUME HotInv, Shutdown \/ EventLoopDrained PROVE HotInv'
<1>1. /\ ReloadTypeOK /\ VersionInv /\ PhaseInv /\ FreshInv /\ OnItsWay
    BY DEF HotInv
<1>2. /\ pc \in {"idle", "drain"} /\ pc' \in {"drain", "down"}
      /\ watches' \in {{}, watches} /\ osEvents' \in {0, osEvents}
      /\ UNCHANGED <<fileVars, watchId, watchedInode, pendingEvents, reloadRequested,
                     loadVars>>
    BY DEF Shutdown, EventLoopDrained, eventVars
<1>3. /\ context' \in [Watch -> {"none", "active", "closing", "closed"}]
      /\ \A w \in Watch : /\ context'[w] # "active"
                          /\ context'[w] = "none" <=> context[w] = "none"
    <2>1. CASE Shutdown
        BY <1>1, <2>1 DEF Shutdown, Unwatched, Active, ReloadTypeOK
    <2>2. CASE EventLoopDrained
        <3>1. Active = {}
            BY <1>1, <2>2 DEF EventLoopDrained, PhaseInv, Stopping
        <3>2. QED BY <1>1, <2>2, <3>1 DEF EventLoopDrained, Active, ReloadTypeOK
    <2>3. QED BY <2>1, <2>2
<1>4. ReloadTypeOK'
    BY <1>1, <1>2, <1>3 DEF ReloadTypeOK, fileVars, loadVars, Phase
<1>5. VersionInv'
    BY <1>1, <1>2 DEF VersionInv, fileVars
<1>6. Active' = {} /\ ~Attached' /\ (Unused' <=> Unused)
    BY <1>3 DEF Active, Attached, Unused
<1>7. PhaseInv'
    BY <1>1, <1>2, <1>6 DEF PhaseInv, loadVars
<1>8. FreshInv' /\ OnItsWay'
    BY <1>2, <1>6 DEF FreshInv, OnItsWay
<1>9. QED BY <1>4, <1>5, <1>7, <1>8 DEF HotInv

-----------------------------------------------------------------------------
(* The invariant is inductive, and holds in every state.                   *)
THEOREM ReloadInvariance == ReloadSpec => []HotInv
<1>1. HotInv /\ [ReloadNext]_reloadVars => HotInv'
    <2>1. SUFFICES ASSUME HotInv, [ReloadNext]_reloadVars PROVE HotInv'
        OBVIOUS
    <2>2. CASE Editor
        BY <2>1, <2>2, InPlaceStep, RenameStep DEF Editor
    <2>3. CASE \E started \in BOOLEAN : LoadScript(started)
        BY <2>1, <2>3, LoadScriptStep
    <2>4. CASE MainThread
        BY <2>1, <2>4, RunOnceStep, PendingStep, CheckStep, EntryStep, ImportStep, StopStep
            DEF MainThread
    <2>5. CASE Shutdown
        BY <2>1, <2>5, StopStep
    <2>6. CASE UNCHANGED reloadVars
        <3>1. /\ Executed' <=> Executed
              /\ Active' = Active
              /\ Unused' <=> Unused
              /\ Attached' <=> Attached
            BY <2>6, SameWatches DEF reloadVars, fileVars
        <3>2. ReloadTypeOK' /\ VersionInv'
            BY <2>1, <2>6 DEF HotInv, ReloadTypeOK, VersionInv, reloadVars, fileVars,
                watchVars, eventVars, loadVars
        <3>3. PhaseInv' /\ FreshInv' /\ OnItsWay'
            BY <2>1, <2>6, <3>1 DEF HotInv, PhaseInv, FreshInv, OnItsWay, Stopping, reloadVars,
                fileVars, eventVars, loadVars
        <3>4. QED BY <3>2, <3>3 DEF HotInv
    <2>7. QED BY <2>1, <2>2, <2>3, <2>4, <2>5, <2>6 DEF ReloadNext
<1>2. QED BY <1>1, ReloadStarts, PTL DEF ReloadSpec

(* No save is missed while a watch is attached to the file: when the loop  *)
(* is idle and nothing is on its way, the script that runs is the one on   *)
(* disk, however the saves fell into the loads.                            *)
THEOREM NoSaveIsMissed == ReloadSpec => []NothingMissed
<1>1. HotInv => NothingMissed
    <2>1. SUFFICES ASSUME HotInv, pc = "idle", Attached, osEvents = 0, Executed
                   PROVE  loaded["entry"] = disk["entry"]
        BY DEF NothingMissed
    <2>2. ~(pendingEvents > 0) /\ ~reloadRequested /\ ~(osEvents > 0)
        BY <2>1 DEF HotInv, PhaseInv
    <2>3. QED BY <2>1, <2>2 DEF HotInv, OnItsWay
<1>2. QED BY <1>1, ReloadInvariance, PTL
=============================================================================
