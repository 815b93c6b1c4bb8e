---------------------------- MODULE QuickJsHandles ----------------------------
(***************************************************************************)
(* The lifetime of JSValueHandles on QuickJS                               *)
(* (src/src/js/quickjs_engine.cpp).                                        *)
(*                                                                         *)
(* A handle is a box, a JSValue on the heap, that owns one reference to    *)
(* its value; protect() adds one.  QuickJS destroys a value with its last  *)
(* reference.  Boxes that native code makes are not tracked: one that is   *)
(* not protected is forgotten when its call returns, together with its     *)
(* reference.                                                              *)
(*                                                                         *)
(* activations[1] is the host, which calls into the script between frames. *)
(*                                                                         *)
(* The end of a native call reads and deletes the boxes of its arguments.  *)
(* Two natives leave it none to read: __httpRequestAsync, which on a       *)
(* refusal unprotects an argument of its own call (runtime.cpp:1731-1766), *)
(* and connect() of audio nodes, which returns its argument                *)
(* (audio_bindings.cpp:139, 204), deleted before the result is read.  What *)
(* the program does then is not defined; the model ends there (misused).   *)
(***************************************************************************)
EXTENDS Integers, Sequences, TLC

CONSTANTS
    Box,        \* Addresses of boxes
    Object,     \* JavaScript objects
    NoObject,   \* What a box that is not allocated holds
    MaxRefs,    \* Bound: references to an object
    MaxNesting  \* Bound: the host and the native calls nested in it

ASSUME NoObjectAssumption == NoObject \notin Object
ASSUME BoundsAssumption   == MaxRefs \in Nat \ {0} /\ MaxNesting \in Nat \ {0}

VARIABLES
    box,               \* box[h]: the object in h, NoObject if h is not allocated
    refs,              \* refs[o]: the reference count of o, 0: destroyed
    script,            \* script[o]: the references of the script, by what
                       \*    it was given and what it has dropped
    born,              \* the objects that have been created
    protectedBoxes,    \* g_protectedHandles
    keptBoxes,         \* what native code keeps: timers, listeners, caches
    activations,       \* the host and the native calls in progress
    handedOut,         \* kept objects that a native function has returned
    misused            \* history: a box has been used after it was deleted

quickVars == <<box, refs, script, born, protectedBoxes, keptBoxes, activations, handedOut, misused>>

Live == {h \in Box : box[h] # NoObject}
(* The arguments, those that the call has unprotected, and what it made.   *)
Activation == [args : SUBSET Box, disposed : SUBSET Box, locals : SUBSET Box]
Host       == [args |-> {}, disposed |-> {}, locals |-> {}]
Innermost  == activations[Len(activations)]
ArgumentBoxes(c) == c.args \ c.disposed
BoxesOf(c) == ArgumentBoxes(c) \cup c.locals
BoxesInUse == UNION {BoxesOf(activations[i]) : i \in 1 .. Len(activations)}

QuickInit ==
    /\ box = [h \in Box |-> NoObject]
    /\ refs = [o \in Object |-> 0] /\ script = [o \in Object |-> 0] /\ born = {}
    /\ protectedBoxes = {} /\ keptBoxes = {} /\ handedOut = {}
    /\ activations = <<Host>>
    /\ misused = FALSE

-----------------------------------------------------------------------------
(* JS_DupValue and JS_FreeValue.                                           *)
Dup(o) ==
    /\ refs[o] \in 1 .. MaxRefs - 1
    /\ refs' = [refs EXCEPT ![o] = @ + 1]

Freed(o, n) == [refs EXCEPT ![o] = IF @ < n THEN 0 ELSE @ - n]

AddLocal(h) == activations' = [activations EXCEPT ![Len(activations)].locals = @ \cup {h}]

(* newObject, newFunction, ...                                             *)
NewObject(h, o) ==
    /\ h \notin Live /\ o \notin born
    /\ box' = [box EXCEPT ![h] = o]
    /\ refs' = [refs EXCEPT ![o] = 1]
    /\ born' = born \cup {o}
    /\ AddLocal(h)
    /\ UNCHANGED <<script, protectedBoxes, keptBoxes, handedOut, misused>>

(* getProperty, call, evalScriptWithResult, ...: the native code gets a    *)
(* value that the script has.                                              *)
GetValue(h, o) ==
    /\ h \notin Live /\ script[o] > 0
    /\ box' = [box EXCEPT ![h] = o]
    /\ Dup(o)
    /\ AddLocal(h)
    /\ UNCHANGED <<script, born, protectedBoxes, keptBoxes, handedOut, misused>>

(* Mutant: the value is not duplicated.                                    *)
GiveWithoutDup(h) ==
    /\ h \in BoxesOf(Innermost) \cup keptBoxes
    /\ refs[box[h]] > 0
    /\ script[box[h]] < MaxRefs
    /\ script' = [script EXCEPT ![box[h]] = @ + 1]
    /\ UNCHANGED <<box, refs, born, protectedBoxes, keptBoxes, activations, handedOut, misused>>

(* setProperty, or an argument of call(): the script gets a value that the *)
(* running code uses or keeps.                                             *)
GiveToScript(h) ==
    /\ h \in BoxesOf(Innermost) \cup keptBoxes
    /\ Dup(box[h])
    /\ script[box[h]] < MaxRefs
    /\ script' = [script EXCEPT ![box[h]] = @ + 1]
    /\ UNCHANGED <<box, born, protectedBoxes, keptBoxes, activations, handedOut, misused>>

(* The script overwrites a variable or loses a property.                   *)
ScriptDrops(o) ==
    /\ script[o] > 0
    /\ script' = [script EXCEPT ![o] = @ - 1]
    /\ refs' = Freed(o, 1)
    /\ UNCHANGED <<box, born, protectedBoxes, keptBoxes, activations, handedOut, misused>>

ProtectBox(h) ==
    /\ h \in BoxesOf(Innermost) \ keptBoxes
    /\ Dup(box[h])
    /\ keptBoxes' = keptBoxes \cup {h}
    /\ protectedBoxes' = protectedBoxes \cup {h}
    /\ UNCHANGED <<box, script, born, activations, handedOut, misused>>

(* As a rule native code unprotects what it keeps once no other call uses  *)
(* it.                                                                     *)
DisposableBox(h) ==
    /\ h \in keptBoxes
    /\ \A i \in 1 .. Len(activations) :
          /\ h \notin ArgumentBoxes(activations[i])
          /\ i < Len(activations) => h \notin activations[i].locals

Deleted(h) ==
    /\ refs' = Freed(box[h], 1)
    /\ box' = [box EXCEPT ![h] = NoObject]
    /\ keptBoxes' = keptBoxes \ {h}
    /\ protectedBoxes' = protectedBoxes \ {h}
    /\ UNCHANGED <<script, born, handedOut, misused>>

UnprotectBox(h) ==
    /\ DisposableBox(h)
    /\ Deleted(h)
    /\ activations' = [activations EXCEPT ![Len(activations)].locals = @ \ {h}]

(* The exception: a call unprotects the argument that it has protected.    *)
UnprotectArgumentBox(h) ==
    /\ h \in keptBoxes \cap ArgumentBoxes(Innermost)
    /\ Deleted(h)
    /\ activations' = [activations EXCEPT ![Len(activations)].disposed = @ \cup {h}]

-----------------------------------------------------------------------------
(* nativeCallback: the script calls a native function with o, in a box of  *)
(* its own.                                                                *)
NativeCallback(h, o) ==
    /\ Len(activations) < MaxNesting
    /\ h \notin Live /\ script[o] > 0
    /\ box' = [box EXCEPT ![h] = o]
    /\ Dup(o)
    /\ activations' = Append(activations, [args |-> {h}, disposed |-> {}, locals |-> {}])
    /\ UNCHANGED <<script, born, protectedBoxes, keptBoxes, handedOut, misused>>

(* The boxes that nobody knows after the call: they, and the references of *)
(* all but the arguments, are lost, not released.                          *)
Forgotten(c) == BoxesOf(c) \ protectedBoxes

PopCall ==
    /\ Len(activations) > 1
    /\ activations' = SubSeq(activations, 1, Len(activations) - 1)
    /\ box' = [h \in Box |-> IF h \in Forgotten(Innermost) THEN NoObject ELSE box[h]]
    /\ UNCHANGED <<born, protectedBoxes, keptBoxes>>

(* The end of the call reads the boxes of the arguments that nobody keeps, *)
(* those too that are no longer there.                                     *)
ReadsDeleted == Innermost.disposed \ protectedBoxes # {}

(* The references that the arguments of the call give back.                *)
SpentRefs(o) == IF \E h \in Innermost.args \ protectedBoxes : box[h] = o THEN 1 ELSE 0

(* Mutant: the arguments are deleted, whoever has protected them.          *)
ReturnDeletesArguments ==
    /\ Len(activations) > 1
    /\ activations' = SubSeq(activations, 1, Len(activations) - 1)
    /\ box' = [h \in Box |->
                  IF h \in Innermost.args \cup Forgotten(Innermost) THEN NoObject ELSE box[h]]
    /\ UNCHANGED <<born, protectedBoxes, keptBoxes>>
    /\ refs' = [o \in Object |-> Freed(o, SpentRefs(o))[o]]
    /\ misused' = ReadsDeleted
    /\ UNCHANGED <<script, handedOut>>

(* nativeCallback: the function returns nothing the model knows.           *)
ReturnUndefined ==
    /\ PopCall
    /\ refs' = [o \in Object |-> Freed(o, SpentRefs(o))[o]]
    /\ misused' = ReadsDeleted
    /\ UNCHANGED <<script, handedOut>>

(* The function returns a handle that it made, that native code keeps, or  *)
(* an argument: the reference of the box becomes the script's, of a kept   *)
(* box as well.  The box of an argument is deleted before it is read.      *)
ReturnHandle(r) ==
    /\ r \in BoxesOf(Innermost) \cup keptBoxes
    /\ PopCall
    /\ script[box[r]] < MaxRefs
    /\ script' = [script EXCEPT ![box[r]] = @ + 1]
    /\ refs' = [o \in Object |-> Freed(o, SpentRefs(o))[o]]
    /\ handedOut' = IF r \in keptBoxes THEN handedOut \cup {box[r]} ELSE handedOut
    /\ misused' = (ReadsDeleted \/ r \in Innermost.args \ protectedBoxes)

(* The host has returned to the operating system.                          *)
HostReturns ==
    /\ Len(activations) = 1
    /\ activations' = <<Host>>
    /\ box' = [h \in Box |-> IF h \in Forgotten(Innermost) THEN NoObject ELSE box[h]]
    /\ UNCHANGED <<refs, script, born, protectedBoxes, keptBoxes, handedOut, misused>>

-----------------------------------------------------------------------------
QuickStep ==
    \/ \E h \in Box, o \in Object : NewObject(h, o) \/ GetValue(h, o) \/ NativeCallback(h, o)
    \/ \E h \in Box : GiveToScript(h) \/ ProtectBox(h) \/ ReturnHandle(h)
    \/ \E h \in Box : UnprotectBox(h) \/ UnprotectArgumentBox(h)
    \/ \E o \in Object : ScriptDrops(o)
    \/ ReturnUndefined
    \/ HostReturns

(* Nothing is said of what follows once a box is misused.                  *)
QuickNext == ~misused /\ QuickStep

QuickSpec == QuickInit /\ [][QuickNext]_quickVars

(* Boxes, and objects, are interchangeable (for TLC).                      *)
BoxSymmetry == Permutations(Box) \cup Permutations(Object)

-----------------------------------------------------------------------------
(* The types of the variables.                                             *)
QuickTypeOK ==
    /\ box \in [Box -> Object \cup {NoObject}]
    /\ refs \in [Object -> 0 .. MaxRefs] /\ script \in [Object -> 0 .. MaxRefs]
    /\ born \subseteq Object /\ handedOut \subseteq Object
    /\ protectedBoxes \subseteq Box /\ keptBoxes \subseteq Box
    /\ activations \in Seq(Activation) /\ Len(activations) \in 1 .. MaxNesting
    /\ misused \in BOOLEAN

(* What native code keeps, and what an unfinished call uses but for the    *)
(* argument it has unprotected itself, is allocated, however the calls     *)
(* nest, up to the first return of a call that has unprotected its         *)
(* argument, or returns it unprotected (NoBoxIsUsedAfterwards).            *)
BoxesAreAllocated == ~misused => keptBoxes \cup BoxesInUse \subseteq Live

(* The object in a kept box exists, and so does an object of the script,   *)
(* unless a native function has returned a box that it also keeps, or a    *)
(* box has been used after it was deleted.                                 *)
KeptObjectsExist ==
    ~misused => \A o \in Object \ handedOut :
        (script[o] > 0 \/ \E h \in keptBoxes : box[h] = o) => refs[o] > 0

(* "Protect a value from garbage collection" (engine.h): the object in a   *)
(* kept box exists (not so, see README).                                   *)
ProtectedObjectsExist == \A h \in keptBoxes : refs[box[h]] > 0

(* "Skip handles that were protected during the callback" (nativeCallback):*)
(* whatever a call does with its arguments, its end reads no box that was  *)
(* deleted (not so, see README).                                           *)
NoBoxIsUsedAfterwards == ~misused

(* "Allow a value to be garbage collected" (engine.h): an object that      *)
(* neither the script nor native code has any more is destroyed.           *)
UnprotectedObjectsGo ==
    \A o \in Object :
        script[o] = 0 /\ (\A h \in Live : box[h] # o) => refs[o] = 0
=============================================================================
