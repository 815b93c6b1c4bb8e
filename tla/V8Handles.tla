------------------------------ MODULE V8Handles ------------------------------
(***************************************************************************)
(* The lifetime of JSValueHandles on V8 (src/src/js/v8_engine.cpp).        *)
(*                                                                         *)
(* A handle is a v8::Persistent on the heap.  Whoever holds the pointer    *)
(* has to know when it is deleted: the arguments of a native call are      *)
(* deleted when the call returns, handles that native code makes are       *)
(* deleted at the end of the animation frame, both unless they have been   *)
(* protected, and a protected handle is deleted by unprotect().  The       *)
(* C++ object behind a JavaScript function made by native code is deleted  *)
(* at the end of the frame in which it was made, unless tracking was       *)
(* suspended.                                                              *)
(*                                                                         *)
(* An address may be used again once it is free.  Native code protects     *)
(* what it keeps, and unprotects a handle once no unfinished call uses it, *)
(* with one exception: __httpRequestAsync protects its third argument, and *)
(* a request that is refused on the spot unprotects it in the same call    *)
(* (runtime.cpp:1731-1766, RefuseRequest of AsyncHttp).  The end of that   *)
(* call deletes the argument again; what the program does then is not      *)
(* defined, and the model ends there (corrupted).                          *)
(***************************************************************************)
EXTENDS Integers, Sequences, TLC

CONSTANTS
    Handle,     \* Addresses of Persistents
    Function,   \* Addresses of NativeFunctions
    MaxDepth    \* Bound: native calls that are nested in one another

ASSUME MaxDepthAssumption == MaxDepth \in Nat

VARIABLES
    live,              \* the handles that are allocated
    frameHandles,      \* frameHandles_
    protectedHandles,  \* g_protectedHandles
    kept,              \* what native code keeps: timers, listeners, caches
    calls,             \* the native calls in progress, the innermost last
    returnedArguments, \* arguments that their call has returned
    inFrame,           \* inFrame_
    native,            \* native[f]: the C++ object of function f, see Native
    held,              \* the functions the script can still call
    corrupted          \* history: memory that was free has been freed again

handleVars   == <<live, frameHandles, protectedHandles, kept>>
functionVars == <<native, held>>
vars == <<handleVars, calls, returnedArguments, inFrame, functionVars, corrupted>>

(* none     not allocated              engine   until the engine goes      *)
(* frame    in frameNativeFunctions_   freed    deleted, with a function   *)
(*                                              that refers to it          *)
Native == {"none", "frame", "engine", "freed"}

(* The arguments, those that the call has unprotected, and what it made.   *)
Call == [args : SUBSET Handle, disposed : SUBSET Handle, locals : SUBSET Handle]
Top == calls[Len(calls)]
Arguments(c) == c.args \ c.disposed
UsedBy(c) == Arguments(c) \cup c.locals
InUse == UNION {UsedBy(calls[i]) : i \in 1 .. Len(calls)}

-----------------------------------------------------------------------------
Init ==
    /\ live = {} /\ frameHandles = {} /\ protectedHandles = {} /\ kept = {}
    /\ calls = <<>> /\ returnedArguments = {} /\ inFrame = FALSE
    /\ native = [f \in Function |-> "none"] /\ held = {}
    /\ corrupted = FALSE

(* nativeCallback: the script calls a native function with the values A,   *)
(* each in a new handle that only this call knows.                         *)
NativeCall(A) ==
    /\ Len(calls) < MaxDepth
    /\ A \cap live = {}
    /\ calls' = Append(calls, [args |-> A, disposed |-> {}, locals |-> {}])
    /\ live' = live \cup A
    /\ UNCHANGED <<frameHandles, protectedHandles, kept, returnedArguments, inFrame, functionVars,
                   corrupted>>

(* The native code that runs, a call or the host, gets a new handle.       *)
Allocate(h) ==
    /\ h \notin live
    /\ live' = live \cup {h}
    /\ calls' = IF calls = <<>> THEN calls
                ELSE [calls EXCEPT ![Len(calls)].locals = @ \cup {h}]
    /\ UNCHANGED <<protectedHandles, kept, returnedArguments, inFrame, corrupted>>

(* Mutant: the handles of the host are not tracked.                        *)
NewHandleUntracked(h) ==
    /\ Allocate(h)
    /\ frameHandles' = IF calls = <<>> THEN frameHandles ELSE frameHandles \cup {h}
    /\ UNCHANGED functionVars

(* newObject, getProperty, call, ...                                       *)
NewHandle(h) ==
    /\ Allocate(h)
    /\ frameHandles' = frameHandles \cup {h}
    /\ UNCHANGED functionVars

(* newFunction, which the script gets to see.                              *)
NewFunction(h, f, suspended) ==
    /\ native[f] = "none"
    /\ Allocate(h)
    /\ frameHandles' = frameHandles \cup {h}
    /\ native' = [native EXCEPT ![f] = IF inFrame /\ ~suspended THEN "frame" ELSE "engine"]
    /\ held' = held \cup {f}

(* protect: native code keeps an argument of the call, or a handle it made *)
(* and has not lost to the end of a frame.                                 *)
Protect(h) ==
    /\ h \in IF calls = <<>> THEN frameHandles ELSE UsedBy(Top)
    /\ h \notin kept
    /\ kept' = kept \cup {h}
    /\ protectedHandles' = protectedHandles \cup {h}
    /\ UNCHANGED <<live, frameHandles, calls, returnedArguments, inFrame, functionVars, corrupted>>

(* What native code unprotects as a rule: something it keeps, or a handle  *)
(* that the running code made, that no unfinished call still uses.         *)
Disposable(h) ==
    /\ h \in kept \cup (IF calls = <<>> THEN frameHandles ELSE Top.locals)
    /\ \A i \in 1 .. Len(calls) :
          /\ h \notin Arguments(calls[i])
          /\ i < Len(calls) => h \notin calls[i].locals

Forget(h) ==
    /\ kept' = kept \ {h}
    /\ protectedHandles' = protectedHandles \ {h}
    /\ calls' = IF calls = <<>> THEN calls
                ELSE [calls EXCEPT ![Len(calls)].locals = @ \ {h}]
    /\ UNCHANGED <<returnedArguments, inFrame, functionVars, corrupted>>

(* Mutant: the handle stays among the handles of the frame.                *)
UnprotectKeepsTracking(h) ==
    /\ Disposable(h)
    /\ Forget(h)
    /\ live' = live \ {h}
    /\ UNCHANGED frameHandles

(* unprotect deletes the handle, protected or not.                         *)
Unprotect(h) ==
    /\ Disposable(h)
    /\ Forget(h)
    /\ live' = live \ {h}
    /\ frameHandles' = frameHandles \ {h}

(* The exception: a call unprotects the argument that it has protected,    *)
(* one of them.                                                            *)
UnprotectArgument(h) ==
    /\ calls # <<>>
    /\ Top.disposed = {}
    /\ h \in kept \cap Arguments(Top)
    /\ live' = live \ {h} /\ frameHandles' = frameHandles \ {h}
    /\ kept' = kept \ {h} /\ protectedHandles' = protectedHandles \ {h}
    /\ calls' = [calls EXCEPT ![Len(calls)].disposed = @ \cup {h}]
    /\ UNCHANGED <<returnedArguments, inFrame, functionVars, corrupted>>

-----------------------------------------------------------------------------
(* What a native function may return: nothing, an argument, a handle it    *)
(* made, or one that native code keeps.                                    *)
Results == {{}} \cup {{h} : h \in UsedBy(Top) \cup kept}

(* The handles that the end of a call deletes, with R its result.          *)
SpentArguments(R) == Top.args \ (protectedHandles \cup R)
SpentResult(R)    == R \ (protectedHandles \cup Top.args)
ReturnedNow(R)    == (R \cap Arguments(Top)) \ protectedHandles

Pop == calls' = SubSeq(calls, 1, Len(calls) - 1)

(* Mutant: the handles of the frame are deleted when a call returns.       *)
ReturnClears(R) ==
    /\ calls # <<>>
    /\ R \in Results
    /\ Pop
    /\ live' = live \ (SpentArguments(R) \cup SpentResult(R) \cup (frameHandles \ protectedHandles))
    /\ frameHandles' = {}
    /\ returnedArguments' = returnedArguments \cup ReturnedNow(R)
    /\ corrupted' = (SpentArguments(R) \cap Top.disposed # {})
    /\ UNCHANGED <<protectedHandles, kept, inFrame, functionVars>>

(* nativeCallback: the function returns.  An argument that is the result   *)
(* is neither deleted nor tracked.  One that the call has unprotected is   *)
(* deleted again, with whatever is at its address by now, unless that is   *)
(* protected or the result.                                                *)
Return(R) ==
    /\ calls # <<>>
    /\ R \in Results
    /\ Pop
    /\ live' = live \ (SpentArguments(R) \cup SpentResult(R))
    /\ frameHandles' = frameHandles \ SpentResult(R)
    /\ returnedArguments' = returnedArguments \cup ReturnedNow(R)
    /\ corrupted' = (SpentArguments(R) \cap Top.disposed # {})
    /\ UNCHANGED <<protectedHandles, kept, inFrame, functionVars>>

BeginFrame ==
    /\ calls = <<>> /\ ~inFrame
    /\ inFrame' = TRUE
    /\ UNCHANGED <<handleVars, calls, returnedArguments, functionVars, corrupted>>

(* The C++ objects of the frame's functions are deleted.                   *)
ClearFrameFunctions ==
    /\ native' = [f \in Function |->
          IF native[f] # "frame" THEN native[f] ELSE IF f \in held THEN "freed" ELSE "none"]
    /\ UNCHANGED held

(* Mutant: protected handles are deleted as well.                          *)
ClearAllHandles ==
    /\ calls = <<>> /\ inFrame
    /\ live' = live \ frameHandles
    /\ frameHandles' = {}
    /\ ClearFrameFunctions
    /\ inFrame' = FALSE
    /\ UNCHANGED <<protectedHandles, kept, calls, returnedArguments, corrupted>>

ClearFrameHandles ==
    /\ calls = <<>> /\ inFrame
    /\ live' = live \ (frameHandles \ protectedHandles)
    /\ frameHandles' = {}
    /\ ClearFrameFunctions
    /\ inFrame' = FALSE
    /\ UNCHANGED <<protectedHandles, kept, calls, returnedArguments, corrupted>>

(* The script drops its last reference to a function.  The C++ object of   *)
(* one made outside a frame is deleted with the engine only.               *)
CollectFunction(f) ==
    /\ f \in held
    /\ held' = held \ {f}
    /\ native' = IF native[f] = "freed" THEN [native EXCEPT ![f] = "none"] ELSE native
    /\ UNCHANGED <<handleVars, calls, returnedArguments, inFrame, corrupted>>

-----------------------------------------------------------------------------
Step ==
    \/ \E A \in SUBSET Handle : NativeCall(A)
    \/ \E h \in Handle : NewHandle(h) \/ Protect(h) \/ Unprotect(h) \/ UnprotectArgument(h)
    \/ \E h \in Handle, f \in Function, suspended \in BOOLEAN : NewFunction(h, f, suspended)
    \/ \E R \in SUBSET Handle : Return(R)
    \/ BeginFrame
    \/ ClearFrameHandles
    \/ \E f \in Function : CollectFunction(f)

(* Nothing is said of what follows once memory is corrupted.               *)
Next == ~corrupted /\ Step

Spec == Init /\ [][Next]_vars

(* Addresses and functions are interchangeable (for TLC).                  *)
HandleSymmetry == Permutations(Handle) \cup Permutations(Function)

-----------------------------------------------------------------------------
(* The types of the variables.                                             *)
TypeOK ==
    /\ live \subseteq Handle /\ frameHandles \subseteq Handle
    /\ protectedHandles \subseteq Handle /\ kept \subseteq Handle
    /\ calls \in Seq(Call) /\ returnedArguments \subseteq Handle
    /\ inFrame \in BOOLEAN
    /\ native \in [Function -> Native] /\ held \subseteq Function
    /\ corrupted \in BOOLEAN

(* "Protect a value from garbage collection" (engine.h): what native code  *)
(* keeps is not deleted under it, however calls and frames end, up to the  *)
(* first return of a call that has unprotected an argument of its own      *)
(* (NothingIsDeletedTwice).                                                *)
KeptHandlesAreLive == ~corrupted => kept \subseteq live

(* The handles that an unfinished call has made, and its arguments but     *)
(* those it has unprotected itself, are there, whatever the calls nested   *)
(* in it have returned or disposed (up to a return as above).              *)
HandlesInUseAreLive == ~corrupted => InUse \subseteq live

(* Up to that return, what the end of a call or of the frame will delete   *)
(* is allocated and has one owner: an argument belongs to one call and to  *)
(* no frame.  The exception is an argument that its call has unprotected,  *)
(* which is deleted twice (NothingIsDeletedTwice).                         *)
DeletedOnce ==
    ~corrupted =>
        /\ frameHandles \subseteq live
        /\ \A i \in 1 .. Len(calls) :
              /\ Arguments(calls[i]) \subseteq live \ frameHandles
              /\ \A j \in 1 .. Len(calls) :
                    i # j => Arguments(calls[i]) \cap UsedBy(calls[j]) = {}

(* The end of a frame leaves nothing behind but what native code keeps:    *)
(* no handle is lost, except an argument that a function has returned.     *)
FrameReleasesAll ==
    [][inFrame /\ ~inFrame' => live' \subseteq kept' \cup returnedArguments']_vars

(* "Check if this handle was protected by the native function"             *)
(* (nativeCallback): whatever a call does with its arguments, its end      *)
(* deletes none a second time (not so, see README).                        *)
NothingIsDeletedTwice == ~corrupted

(* What the script can call exists (not so for functions made in a frame,  *)
(* see README).                                                            *)
HeldFunctionsAreCallable == \A f \in held : native[f] # "freed"
=============================================================================
