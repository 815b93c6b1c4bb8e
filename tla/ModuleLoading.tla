---------------------------- MODULE ModuleLoading ----------------------------
(***************************************************************************)
(* require(): loading of CommonJS modules, and of the ES modules that are  *)
(* compiled to them on the engines without native ones                     *)
(* (src/src/js/module_system.cpp).                                         *)
(*                                                                         *)
(* The program is chosen initially: which modules import which, and what   *)
(* each does.  A module requires its imports in any order, once each, and  *)
(* may require them again from a callback after the load.  The bodies of   *)
(* the modules that are being executed form a stack.                       *)
(***************************************************************************)
EXTENDS Integers, Sequences, FiniteSets

CONSTANTS
    Module,     \* The modules of the program
    Entry,      \* The script that is loaded
    Host,       \* The caller of loadEntry
    MaxLoads    \* Bound: the first load and the reloads

ASSUME EntryAssumption == Entry \in Module /\ Host \notin Module
ASSUME LoadsAssumption == MaxLoads \in Nat \ {0}

(* plain     adds to exports              replaces  assigns module.exports *)
(* throws    its body ends in an error    broken    it does not compile    *)
(* missing   it is not found, or not readable                              *)
Kind == {"plain", "replaces", "throws", "broken", "missing"}

VARIABLES
    imports,           \* imports[m]: what m requires
    kind,              \* kind[m]: see Kind
    nativeExceptions,  \* TRUE: throwException() throws in the caller (V8).
                       \* FALSE: the call returns undefined (QuickJS)
    cache,             \* cjsCache_
    loading,           \* loading_
    stack,             \* the modules that are being executed, the last on top
    protectedObjects,  \* the exports objects that are protected
    runs,              \* runs[m]: how often m was executed in this load
    obtained,          \* the results of require() in this load
    load,              \* number of the load, 0 before the first
    result             \* what loadEntry has returned: none, true or false

program  == <<imports, kind, nativeExceptions>>
observed == <<runs, obtained>>
vars == <<program, cache, loading, stack, protectedObjects, observed, load, result>>

(* The exports object a module starts with, and the one it assigns.        *)
Initially(m) == <<m, "initial">>
Assigned(m)  == <<m, "assigned">>
Object    == {Initially(m) : m \in Module} \cup {Assigned(m) : m \in Module}
Undefined == <<>>

Top == stack[Len(stack)]
Executing == {stack[i].mod : i \in 1 .. Len(stack)}
Cached == {m \in Module : cache[m] # Undefined}

Init ==
    /\ imports \in [Module -> SUBSET Module] /\ \A m \in Module : m \notin imports[m]
    /\ kind \in [Module -> Kind] /\ nativeExceptions \in BOOLEAN
    /\ cache = [m \in Module |-> Undefined] /\ loading = {} /\ stack = <<>>
    /\ protectedObjects = {}
    /\ runs = [m \in Module |-> 0] /\ obtained = {}
    /\ load = 0 /\ result = "none"

-----------------------------------------------------------------------------
(* A require() of m by the code of module by has returned; the module on   *)
(* top of the stack s goes on.  complete: m is not being executed.         *)
Obtain(s, by, m, object, complete) ==
    /\ obtained' = obtained \cup
          {[by |-> by, of |-> m, object |-> object, complete |-> complete]}
    /\ stack' = IF s = <<>> THEN s ELSE [s EXCEPT ![Len(s)].todo = @ \ {m}]

(* What has been executed, or is being executed, is not executed again.    *)
Known(m) == m \in Cached \cup loading

(* Mutant: the exports object is cached at the end only.                   *)
ExecuteUncached(by, m) ==
    /\ loading' = loading \cup {m}
    /\ protectedObjects' = protectedObjects \cup {Initially(m)}
    /\ stack' = Append(stack, [by |-> by, mod |-> m, todo |-> imports[m], exports |-> Initially(m)])
    /\ runs' = [runs EXCEPT ![m] = @ + 1]
    /\ UNCHANGED cache

(* executeCjsModule, up to the call of the module's body: the exports      *)
(* object is cached before.                                                *)
Execute(by, m) ==
    /\ loading' = loading \cup {m}
    /\ cache' = [cache EXCEPT ![m] = Initially(m)]
    /\ protectedObjects' = protectedObjects \cup {Initially(m)}
    /\ stack' = Append(stack, [by |-> by, mod |-> m, todo |-> imports[m], exports |-> Initially(m)])
    /\ runs' = [runs EXCEPT ![m] = @ + 1]

(* require(m) in the code of module by.  A module that does not compile    *)
(* leaves the cache again, and the call returns undefined; that of one     *)
(* that is not found does so too, or throws, which the caller may catch.   *)
Require(by, m) ==
    \/ /\ Known(m)
       /\ Obtain(stack, by, m, cache[m], m \notin loading)
       /\ UNCHANGED <<cache, loading, protectedObjects, runs>>
    \/ /\ ~Known(m) /\ kind[m] \in {"broken", "missing"}
       /\ Obtain(stack, by, m, Undefined, TRUE)
       /\ UNCHANGED <<cache, loading, protectedObjects, runs>>
    \/ /\ ~Known(m) /\ kind[m] \notin {"broken", "missing"}
       /\ Execute(by, m)
       /\ UNCHANGED obtained

RequireImport ==
    /\ stack # <<>>
    /\ \E m \in Top.todo : Require(Top.mod, m)
    /\ UNCHANGED <<program, load, result>>

(* A callback of a module requires an import (again).                      *)
RequireLater ==
    /\ stack = <<>>
    /\ \E by \in Cached : \E m \in imports[by] : Require(by, m)
    /\ UNCHANGED <<program, load, result>>

AssignExports ==
    /\ stack # <<>> /\ kind[Top.mod] = "replaces"
    /\ Top.exports = Initially(Top.mod)
    /\ stack' = [stack EXCEPT ![Len(stack)].exports = Assigned(Top.mod)]
    /\ UNCHANGED <<program, cache, loading, protectedObjects, observed, load, result>>

-----------------------------------------------------------------------------
(* executeCjsModule, after the call, however it ended: module.exports goes *)
(* into the cache.  loadEntry reports success for every value, and even    *)
(* undefined is one.                                                       *)
Publish ==
    LET m == Top.mod
    IN  /\ loading' = loading \ {m}
        /\ cache' = [cache EXCEPT ![m] = Top.exports]
        /\ protectedObjects' = (protectedObjects \ {cache[m]}) \cup {Top.exports}

PopModule ==
    LET rest == SubSeq(stack, 1, Len(stack) - 1)
    IN  IF Top.by = Host
        THEN result' = "true" /\ stack' = rest /\ UNCHANGED obtained
        ELSE Obtain(rest, Top.by, Top.mod, Top.exports, TRUE) /\ UNCHANGED result

Finish ==
    /\ stack # <<>> /\ Top.todo = {}
    /\ kind[Top.mod] # "throws"
    /\ kind[Top.mod] = "replaces" => Top.exports = Assigned(Top.mod)
    /\ Publish /\ PopModule
    /\ UNCHANGED <<program, runs, load>>

(* Mutant: a module that failed leaves the cache.                          *)
FailForgets ==
    /\ stack # <<>>
    /\ \/ kind[Top.mod] = "throws"
       \/ nativeExceptions /\ \E m \in Top.todo : ~Known(m) /\ kind[m] = "missing"
    /\ loading' = loading \ {Top.mod}
    /\ cache' = [cache EXCEPT ![Top.mod] = Undefined]
    /\ protectedObjects' = protectedObjects \ {cache[Top.mod]}
    /\ PopModule
    /\ UNCHANGED <<program, runs, load>>

(* An error ends the body: its own, at any point, or that of a require()   *)
(* that finds nothing.  It is reported and goes no further: the caller of  *)
(* require() gets what the module has exported so far.                     *)
Fail ==
    /\ stack # <<>>
    /\ \/ kind[Top.mod] = "throws"
       \/ nativeExceptions /\ \E m \in Top.todo : ~Known(m) /\ kind[m] = "missing"
    /\ Publish /\ PopModule
    /\ UNCHANGED <<program, runs, load>>

(* clearCaches, and loadEntry up to the call of the script's body.  The    *)
(* first load finds the caches empty.                                      *)
LoadEntry ==
    /\ stack = <<>> /\ load < MaxLoads
    /\ load' = load + 1
    /\ obtained' = {}
    /\ IF kind[Entry] \in {"broken", "missing"}
       THEN /\ cache' = [m \in Module |-> Undefined] /\ loading' = {}
            /\ protectedObjects' = {}
            /\ runs' = [m \in Module |-> 0]
            /\ result' = IF kind[Entry] = "missing" THEN "false" ELSE "true"
            /\ UNCHANGED stack
       ELSE /\ cache' = [m \in Module |-> IF m = Entry THEN Initially(m) ELSE Undefined]
            /\ loading' = {Entry}
            /\ protectedObjects' = {Initially(Entry)}
            /\ stack' = <<[by |-> Host, mod |-> Entry, todo |-> imports[Entry],
                           exports |-> Initially(Entry)]>>
            /\ runs' = [m \in Module |-> IF m = Entry THEN 1 ELSE 0]
            /\ result' = "none"
    /\ UNCHANGED program

-----------------------------------------------------------------------------
Next == LoadEntry \/ RequireImport \/ AssignExports \/ Finish \/ Fail \/ RequireLater

Spec == Init /\ [][Next]_vars

-----------------------------------------------------------------------------
(* The types of the variables.                                             *)
TypeOK ==
    /\ imports \in [Module -> SUBSET Module] /\ kind \in [Module -> Kind]
    /\ nativeExceptions \in BOOLEAN
    /\ cache \in [Module -> Object \cup {Undefined}]
    /\ loading \subseteq Module
    /\ stack \in Seq([by : Module \cup {Host}, mod : Module, todo : SUBSET Module, exports : Object])
    /\ protectedObjects \subseteq Object
    /\ runs \in [Module -> Nat]
    /\ obtained \subseteq [by : Module, of : Module, object : Object \cup {Undefined}, complete : BOOLEAN]
    /\ load \in 0 .. MaxLoads /\ result \in {"none", "true", "false"}

(* A module is executed once in a load, however often, through whatever    *)
(* cycle and from whatever callback it is required, and even if it fails;  *)
(* loading_ is what is being executed, and an error leaves nothing in it.  *)
ExecutedOnce == (\A m \in Module : runs[m] <= 1) /\ loading = Executing

(* All who require a module share one exports object, the one in the       *)
(* cache; a module that requires another in a cycle, before that is        *)
(* complete, has it as well, unless the other assigns module.exports.      *)
OneExportsObject ==
    \A r \in obtained :
        kind[r.of] \notin {"broken", "missing"} /\ (r.complete \/ kind[r.of] # "replaces")
            => r.object = cache[r.of]

(* "Load and execute a JavaScript file ... @return true on success"        *)
(* (runtime.h, loadScript): a script that does not compile, or that ends   *)
(* in an error, is not a success.                                          *)
SuccessIsTrue == result = "true" => kind[Entry] \notin {"broken", "throws"}
=============================================================================
