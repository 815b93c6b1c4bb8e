------------------------------ MODULE HotReload ------------------------------
(***************************************************************************)
(* Watch mode: an editor saves the script, the file watcher                *)
(* (src/src/fs/file_watcher.cpp) reports it and the runtime                *)
(* (src/src/runtime.cpp) loads the script again, from a module cache that  *)
(* is the module system's (src/src/js/module_system.cpp) or, on V8, the    *)
(* engine's own (src/src/js/v8_engine.cpp).                                *)
(*                                                                         *)
(* The script is an entry file and one module it imports; the content of a *)
(* file is its version, 0 while an editor has truncated it.  Only the      *)
(* entry file is watched.  The operating system watches the inode that had *)
(* the path when the watch began, not the path.                            *)
(***************************************************************************)
EXTENDS Integers, FiniteSets

CONSTANTS
    MaxSaves,       \* Bound: versions of each file after the first one
    MaxWatches      \* Bound: calls of loadScript, each with a watch of its own

ASSUME MaxSavesAssumption      == MaxSaves \in Nat
ASSUME MaxWatchesAssumption    == MaxWatches \in Nat \ {0}

File == {"entry", "import"}
Content == 0 .. MaxSaves + 1
Watch == 1 .. MaxWatches
Nothing == -1        \* no content: not loaded, not cached

VARIABLES
    nativeModules, \* TRUE: V8.  FALSE: import is compiled to require()
    pc,            \* where the main thread is, see Phase
    disk,          \* disk[f]: the content of f
    saved,         \* the last whole version of the two files
    inode,         \* the inode behind the entry file's path
    watchedInode,  \* watchedInode[w]: what w is attached to
    osEvents,      \* events the OS has not delivered yet
    pendingEvents, \* g_pendingEvents
    reloadRequested,
    context,       \* context[w]: none, active, closing or closed
    watches,       \* impl_->watches: the contexts whose memory is held
    watchId,       \* watchId_, 0 if not watching
    moduleCache,   \* moduleCache[f]: what the module cache holds for f
    loaded         \* loaded[f]: what the running script was made from

fileVars  == <<nativeModules, disk, saved, inode>>
watchVars == <<context, watches, watchId, watchedInode>>
eventVars == <<osEvents, pendingEvents, reloadRequested>>
loadVars  == <<moduleCache, loaded>>
reloadVars == <<pc, fileVars, watchVars, eventVars, loadVars>>

(* idle     between polls                 events  uv_run has returned      *)
(* check    the reload flag is tested     load    the entry file is read   *)
(* import   its import is resolved        drain   EventLoop::shutdown      *)
(* down     the runtime is destroyed                                       *)
Phase == {"idle", "events", "check", "load", "import", "drain", "down"}

Active  == {w \in Watch : context[w] = "active"}
Attached == \E w \in Active : watchedInode[w] = inode
Stopping == pc \in {"drain", "down"}

-----------------------------------------------------------------------------
(* The runtime has been created and no script is loaded.                   *)
ReloadInit ==
    /\ nativeModules \in BOOLEAN
    /\ pc = "idle"
    /\ disk = [f \in File |-> 1] /\ saved = [f \in File |-> 1] /\ inode = 1
    /\ context = [w \in Watch |-> "none"] /\ watches = {} /\ watchId = 0
    /\ watchedInode = [w \in Watch |-> 0]
    /\ osEvents = 0 /\ pendingEvents = 0 /\ reloadRequested = FALSE
    /\ moduleCache = [f \in File |-> Nothing] /\ loaded = [f \in File |-> Nothing]

(* A write to the inode that is watched is an event.                       *)
Notify == osEvents' = IF Attached THEN osEvents + 1 ELSE osEvents

(* An editor truncates a file ...                                          *)
Truncate(f) ==
    /\ disk[f] # 0 /\ saved[f] <= MaxSaves
    /\ disk' = [disk EXCEPT ![f] = 0]
    /\ IF f = "entry" THEN Notify ELSE UNCHANGED osEvents
    /\ UNCHANGED <<nativeModules, pc, saved, inode, watchVars, pendingEvents, reloadRequested,
                   loadVars>>

(* ... and writes the next version into it ...                             *)
Write(f) ==
    /\ disk[f] = 0
    /\ saved' = [saved EXCEPT ![f] = @ + 1]
    /\ disk' = [disk EXCEPT ![f] = saved'[f]]
    /\ IF f = "entry" THEN Notify ELSE UNCHANGED osEvents
    /\ UNCHANGED <<nativeModules, pc, inode, watchVars, pendingEvents, reloadRequested,
                   loadVars>>

(* ... or writes a new file and renames it over the entry file.  The old   *)
(* inode reports its end, and nothing after that.                          *)
RenameOver ==
    /\ disk["entry"] # 0 /\ saved["entry"] <= MaxSaves
    /\ saved' = [saved EXCEPT !["entry"] = @ + 1]
    /\ disk' = [disk EXCEPT !["entry"] = saved'["entry"]]
    /\ inode' = inode + 1
    /\ Notify
    /\ UNCHANGED <<nativeModules, pc, watchVars, pendingEvents, reloadRequested, loadVars>>

-----------------------------------------------------------------------------
(* FileWatcher::unwatch closes the handle and frees its context.           *)
Unwatched(W) == [w \in Watch |-> IF w \in W THEN "closing" ELSE context[w]]

(* loadScript: it ends the previous watch, if any, and starts one, which   *)
(* the OS may refuse, before the entry file is read.  What the OS had to   *)
(* say of the previous watch is lost with it.                              *)
LoadScript(started) ==
    /\ pc = "idle"
    /\ \E w \in Watch :
          /\ context[w] = "none" /\ \A v \in 1 .. w - 1 : context[v] # "none"
          /\ context' = [Unwatched({watchId}) EXCEPT
                            ![w] = IF started THEN "active" ELSE "closing"]
          /\ watches' = (watches \ {watchId}) \cup (IF started THEN {w} ELSE {})
          /\ watchId' = IF started THEN w ELSE 0
          /\ watchedInode' = [watchedInode EXCEPT ![w] = IF started THEN inode ELSE 0]
    /\ osEvents' = 0
    /\ pc' = "load"
    /\ UNCHANGED <<fileVars, pendingEvents, reloadRequested, loadVars>>

(* pollEvents: uv_run(NOWAIT) calls onFileChange for everything the OS has *)
(* to say, and the close callbacks.                                        *)
RunOnce ==
    /\ pc = "idle"
    /\ pendingEvents' = pendingEvents + osEvents
    /\ osEvents' = 0
    /\ context' = [w \in Watch |-> IF context[w] = "closing" THEN "closed" ELSE context[w]]
    /\ pc' = "events"
    /\ UNCHANGED <<fileVars, watches, watchId, watchedInode, reloadRequested, loadVars>>

(* Mutant: the callback does not ask for a reload.                         *)
DropPendingEvents ==
    /\ pc = "events"
    /\ pendingEvents' = 0
    /\ pc' = "check"
    /\ UNCHANGED <<fileVars, watchVars, osEvents, reloadRequested, loadVars>>

(* processPendingEvents: the callback of every event asks for a reload.    *)
ProcessPendingEvents ==
    /\ pc = "events"
    /\ reloadRequested' = (reloadRequested \/ pendingEvents > 0)
    /\ pendingEvents' = 0
    /\ pc' = "check"
    /\ UNCHANGED <<fileVars, watchVars, osEvents, loadVars>>

NoReload ==
    /\ pc = "check"
    /\ ~reloadRequested
    /\ pc' = "idle"
    /\ UNCHANGED <<fileVars, watchVars, eventVars, loadVars>>

(* reloadScript: ModuleSystem::clearCaches does not know V8's cache.       *)
ReloadScript ==
    /\ pc = "check"
    /\ reloadRequested
    /\ reloadRequested' = FALSE
    /\ moduleCache' = IF nativeModules THEN moduleCache ELSE [f \in File |-> Nothing]
    /\ pc' = "load"
    /\ UNCHANGED <<fileVars, watchVars, osEvents, pendingEvents, loaded>>

(* loadEntry reads the file.  V8 evaluates it every time; require() hands  *)
(* out what it has, and runs nothing.                                      *)
LoadEntryFile ==
    /\ pc = "load"
    /\ IF ~nativeModules /\ moduleCache["entry"] # Nothing
       THEN pc' = "idle" /\ UNCHANGED loadVars
       ELSE /\ loaded' = [entry |-> disk["entry"], import |-> Nothing]
            /\ moduleCache' = IF nativeModules THEN moduleCache
                                 ELSE [moduleCache EXCEPT !["entry"] = disk["entry"]]
            /\ pc' = IF disk["entry"] = 0 THEN "idle" ELSE "import"
    /\ UNCHANGED <<fileVars, watchVars, eventVars>>

(* Mutant: events that came during the load are discarded at its end.      *)
ImportDiscardsEvents ==
    /\ pc = "import"
    /\ LET source == IF moduleCache["import"] # Nothing THEN moduleCache["import"]
                                                        ELSE disk["import"]
       IN  /\ loaded' = [loaded EXCEPT !["import"] = source]
           /\ moduleCache' = [moduleCache EXCEPT !["import"] = source]
    /\ osEvents' = 0
    /\ pc' = "idle"
    /\ UNCHANGED <<fileVars, watchVars, pendingEvents, reloadRequested>>

(* A whole entry file imports the other file: from the cache, if it is     *)
(* there.                                                                  *)
ImportModule ==
    /\ pc = "import"
    /\ LET source == IF moduleCache["import"] # Nothing THEN moduleCache["import"]
                                                        ELSE disk["import"]
       IN  /\ loaded' = [loaded EXCEPT !["import"] = source]
           /\ moduleCache' = [moduleCache EXCEPT !["import"] = source]
    /\ pc' = "idle"
    /\ UNCHANGED <<fileVars, watchVars, eventVars>>

(* Runtime shutdown: FileWatcher::shutdown closes and frees every context, *)
(* then the loop runs until every handle is closed.                        *)
Shutdown ==
    /\ pc = "idle"
    /\ context' = Unwatched(Active)
    /\ watches' = {}
    /\ osEvents' = 0
    /\ pc' = "drain"
    /\ UNCHANGED <<fileVars, watchId, watchedInode, pendingEvents, reloadRequested, loadVars>>

EventLoopDrained ==
    /\ pc = "drain"
    /\ context' = [w \in Watch |-> IF context[w] = "closing" THEN "closed" ELSE context[w]]
    /\ pc' = "down"
    /\ UNCHANGED <<fileVars, watches, watchId, watchedInode, eventVars, loadVars>>

-----------------------------------------------------------------------------
Editor == (\E f \in File : Truncate(f) \/ Write(f)) \/ RenameOver

MainThread ==
    \/ RunOnce \/ ProcessPendingEvents \/ NoReload \/ ReloadScript
    \/ LoadEntryFile \/ ImportModule
    \/ EventLoopDrained

ReloadNext ==
    \/ Editor
    \/ \E started \in BOOLEAN : LoadScript(started)
    \/ MainThread
    \/ Shutdown

ReloadSpec == ReloadInit /\ [][ReloadNext]_reloadVars

(* The main thread goes round its loop.  Nothing makes an editor save.     *)
FairReloadSpec == ReloadSpec /\ WF_reloadVars(MainThread)

-----------------------------------------------------------------------------
(* The types of the variables.                                             *)
ReloadTypeOK ==
    /\ nativeModules \in BOOLEAN /\ pc \in Phase
    /\ disk \in [File -> Content] /\ saved \in [File -> Content \ {0}]
    /\ inode \in 1 .. MaxSaves + 1
    /\ context \in [Watch -> {"none", "active", "closing", "closed"}]
    /\ watches \subseteq Watch /\ watchId \in Watch \cup {0}
    /\ watchedInode \in [Watch -> 0 .. MaxSaves + 1]
    /\ osEvents \in Nat /\ pendingEvents \in Nat /\ reloadRequested \in BOOLEAN
    /\ moduleCache \in [File -> Content \cup {Nothing}]
    /\ loaded \in [File -> Content \cup {Nothing}]

(* With require(), a second loadScript of a file executes nothing (see     *)
(* LoadExecutesTheFile): what follows is promised only without one.        *)
Executed == nativeModules \/ Cardinality({w \in Watch : context[w] # "none"}) <= 1

(* No change is missed: when the loop is idle, nothing is on its way, and  *)
(* the watch is attached to the file, the script that runs is the one on   *)
(* disk.  A save between the start of the watch and the read, or between   *)
(* the read and the end of the load, is not lost.                          *)
NothingMissed ==
    pc = "idle" /\ Attached /\ osEvents = 0 /\ Executed => loaded["entry"] = disk["entry"]

(* A save in place ends in the running script, unless a newer one          *)
(* overtakes it, the watch is lost or the runtime stops.                   *)
SaveInPlaceIsLoaded ==
    \A v \in Content \ {0} :
        disk["entry"] = v /\ Attached ~>
            \/ loaded["entry"] = v \/ disk["entry"] # v
            \/ ~Attached \/ ~Executed \/ Stopping

(* "Module caches are cleared" (running-games.mdx, Watch Mode): on every   *)
(* engine a load reads the imported file again.                            *)
ImportsAreFresh ==
    [][pc = "import" /\ pc' # "import" => loaded'["import"] = disk["import"]]_reloadVars

(* "When the watched file changes: ... The script is re-executed"          *)
(* (running-games.mdx), however the editor saves it, once a script is      *)
(* loaded and watched.                                                     *)
ChangeIsLoaded ==
    \A v \in Content \ {0} :
        disk["entry"] = v /\ Active # {} ~>
            loaded["entry"] = v \/ disk["entry"] # v \/ Active = {} \/ Stopping

(* "Context will be cleaned up by the Impl destructor" (onWatchClose): the *)
(* memory of a handle that watched a file is held until its close callback *)
(* has run.                                                                *)
ContextHeldUntilClosed ==
    \A w \in Watch : context[w] = "closing" /\ watchedInode[w] # 0 => w \in watches

(* "Load and execute a JavaScript file" (Runtime::loadScript): the script  *)
(* on disk is executed by every load, also by one that replaces another.   *)
LoadExecutesTheFile ==
    [][pc = "load" /\ pc' # "load" => loaded'["entry"] = disk["entry"]]_reloadVars
=============================================================================
