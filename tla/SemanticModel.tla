---------------------------- MODULE SemanticModel ----------------------------
(***************************************************************************)
(* The optional semantic scene detector and the management of its model    *)
(* (src/plugins/semantic-detector): plugin.py, model_manager.py and        *)
(* lifecycle.py.                                                           *)
(*                                                                         *)
(* Detections run in the worker threads of the runtime and share a cached  *)
(* model and the cached vectors of the scene examples; the commands        *)
(* status, download and delete run in threads of their own.  They meet at  *)
(* the lock of ModelLifecycle, which nobody ever waits for, and at its     *)
(* generation, which every completed download or deletion advances.  The   *)
(* cache has a lock of its own, the condition, under which one piece of    *)
(* plugin.py runs at once: such a piece is one action.                     *)
(*                                                                         *)
(* A model is known by its snapshot, the revision that the cache directory *)
(* loads.  The embedding itself, the scores and the scene are left out:    *)
(* what matters is which snapshot encoded the query and which the scenes.  *)
(***************************************************************************)
EXTENDS Naturals, FiniteSets

CONSTANTS
    Detectors,       \* threads that detect
    Managers,        \* threads that run a management command
    Snapshots,       \* revisions of the model that can be downloaded
    NoModel,         \* None; no snapshot that can be loaded
    NoResult,        \* detect returned None
    MaxGeneration,   \* bound: installations and deletions; then no command begins
    MaxFiles,        \* bound: files of a download
    MaxCalls         \* bound: detections of a thread

\* What the constants must satisfy, assumed where they get their values.
SemanticModelAssumption ==
    /\ NoModel \notin Snapshots
    /\ MaxGeneration \in Nat /\ MaxFiles \in Nat \ {0} /\ MaxCalls \in Nat
    /\ Detectors \cap Managers = {}

VARIABLES
    lock,            \* ModelLifecycle._lock: who holds it, a set of at most one
    generation,      \* ModelLifecycle._generation
    library,         \* sentence_transformers can be imported
    disk,            \* the snapshot the cache directory can load from
    cache,           \* _model, _scene_vectors, _model_generation and the two flags
    pc,              \* where a detection is
    local,           \* the local variables of detect and of what it calls
    found,           \* what the last detection of a thread returned
    calls,           \* detections a thread has begun
    command,         \* where a management command is
    left,            \* files a download has still to fetch
    installed,       \* history: the snapshots on the disk since the present generation began
    crossed          \* history: a detection was under way when it began

detectVars == <<pc, local, found, calls>>
manageVars == <<command, left>>
files == <<library, generation, disk, installed, crossed>>
vars == <<lock, cache, detectVars, manageVars, files>>

Versions == Snapshots \cup {NoModel}
Free == lock = {}

TypeOK ==
    /\ lock \in SUBSET (Detectors \cup Managers) /\ Cardinality(lock) <= 1
    /\ library \in BOOLEAN /\ generation \in 0..MaxGeneration
    /\ disk \in Versions /\ installed \subseteq Snapshots /\ crossed \in BOOLEAN
    /\ cache \in [model: Versions, vectors: Versions, generation: 0..MaxGeneration,
                  modelLoading: BOOLEAN, vectorsLoading: BOOLEAN]
    /\ pc \in [Detectors -> {"idle", "start", "generation", "claim", "load", "reading",
                             "store", "awaitModel", "vectors", "encode", "awaitVectors",
                             "compare"}]
    /\ local \in [Detectors -> [model: Versions, vectors: Versions,
                                generation: 0..MaxGeneration]]
    /\ found \in [Detectors -> [query: Versions, scenes: Versions] \cup {NoResult}]
    /\ calls \in [Detectors -> 0..MaxCalls]
    /\ command \in [Managers -> {"idle", "download", "result", "delete"}]
    /\ left \in [Managers -> 0..MaxFiles]

Init ==
    /\ lock = {} /\ library \in BOOLEAN /\ generation = 0
    /\ disk \in Versions /\ installed = {disk} \ {NoModel} /\ crossed = FALSE
    /\ cache = [model |-> NoModel, vectors |-> NoModel, generation |-> 0,
                modelLoading |-> FALSE, vectorsLoading |-> FALSE]
    /\ pc = [d \in Detectors |-> "idle"]
    /\ local = [d \in Detectors |-> [model |-> NoModel, vectors |-> NoModel, generation |-> 0]]
    /\ found = [d \in Detectors |-> NoResult]
    /\ calls = [d \in Detectors |-> 0]
    /\ command = [m \in Managers |-> "idle"] /\ left = [m \in Managers |-> 0]

----------------------------------------------------------------------------
\* Detection.

Goto(d, where) == pc' = [pc EXCEPT ![d] = where]

\* detect returns what it found, or None: the caller falls back on the rules.
Returns(d, what) ==
    /\ Goto(d, "idle")
    /\ found' = [found EXCEPT ![d] = what]
    /\ local' = [local EXCEPT ![d] = [model |-> NoModel, vectors |-> NoModel, generation |-> 0]]

\* detect goes on with a model, or returns None without one.
Continues(d, model) ==
    IF model = NoModel
    THEN Returns(d, NoResult)
    ELSE /\ Goto(d, "vectors")
         /\ local' = [local EXCEPT ![d].model = model]
         /\ UNCHANGED found

Begins(d) ==
    /\ pc[d] = "idle" /\ calls[d] < MaxCalls
    /\ Goto(d, "start")
    /\ calls' = [calls EXCEPT ![d] = @ + 1]
    /\ found' = [found EXCEPT ![d] = NoResult]
    /\ UNCHANGED <<lock, cache, local, manageVars, files>>

\* The first look at the flag, before the lifecycle is asked for its generation.
Looks(d) ==
    /\ pc[d] = "start"
    /\ Goto(d, IF cache.modelLoading THEN "awaitModel" ELSE "generation")
    /\ UNCHANGED <<lock, cache, local, found, calls, manageVars, files>>

\* try_generation takes the lock only when it is free.
ReadsGeneration(d) ==
    /\ pc[d] = "generation"
    /\ IF Free
       THEN /\ Goto(d, "claim")
            /\ local' = [local EXCEPT ![d].generation = generation]
            /\ UNCHANGED found
       ELSE Returns(d, NoResult)
    /\ UNCHANGED <<lock, cache, calls, manageVars, files>>

\* Mutated form: the vectors of the old model are kept.
FreshModelOnly(seen) ==
    IF cache.generation # seen
    THEN [cache EXCEPT !.model = NoModel, !.generation = seen]
    ELSE cache

\* A cache of another generation is emptied.
Fresh(seen) ==
    IF cache.generation # seen
    THEN [cache EXCEPT !.model = NoModel, !.vectors = NoModel, !.generation = seen]
    ELSE cache

\* The second look, and the claim of the load.
Claims(d) ==
    /\ pc[d] = "claim"
    /\ LET now == Fresh(local[d].generation) IN
       \/ /\ cache.modelLoading
          /\ Goto(d, "awaitModel")
          /\ UNCHANGED <<cache, local, found>>
       \/ /\ ~cache.modelLoading /\ now.model # NoModel
          /\ cache' = now
          /\ Continues(d, now.model)
       \/ /\ ~cache.modelLoading /\ now.model = NoModel
          /\ cache' = [now EXCEPT !.modelLoading = TRUE]
          /\ Goto(d, "load")
          /\ UNCHANGED <<local, found>>
    /\ UNCHANGED <<lock, calls, manageVars, files>>

\* The library cannot be imported: the claim is given back at once.
LacksLibrary(d) ==
    /\ pc[d] = "load" /\ ~library
    /\ cache' = [cache EXCEPT !.modelLoading = FALSE]
    /\ Returns(d, NoResult)
    /\ UNCHANGED <<lock, calls, manageVars, files>>

\* Mutated form: enter(blocking=True).
EntersLifecycleWaiting(d) ==
    /\ pc[d] = "load" /\ library /\ Free
    /\ lock' = {d} /\ Goto(d, "reading")
    /\ UNCHANGED <<cache, local, found, calls, manageVars, files>>

\* enter(blocking=False) around the factory.
EntersLifecycle(d) ==
    /\ pc[d] = "load" /\ library
    /\ IF Free THEN lock' = {d} /\ Goto(d, "reading")
               ELSE Goto(d, "store") /\ UNCHANGED lock
    /\ UNCHANGED <<cache, local, found, calls, manageVars, files>>

\* The factory reads the files, or fails; the generation is the one it read in.
ReadsFiles(d) ==
    /\ pc[d] = "reading"
    /\ \/ /\ disk # NoModel
          /\ local' = [local EXCEPT ![d].model = disk, ![d].generation = generation]
       \/ UNCHANGED local
    /\ lock' = {}
    /\ Goto(d, "store")
    /\ UNCHANGED <<cache, found, calls, manageVars, files>>

\* The finally of _load_model.
StoresModel(d) ==
    /\ pc[d] = "store"
    /\ cache' = [cache EXCEPT !.model = local[d].model, !.generation = local[d].generation,
                              !.modelLoading = FALSE]
    /\ Continues(d, local[d].model)
    /\ UNCHANGED <<lock, calls, manageVars, files>>

\* wait_for(lambda: not self._model_loading)
WakesToModel(d) ==
    /\ pc[d] = "awaitModel" /\ ~cache.modelLoading
    /\ Continues(d, cache.model)
    /\ UNCHANGED <<lock, cache, calls, manageVars, files>>

\* _load_scene_vectors up to the encoding.
TakesVectors(d) ==
    /\ pc[d] = "vectors"
    /\ \/ /\ cache.vectors # NoModel
          /\ local' = [local EXCEPT ![d].vectors = cache.vectors]
          /\ Goto(d, "compare")
          /\ UNCHANGED cache
       \/ /\ cache.vectors = NoModel /\ cache.vectorsLoading
          /\ Goto(d, "awaitVectors")
          /\ UNCHANGED <<cache, local>>
       \/ /\ cache.vectors = NoModel /\ ~cache.vectorsLoading
          /\ cache' = [cache EXCEPT !.vectorsLoading = TRUE]
          /\ Goto(d, "encode")
          /\ UNCHANGED local
    /\ UNCHANGED <<lock, found, calls, manageVars, files>>

\* What the encoding by a model gives: vectors of finite numbers, or an error.
Encoded(model) == {model, NoModel}

\* The encoding, outside every lock, and the finally that stores what it gave.
StoresVectors(d) ==
    /\ pc[d] = "encode"
    /\ \E vectors \in Encoded(local[d].model) :
          /\ cache' = [cache EXCEPT !.vectors = vectors, !.vectorsLoading = FALSE]
          /\ IF vectors = NoModel
             THEN Returns(d, NoResult)
             ELSE /\ Goto(d, "compare")
                  /\ local' = [local EXCEPT ![d].vectors = vectors]
                  /\ UNCHANGED found
    /\ UNCHANGED <<lock, calls, manageVars, files>>

\* wait_for(lambda: not self._vectors_loading)
WakesToVectors(d) ==
    /\ pc[d] = "awaitVectors" /\ ~cache.vectorsLoading
    /\ IF cache.vectors = NoModel
       THEN Returns(d, NoResult)
       ELSE /\ Goto(d, "compare")
            /\ local' = [local EXCEPT ![d].vectors = cache.vectors]
            /\ UNCHANGED found
    /\ UNCHANGED <<lock, cache, calls, manageVars, files>>

\* The last look at the generation; the scene is given with its confidence.
Valid == Free /\ cache.generation = generation

\* A scene is as good as the model of the query and the one of the vectors it is near to.
Scene(d) == [query |-> local[d].model, scenes |-> local[d].vectors]

\* The query is encoded and compared; a failure, a low confidence or a
\* generation that is not the cache's gives None.
Answers(d) ==
    /\ pc[d] = "compare"
    /\ \/ /\ Valid
          /\ Returns(d, Scene(d))
       \/ Returns(d, NoResult)
    /\ UNCHANGED <<lock, cache, calls, manageVars, files>>

DetectorStep(d) ==
    \/ Looks(d) \/ ReadsGeneration(d) \/ Claims(d) \/ LacksLibrary(d) \/ EntersLifecycle(d)
    \/ ReadsFiles(d) \/ StoresModel(d) \/ WakesToModel(d) \/ TakesVectors(d)
    \/ StoresVectors(d) \/ WakesToVectors(d) \/ Answers(d)

----------------------------------------------------------------------------
\* Management.  A command that finds the lock held ends with model_busy and
\* changes nothing, as status does: neither is an action.

\* invalidate: the next generation, with what it finds on the disk.
Invalidates(snapshot) ==
    /\ generation' = generation + 1
    /\ disk' = snapshot /\ installed' = {snapshot} \ {NoModel}
    /\ crossed' = \E d \in Detectors : pc[d] # "idle"
    /\ UNCHANGED library

\* The command is over and gives the lock back.
Leaves(m) ==
    /\ lock' = {}
    /\ command' = [command EXCEPT ![m] = "idle"]
    /\ left' = [left EXCEPT ![m] = 0]

\* ... having failed half way, and the disk may be another in the same generation.
FailsWith(m, snapshot) ==
    /\ Leaves(m)
    /\ disk' = snapshot /\ installed' = installed \cup ({snapshot} \ {NoModel})
    /\ UNCHANGED <<library, generation, crossed>>

Enters(m, where) ==
    /\ command[m] = "idle" /\ Free /\ generation < MaxGeneration
    /\ lock' = {m}
    /\ command' = [command EXCEPT ![m] = where]

\* The weights, configuration and vocabulary of the listed files.
SelectedFiles == 1..MaxFiles

\* The list of files; a list that fails or is empty leaves at once, as if not begun.
DownloadBegins(m) ==
    /\ Enters(m, "download")
    /\ \E n \in SelectedFiles : left' = [left EXCEPT ![m] = n]
    /\ UNCHANGED <<cache, detectVars, files>>

\* One file, and the progress that is yielded with the lock held.
DownloadsFile(m) ==
    /\ command[m] = "download" /\ left[m] > 0
    /\ left' = [left EXCEPT ![m] = @ - 1]
    /\ UNCHANGED <<lock, cache, detectVars, command, files>>

\* The token is cancelled, a file fails, the consumer closes the generator, or all
\* files are there and no snapshot is complete.  The files that came may already make
\* another snapshot the one that is loaded, or leave none that can be.
DownloadStops(m) ==
    /\ command[m] = "download"
    /\ \E snapshot \in Versions : FailsWith(m, snapshot)
    /\ UNCHANGED <<cache, detectVars>>

\* invalidate, and the result that is yielded with the lock still held.  Some complete
\* snapshot is there; it need not be a new one, nor the one that is loaded.
DownloadCompletes(m) ==
    /\ command[m] = "download" /\ left[m] = 0
    /\ \E snapshot \in Versions : Invalidates(snapshot)
    /\ command' = [command EXCEPT ![m] = "result"]
    /\ UNCHANGED <<lock, cache, detectVars, left>>

ResultTaken(m) ==
    /\ command[m] = "result"
    /\ Leaves(m)
    /\ UNCHANGED <<cache, detectVars, files>>

DeleteBegins(m) ==
    /\ Enters(m, "delete")
    /\ UNCHANGED <<cache, detectVars, left, files>>

\* rmtree took the directory away, or it was not there.
DeleteCompletes(m) ==
    /\ command[m] = "delete"
    /\ Invalidates(NoModel)
    /\ Leaves(m)
    /\ UNCHANGED <<cache, detectVars>>

\* model_delete_failed: rmtree raised somewhere on its way.
DeleteFails(m) ==
    /\ command[m] = "delete"
    /\ \E snapshot \in {disk, NoModel} : FailsWith(m, snapshot)
    /\ UNCHANGED <<cache, detectVars>>

ManagerStep(m) ==
    \/ DownloadBegins(m) \/ DownloadsFile(m) \/ DownloadStops(m)
    \/ DownloadCompletes(m) \/ ResultTaken(m)
    \/ DeleteBegins(m) \/ DeleteCompletes(m) \/ DeleteFails(m)

----------------------------------------------------------------------------
Next ==
    \/ \E d \in Detectors : Begins(d) \/ DetectorStep(d)
    \/ \E m \in Managers : ManagerStep(m)

Spec == Init /\ [][Next]_vars

\* A thread that detects keeps running; a download may stop for ever with the
\* lock held, for its consumer need not take the next piece of progress.
FairSpec == Spec /\ \A d \in Detectors : WF_vars(DetectorStep(d))

----------------------------------------------------------------------------
\* Properties.

\* When no detection was under way as the model was last replaced or deleted, a scene
\* that is given comes from one snapshot, whichever threads loaded it, encoded with it
\* and waited for it: the query and the scenes it was compared with were encoded by the
\* same model, and that one was on the disk after the replacement, never a former one,
\* though downloads that failed since may have changed the disk without a new generation.
ResultIsCurrent ==
    [][\A d \in Detectors :
          found'[d] # found[d] /\ found'[d] # NoResult /\ ~crossed
              => found'[d].query \in installed /\ found'[d].scenes = found'[d].query]_vars

\* A detection ends, with a scene or without one, whatever becomes of a download
\* that holds the lock: the detector never waits for the management of its model.
DetectionEnds == \A d \in Detectors : pc[d] # "idle" ~> pc[d] = "idle"
=============================================================================
