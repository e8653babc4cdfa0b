---------------------------- MODULE StackResolver ----------------------------
(***************************************************************************)
(* StackResolver::spawn of src/tezedge-memprof/src/stack.rs.  A loader     *)
(* thread wakes every five seconds, reads the pid that another thread      *)
(* stores in an AtomicU32, reads that process's memory map, and, when the  *)
(* map differs from the last one it saw, loads the symbol table of every   *)
(* file of the map it has not tried before, publishing each table under   *)
(* the RwLock, and finally publishes the map itself.  Readers call         *)
(* StackResolver::resolve under the read lock: an address resolves through *)
(* the published map to a file, and through the published tables to a     *)
(* symbol.  A map and a table are abstracted to the set of files of the    *)
(* map and to the name of the file whose table was loaded.                 *)
(***************************************************************************)
EXTENDS Naturals, FiniteSets

CONSTANTS
    Pids,          \* the non-zero pids the watched process may have
    Files,         \* the executables and libraries that can be mapped
    MapsOf,        \* MapsOf[p]: the maps ProcessMap::new(p) may read
    LoadCanFail    \* whether SymbolTable::load may return an error

ASSUME PidsAssumption == 0 \notin Pids
ASSUME MapsOfAssumption == MapsOf \in [Pids -> SUBSET SUBSET Files]
ASSUME LoadCanFailAssumption == LoadCanFail \in BOOLEAN

VARIABLES
    pid,        \* the AtomicU32 the loader reads
    lastMap,    \* the loader's last_map: <<>> for None, <<m>> for Some(m)
    tried,      \* the loader's set of files it has tried to load
    todo,       \* the files of the new map the for loop has still to visit
    lpc,        \* "sleep" between iterations, "load" inside the for loop
    rFiles,     \* the files whose table is in StackResolver::files
    rMap        \* StackResolver::map: <<>> for None, <<m>> for Some(m)

vars == <<pid, lastMap, tried, todo, lpc, rFiles, rMap>>

Maps == SUBSET Files

OptMaps == {<<>>} \cup {<<m>> : m \in Maps}

Init ==
    /\ pid = 0
    /\ lastMap = <<>>
    /\ tried = {}
    /\ todo = {}
    /\ lpc = "sleep"
    /\ rFiles = {}
    /\ rMap = <<>>

(* The recorder stores the pid of the process it follows, or 0. *)
SetPid(p) ==
    /\ pid' = p
    /\ UNCHANGED <<lastMap, tried, todo, lpc, rFiles, rMap>>

(* A loop body that only reads the map while last_map is None. *)
WakeOnce(m) ==
    /\ lpc = "sleep"
    /\ pid # 0
    /\ m \in MapsOf[pid]
    /\ lastMap = <<>>
    /\ lastMap' = <<m>>
    /\ todo' = m
    /\ lpc' = "load"
    /\ UNCHANGED <<pid, tried, rFiles, rMap>>

(* The loop body after the sleep: a non-zero pid whose map reads as m,    *)
(* different from last_map, starts the for loop over m's files.  A zero   *)
(* pid, a map that fails to read, or an unchanged map change nothing.    *)
Wake(m) ==
    /\ lpc = "sleep"
    /\ pid # 0
    /\ m \in MapsOf[pid]
    /\ lastMap # <<m>>
    /\ lastMap' = <<m>>
    /\ todo' = m
    /\ lpc' = "load"
    /\ UNCHANGED <<pid, tried, rFiles, rMap>>

(* A for loop that loads every file of the map, tried before or not. *)
LoadFileRetry(f) ==
    /\ lpc = "load"
    /\ f \in todo
    /\ todo' = todo \ {f}
    /\ tried' = tried \cup {f}
    /\ \/ rFiles' = rFiles \cup {f}
       \/ LoadCanFail /\ UNCHANGED rFiles
    /\ UNCHANGED <<pid, lastMap, lpc, rMap>>

(* One iteration of the for loop: a file not tried yet is loaded, its     *)
(* table inserted under the write lock if the load succeeded, and it is   *)
(* recorded as tried whatever the outcome.                                *)
LoadFile(f) ==
    /\ lpc = "load"
    /\ f \in todo
    /\ todo' = todo \ {f}
    /\ tried' = tried \cup {f}
    /\ \/ f \notin tried /\ rFiles' = rFiles \cup {f}
       \/ f \notin tried /\ LoadCanFail /\ UNCHANGED rFiles
       \/ f \in tried /\ UNCHANGED rFiles
    /\ UNCHANGED <<pid, lastMap, lpc, rMap>>

(* Publishing the map as soon as the map has been read. *)
PublishEarly ==
    /\ lpc = "load"
    /\ rMap' = lastMap
    /\ lpc' = "sleep"
    /\ todo' = {}
    /\ UNCHANGED <<pid, lastMap, tried, rFiles>>

(* After the for loop: the map is published under the write lock. *)
Publish ==
    /\ lpc = "load"
    /\ todo = {}
    /\ rMap' = lastMap
    /\ lpc' = "sleep"
    /\ UNCHANGED <<pid, lastMap, tried, todo, rFiles>>

Next ==
    \/ \E p \in Pids \cup {0} : SetPid(p)
    \/ \E m \in Maps : Wake(m)
    \/ \E f \in Files : LoadFile(f)
    \/ Publish

(* The loader is a thread of its own that loops forever; it is assumed to *)
(* be scheduled, and a map that can be read eventually to read.          *)
Fairness ==
    /\ WF_vars(\E m \in Maps : Wake(m))
    /\ WF_vars(\E f \in Files : LoadFile(f))
    /\ WF_vars(Publish)

Spec == Init /\ [][Next]_vars /\ Fairness

-----------------------------------------------------------------------------
(* Types of the loader's locals and of the shared resolver. *)
TypeOK ==
    /\ pid \in Pids \cup {0}
    /\ lastMap \in OptMaps /\ rMap \in OptMaps
    /\ tried \subseteq Files /\ todo \subseteq Files /\ rFiles \subseteq Files
    /\ lpc \in {"sleep", "load"}

(* The files of a published map. *)
MapFiles(o) == IF o = <<>> THEN {} ELSE o[1]

(* resolve never meets a file of the published map whose table the       *)
(* loader has still to try: the tables are inserted before the map that   *)
(* names them is published, so a file of rMap without a table is one      *)
(* whose load failed.                                                     *)
MapFilesTried == MapFiles(rMap) \subseteq tried

(* While the recorder keeps following a process, the loader eventually    *)
(* publishes a map of that process for resolve to use.                    *)
FollowsPid ==
    \A p \in Pids : (pid = p) ~> (pid # p \/ rMap \in {<<m>> : m \in MapsOf[p]})


(* The loader refines the contract of SymbolLoader: the resolver's tables *)
(* and map are what the contract calls tables and shown.                  *)
L == INSTANCE SymbolLoader WITH tables <- rFiles, shown <- rMap

(* Every step of the loader thread and of the recorder is a step the      *)
(* contract allows: no table is tried twice or dropped, and the published *)
(* map is one read for a followed pid, whose files were all tried first.  *)
SymbolLoaderSpec == L!Spec

=============================================================================
