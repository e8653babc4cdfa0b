------------------------- MODULE StackResolverProofs -------------------------
(***************************************************************************)
(* Proofs about StackResolver for every set of pids, files and maps: the   *)
(* loader publishes a map only after it has tried every file of it.        *)
(***************************************************************************)
EXTENDS StackResolver, TLAPS

USE PidsAssumption, MapsOfAssumption, LoadCanFailAssumption

(* Between the sleeps the published map is the loader's last_map, and     *)
(* inside the for loop every file of last_map is tried or still to visit. *)
LoopInv ==
    /\ lpc = "sleep" => rMap = lastMap
    /\ lpc = "load" => MapFiles(lastMap) \subseteq tried \cup todo

IInv == TypeOK /\ LoopInv /\ MapFilesTried

LEMMA InitIInv == Init => IInv
  BY DEF Init, IInv, TypeOK, LoopInv, MapFilesTried, MapFiles, OptMaps

LEMMA NextIInv == IInv /\ [Next]_vars => IInv'
  <1> SUFFICES ASSUME IInv, [Next]_vars PROVE IInv'
    OBVIOUS
  <1> USE DEF IInv
  <1>1. ASSUME NEW p \in Pids \cup {0}, SetPid(p) PROVE IInv'
    BY <1>1 DEF SetPid, TypeOK, LoopInv, MapFilesTried
  <1>2. ASSUME NEW m \in Maps, Wake(m) PROVE IInv'
    <2>1. TypeOK'
      BY <1>2 DEF Wake, TypeOK, OptMaps, Maps
    <2>2. LoopInv'
      BY <1>2 DEF Wake, LoopInv, MapFiles
    <2>3. MapFilesTried'
      BY <1>2 DEF Wake, MapFilesTried
    <2>4. QED
      BY <2>1, <2>2, <2>3
  <1>3. ASSUME NEW f \in Files, LoadFile(f) PROVE IInv'
    <2>1. TypeOK'
      BY <1>3 DEF LoadFile, TypeOK
    <2>2. LoopInv'
      BY <1>3 DEF LoadFile, LoopInv
    <2>3. MapFilesTried'
      BY <1>3 DEF LoadFile, MapFilesTried
    <2>4. QED
      BY <2>1, <2>2, <2>3
  <1>4. CASE Publish
    <2>1. TypeOK'
      BY <1>4 DEF Publish, TypeOK
    <2>2. LoopInv'
      BY <1>4 DEF Publish, LoopInv
    <2>3. MapFilesTried'
      BY <1>4 DEF Publish, LoopInv, MapFilesTried
    <2>4. QED
      BY <2>1, <2>2, <2>3
  <1>5. CASE UNCHANGED vars
    BY <1>5 DEF vars, TypeOK, LoopInv, MapFilesTried, MapFiles
  <1>6. QED
    BY <1>1, <1>2, <1>3, <1>4, <1>5 DEF Next

(* resolve never sees a published map with a file whose symbol table the *)
(* loader has not tried: StackResolver::spawn inserts the tables before   *)
(* it publishes the map, for every pid and map sequence.                  *)
THEOREM MapFilesTriedThm == Spec => []MapFilesTried
  <1>1. IInv => MapFilesTried
    BY DEF IInv
  <1>2. QED
    BY <1>1, InitIInv, NextIInv, PTL DEF Spec

(* The loader's locals and the shared resolver keep their types. *)
THEOREM ResolverTypeCorrect == Spec => []TypeOK
  <1>1. IInv => TypeOK
    BY DEF IInv
  <1>2. QED
    BY <1>1, InitIInv, NextIInv, PTL DEF Spec

-----------------------------------------------------------------------------
(* The loader's last_map is always a map ProcessMap::new returned for     *)
(* some followed pid, and inside the for loop there is one.               *)
ReadInv ==
    /\ lpc = "load" => lastMap # <<>>
    /\ lastMap # <<>> => \E q \in Pids : lastMap[1] \in MapsOf[q]

LEMMA InitReadInv == Init => ReadInv
  BY DEF Init, ReadInv

LEMMA NextReadInv == IInv /\ ReadInv /\ [Next]_vars => ReadInv'
  <1> SUFFICES ASSUME IInv, ReadInv, [Next]_vars PROVE ReadInv'
    OBVIOUS
  <1>1. ASSUME NEW p \in Pids \cup {0}, SetPid(p) PROVE ReadInv'
    BY <1>1 DEF SetPid, ReadInv
  <1>2. ASSUME NEW m \in Maps, Wake(m) PROVE ReadInv'
    <2>1. pid \in Pids
      BY <1>2 DEF Wake, IInv, TypeOK
    <2>2. lastMap' = <<m>> /\ m \in MapsOf[pid]
      BY <1>2 DEF Wake
    <2>3. QED
      BY <2>1, <2>2 DEF ReadInv
  <1>3. ASSUME NEW f \in Files, LoadFile(f) PROVE ReadInv'
    BY <1>3 DEF LoadFile, ReadInv
  <1>4. CASE Publish
    BY <1>4 DEF Publish, ReadInv
  <1>5. CASE UNCHANGED vars
    BY <1>5 DEF vars, ReadInv
  <1>6. QED
    BY <1>1, <1>2, <1>3, <1>4, <1>5 DEF Next

(* The starting state of the loader is the contract's starting state. *)
LEMMA InitRefines == Init => L!Init
  BY DEF Init, L!Init

(* Every step of the loader or of the recorder is a step of the contract *)
(* or leaves the contract's variables alone.                              *)
LEMMA NextRefines == IInv /\ ReadInv /\ [Next]_vars => [L!Next]_L!vars
  <1> SUFFICES ASSUME IInv, ReadInv, [Next]_vars PROVE [L!Next]_L!vars
    OBVIOUS
  <1>1. ASSUME NEW p \in Pids \cup {0}, SetPid(p) PROVE [L!Next]_L!vars
    <2>1. L!Follow(p)
      BY <1>1 DEF SetPid, L!Follow
    <2>2. QED
      BY <2>1 DEF L!Next
  <1>2. ASSUME NEW m \in Maps, Wake(m) PROVE [L!Next]_L!vars
    BY <1>2 DEF Wake, L!vars
  <1>3. ASSUME NEW f \in Files, LoadFile(f) PROVE [L!Next]_L!vars
    <2>1. CASE f \notin tried
      <3>1. L!Try(f)
        BY <1>3, <2>1 DEF LoadFile, L!Try
      <3>2. QED
        BY <3>1 DEF L!Next
    <2>2. CASE f \in tried
      BY <1>3, <2>2 DEF LoadFile, L!vars
    <2>3. QED
      BY <2>1, <2>2
  <1>4. CASE Publish
    <2>1. PICK m \in Maps : lastMap = <<m>>
      BY <1>4 DEF Publish, ReadInv, IInv, TypeOK, OptMaps
    <2>2. m \subseteq tried
      BY <1>4, <2>1 DEF Publish, IInv, LoopInv, MapFiles
    <2>3. \E q \in Pids : m \in MapsOf[q]
      BY <1>4, <2>1 DEF Publish, ReadInv
    <2>4. L!Show(m)
      BY <1>4, <2>1, <2>2, <2>3 DEF Publish, L!Show
    <2>5. QED
      BY <2>4 DEF L!Next, Maps
  <1>5. CASE UNCHANGED vars
    BY <1>5 DEF vars, L!vars
  <1>6. QED
    BY <1>1, <1>2, <1>3, <1>4, <1>5 DEF Next

(* StackResolver::spawn implements the SymbolLoader contract, for every   *)
(* set of pids, files and maps: its for loop tries each file's symbol     *)
(* table at most once and never drops one, and it publishes only a map    *)
(* read for a followed pid after trying every file of it.                 *)
THEOREM ResolverRefinesLoader == Spec => SymbolLoaderSpec
  <1>1. Init => IInv /\ ReadInv
    BY InitIInv, InitReadInv
  <1>2. IInv /\ ReadInv /\ [Next]_vars => (IInv /\ ReadInv)'
    BY NextIInv, NextReadInv
  <1>3. QED
    BY <1>1, <1>2, InitRefines, NextRefines, PTL
       DEF Spec, SymbolLoaderSpec, L!Spec

=============================================================================
