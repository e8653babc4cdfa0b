-------------------------------- MODULE Store --------------------------------
(***************************************************************************)
(* The generic message store of src/storage_/store.rs.  A Store is cloned  *)
(* into every thread that records messages: the clones share the key-value *)
(* database kv, the atomic counters seq and count, and the secondary       *)
(* indices.  Each writer runs StoreCollector::store_message, whose steps   *)
(* are the atomic operations it makes on the shared state:                 *)
(*                                                                         *)
(*   reserve_index (seq.fetch_add), then, when index >= limit, the         *)
(*   delete_message of index - limit (kv.get, indices.delete_indices,      *)
(*   kv.delete), then kv.put, indices.store_indices and inc_count.         *)
(*                                                                         *)
(* Every database call may return an error, which `?` propagates: the      *)
(* writer abandons the call and returns Err with what it did so far left   *)
(* in place.  A message is its index; its payload and the index keys that  *)
(* store_indices derives from it are abstracted away.                      *)
(***************************************************************************)
EXTENDS Naturals, FiniteSets

CONSTANTS
    Writers,       \* the threads holding a clone of the store
    Limit,         \* Store::limit
    MaxIndex,      \* bound on the number of indices reserved in a run
    CanFail        \* whether a database call may return an error

ASSUME LimitAssumption == Limit \in Nat
ASSUME MaxIndexAssumption == MaxIndex \in Nat
ASSUME CanFailAssumption == CanFail \in BOOLEAN

VARIABLES
    seq,        \* Store::seq, the next index to hand out
    count,      \* Store::count
    kv,         \* the indices present in the key-value database
    idx,        \* the indices that have entries in the secondary indices
    pc,         \* where each writer is in store_message
    index,      \* the index each writer reserved
    returned    \* the indices of the store_message calls that returned Ok

vars == <<seq, count, kv, idx, pc, index, returned>>

Steps == {"idle", "get", "delidx", "delkv", "put", "storeidx", "inc"}

(* The steps at which a database call is made, any of which may fail. *)
DbSteps == {"get", "delidx", "delkv", "put", "storeidx"}

Init ==
    /\ seq = 0
    /\ count = 0
    /\ kv = {}
    /\ idx = {}
    /\ pc = [w \in Writers |-> "idle"]
    /\ index = [w \in Writers |-> 0]
    /\ returned = {}

(* An eviction one index too late: the window keeps limit - 1 messages. *)
EvictTargetLate(i) == i - Limit + 1

(* The index store_message evicts to make room for index i. *)
EvictTarget(i) == i - Limit

(* reserve_index returning the incremented value instead of the old one. *)
ReserveNew(w) ==
    /\ pc[w] = "idle"
    /\ seq < MaxIndex
    /\ index' = [index EXCEPT ![w] = seq + 1]
    /\ seq' = seq + 1
    /\ pc' = [pc EXCEPT ![w] = IF seq >= Limit THEN "get" ELSE "put"]
    /\ UNCHANGED <<count, kv, idx, returned>>

(* reserve_index as a load of seq and a later store of the loaded value  *)
(* plus one: a writer may load seq before the store of a writer that has *)
(* just reserved, and both then hold the same index.                     *)
ReserveSplit(w) ==
    /\ pc[w] = "idle"
    /\ seq < MaxIndex
    /\ \E v \in {seq} \cup {index[u] : u \in {u \in Writers : pc[u] # "idle"}} :
          /\ index' = [index EXCEPT ![w] = v]
          /\ seq' = v + 1
          /\ pc' = [pc EXCEPT ![w] = IF v >= Limit THEN "get" ELSE "put"]
    /\ UNCHANGED <<count, kv, idx, returned>>

(* store_message begins: reserve_index, then the `index >= self.limit`    *)
(* test choosing between eviction and the put.                            *)
Reserve(w) ==
    /\ pc[w] = "idle"
    /\ seq < MaxIndex
    /\ index' = [index EXCEPT ![w] = seq]
    /\ seq' = seq + 1
    /\ pc' = [pc EXCEPT ![w] = IF seq >= Limit THEN "get" ELSE "put"]
    /\ UNCHANGED <<count, kv, idx, returned>>

(* delete_message: kv.get of the evicted index; Ok(None) skips the delete *)
(* and delete_message returns Ok(()).                                     *)
DelGet(w) ==
    /\ pc[w] = "get"
    /\ pc' = [pc EXCEPT ![w] = IF EvictTarget(index[w]) \in kv
                                  THEN "delidx" ELSE "put"]
    /\ UNCHANGED <<seq, count, kv, idx, index, returned>>

(* delete_message: indices.delete_indices of the evicted index. *)
DelIdx(w) ==
    /\ pc[w] = "delidx"
    /\ idx' = idx \ {EvictTarget(index[w])}
    /\ pc' = [pc EXCEPT ![w] = "delkv"]
    /\ UNCHANGED <<seq, count, kv, index, returned>>

(* delete_message: kv.delete of the evicted index. *)
DelKv(w) ==
    /\ pc[w] = "delkv"
    /\ kv' = kv \ {EvictTarget(index[w])}
    /\ pc' = [pc EXCEPT ![w] = "put"]
    /\ UNCHANGED <<seq, count, idx, index, returned>>

(* msg.set_id(index) and kv.put. *)
Put(w) ==
    /\ pc[w] = "put"
    /\ kv' = kv \cup {index[w]}
    /\ pc' = [pc EXCEPT ![w] = "storeidx"]
    /\ UNCHANGED <<seq, count, idx, index, returned>>

(* indices.store_indices. *)
StoreIdx(w) ==
    /\ pc[w] = "storeidx"
    /\ idx' = idx \cup {index[w]}
    /\ pc' = [pc EXCEPT ![w] = "inc"]
    /\ UNCHANGED <<seq, count, kv, index, returned>>

(* inc_count and Ok(index). *)
Inc(w) ==
    /\ pc[w] = "inc"
    /\ count' = count + 1
    /\ returned' = returned \cup {index[w]}
    /\ pc' = [pc EXCEPT ![w] = "idle"]
    /\ UNCHANGED <<seq, kv, idx, index>>

(* A database call whose Err is dropped instead of propagated: the       *)
(* writer goes on to the next step as if the call had succeeded.          *)
AfterStep == [s \in DbSteps |->
                IF s = "get" THEN "put" ELSE IF s = "delidx" THEN "delkv"
                ELSE IF s = "delkv" THEN "put" ELSE IF s = "put" THEN "storeidx"
                ELSE "inc"]

FailIgnored(w) ==
    /\ CanFail
    /\ pc[w] \in DbSteps
    /\ pc' = [pc EXCEPT ![w] = AfterStep[pc[w]]]
    /\ UNCHANGED <<seq, count, kv, idx, index, returned>>

(* A database call returns Err: `?` ends store_message with the effects   *)
(* of the calls before it left in place.                                  *)
Fail(w) ==
    /\ CanFail
    /\ pc[w] \in DbSteps
    /\ pc' = [pc EXCEPT ![w] = "idle"]
    /\ UNCHANGED <<seq, count, kv, idx, index, returned>>

Next ==
    \E w \in Writers :
        \/ Reserve(w) \/ DelGet(w) \/ DelIdx(w) \/ DelKv(w)
        \/ Put(w) \/ StoreIdx(w) \/ Inc(w) \/ Fail(w)

Spec == Init /\ [][Next]_vars

-----------------------------------------------------------------------------
(* Types; a writer inside store_message holds an index below seq, as      *)
(* fetch_add hands out the value seq had before the increment.            *)
TypeOK ==
    /\ seq \in Nat /\ count \in Nat
    /\ kv \subseteq Nat /\ idx \subseteq Nat /\ returned \subseteq Nat
    /\ pc \in [Writers -> Steps]
    /\ index \in [Writers -> Nat]
    /\ \A w \in Writers : pc[w] # "idle" => index[w] < seq

(* No writer evicts a message that is among the last Limit indices handed *)
(* out: every store_message that returned Ok(j) with j + limit >= seq     *)
(* still has its message in kv and its secondary index entries, whatever  *)
(* the other clones and the failed calls did.                             *)
RecentKept ==
    \A j \in returned : j + Limit >= seq => j \in kv /\ j \in idx

(* kv.put never overwrites a stored message: the index a store_message   *)
(* writes under was handed to that call alone by the fetch_add of          *)
(* reserve_index, and no other clone has put a message under it since.     *)
PutFresh == [][\A w \in Writers : Put(w) => index[w] \notin kv]_vars

Quiescent == \A w \in Writers : pc[w] = "idle"

(* The eviction at the head of store_message keeps the store at limit     *)
(* messages: once no store_message is running, kv holds at most limit.    *)
StoreBounded == Quiescent => Cardinality(kv) <= Limit

(* StoreCollector::delete_message "deletes the message and corresponding  *)
(* secondary indices": once no store_message is running, every secondary  *)
(* index entry refers to a message that is in kv.                         *)
IndicesPointToMessages == Quiescent => idx \subseteq kv

-----------------------------------------------------------------------------
(***************************************************************************)
(* Refinement: the clones of the store, with their concurrent and failing *)
(* store_message calls, implement the StoreWindow contract once each      *)
(* writer's progress and the message count are hidden.                    *)
(***************************************************************************)

W == INSTANCE StoreWindow

(* Every step of every store_message is a step of the contract or leaves *)
(* seq, kv, the secondary indices and the returned indices alone: in      *)
(* particular delete_message, reached from index >= limit, only ever      *)
(* removes a message, or its index entries, that is out of the window.    *)
StoreWindowSpec == W!Spec

=============================================================================
