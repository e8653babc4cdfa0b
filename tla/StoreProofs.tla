----------------------------- MODULE StoreProofs -----------------------------
(***************************************************************************)
(* Proofs about Store, for every limit, every bound and any set of         *)
(* writers: the type invariant, and that concurrent store_message calls    *)
(* never evict one of the last limit messages that were stored.            *)
(***************************************************************************)
EXTENDS Store, TLAPS

USE LimitAssumption, MaxIndexAssumption, CanFailAssumption

(* A writer on the eviction path reserved an index of at least limit, so   *)
(* the index it evicts is index - limit in the naturals.                   *)
EvictingAbove ==
    \A w \in Writers : pc[w] \in {"get", "delidx", "delkv"} => index[w] >= Limit

(* A writer past kv.put has its message in kv, and one past                *)
(* store_indices its index entries, while its index is recent.            *)
InFlightKept ==
    \A w \in Writers :
        index[w] + Limit >= seq =>
            /\ pc[w] \in {"storeidx", "inc"} => index[w] \in kv
            /\ pc[w] = "inc" => index[w] \in idx

IInv == TypeOK /\ EvictingAbove /\ InFlightKept /\ RecentKept

LEMMA InitIInv == Init => IInv
  BY DEF Init, IInv, TypeOK, EvictingAbove, InFlightKept, RecentKept, Steps

(* The message an evicting writer removes is never a recent one: its index *)
(* is below seq - limit.                                                   *)
LEMMA EvictOld ==
  ASSUME TypeOK, EvictingAbove, NEW w \in Writers,
         pc[w] \in {"get", "delidx", "delkv"}, NEW j \in Nat, j + Limit >= seq
  PROVE  EvictTarget(index[w]) # j
  BY DEF TypeOK, EvictingAbove, EvictTarget

LEMMA NextIInv == IInv /\ [Next]_vars => IInv'
  <1> SUFFICES ASSUME IInv, [Next]_vars PROVE IInv'
    OBVIOUS
  <1> USE DEF IInv
  <1>1. ASSUME NEW w \in Writers, Reserve(w) PROVE IInv'
    <2>1. TypeOK'
      BY <1>1 DEF Reserve, TypeOK, Steps
    <2>2. EvictingAbove'
      BY <1>1 DEF Reserve, TypeOK, EvictingAbove
    <2>3. InFlightKept'
      BY <1>1 DEF Reserve, TypeOK, InFlightKept
    <2>4. RecentKept'
      BY <1>1 DEF Reserve, TypeOK, RecentKept
    <2>5. QED
      BY <2>1, <2>2, <2>3, <2>4
  <1>2. ASSUME NEW w \in Writers, DelGet(w) PROVE IInv'
    BY <1>2 DEF DelGet, TypeOK, Steps, EvictingAbove, InFlightKept, RecentKept
  <1>3. ASSUME NEW w \in Writers, DelIdx(w) PROVE IInv'
    <2>1. \A j \in Nat : j + Limit >= seq => EvictTarget(index[w]) # j
      BY <1>3, EvictOld DEF DelIdx
    <2>2. TypeOK' /\ EvictingAbove'
      BY <1>3 DEF DelIdx, TypeOK, Steps, EvictingAbove
    <2>3. InFlightKept'
      BY <1>3, <2>1 DEF DelIdx, TypeOK, InFlightKept
    <2>4. RecentKept'
      BY <1>3, <2>1 DEF DelIdx, TypeOK, RecentKept
    <2>5. QED
      BY <2>2, <2>3, <2>4
  <1>4. ASSUME NEW w \in Writers, DelKv(w) PROVE IInv'
    <2>1. \A j \in Nat : j + Limit >= seq => EvictTarget(index[w]) # j
      BY <1>4, EvictOld DEF DelKv
    <2>2. TypeOK' /\ EvictingAbove'
      BY <1>4 DEF DelKv, TypeOK, Steps, EvictingAbove
    <2>3. InFlightKept'
      BY <1>4, <2>1 DEF DelKv, TypeOK, InFlightKept
    <2>4. RecentKept'
      BY <1>4, <2>1 DEF DelKv, TypeOK, RecentKept
    <2>5. QED
      BY <2>2, <2>3, <2>4
  <1>5. ASSUME NEW w \in Writers, Put(w) PROVE IInv'
    BY <1>5 DEF Put, TypeOK, Steps, EvictingAbove, InFlightKept, RecentKept
  <1>6. ASSUME NEW w \in Writers, StoreIdx(w) PROVE IInv'
    BY <1>6 DEF StoreIdx, TypeOK, Steps, EvictingAbove, InFlightKept, RecentKept
  <1>7. ASSUME NEW w \in Writers, Inc(w) PROVE IInv'
    <2>0. pc' \in [Writers -> Steps] /\ pc'[w] = "idle"
      BY <1>7 DEF Inc, TypeOK, Steps
    <2>1. TypeOK' /\ EvictingAbove'
      <3>1. returned' \subseteq Nat /\ count' \in Nat
        <4>1. returned' \subseteq Nat
          BY <1>7 DEF Inc, TypeOK
        <4>2. count' \in Nat
          BY <1>7 DEF Inc, TypeOK
        <4>3. QED
          BY <4>1, <4>2
      <3>2. \A v \in Writers : pc'[v] # "idle" => pc'[v] = pc[v] /\ v # w
        BY <1>7 DEF Inc, TypeOK
      <3>3. QED
        BY <1>7, <2>0, <3>1, <3>2 DEF Inc, TypeOK, EvictingAbove
    <2>2. InFlightKept'
      BY <1>7 DEF Inc, TypeOK, InFlightKept
    <2>3. index[w] + Limit >= seq => index[w] \in kv /\ index[w] \in idx
      BY <1>7 DEF Inc, InFlightKept
    <2>4. RecentKept'
      BY <1>7, <2>3 DEF Inc, TypeOK, RecentKept
    <2>5. QED
      BY <2>1, <2>2, <2>4
  <1>8. ASSUME NEW w \in Writers, Fail(w) PROVE IInv'
    BY <1>8 DEF Fail, TypeOK, Steps, DbSteps, EvictingAbove, InFlightKept, RecentKept
  <1>9. CASE UNCHANGED vars
    BY <1>9 DEF vars, TypeOK, EvictingAbove, InFlightKept, RecentKept
  <1>10. QED
    BY <1>1, <1>2, <1>3, <1>4, <1>5, <1>6, <1>7, <1>8, <1>9 DEF Next

(* Every store_message that returned Ok(j), with j among the last limit    *)
(* indices reserved, still has its message and its index entries, for any *)
(* interleaving of the clones' calls and any of them failing.              *)
THEOREM RecentKeptThm == Spec => []RecentKept
  <1>1. IInv => RecentKept
    BY DEF IInv
  <1>2. QED
    BY <1>1, InitIInv, NextIInv, PTL DEF Spec

(* The type invariant of the store, which RecentKeptThm's invariant        *)
(* carries.                                                                *)
THEOREM StoreTypeCorrect == Spec => []TypeOK
  <1>1. IInv => TypeOK
    BY DEF IInv
  <1>2. QED
    BY <1>1, InitIInv, NextIInv, PTL DEF Spec


-----------------------------------------------------------------------------
(* Refinement of the StoreWindow contract. *)

LEMMA InitRefines == Init => W!Init
  BY DEF Init, W!Init

(* The index a writer inside store_message holds is one handed out. *)
LEMMA HeldIndex ==
  ASSUME TypeOK, NEW w \in Writers, pc[w] # "idle"
  PROVE  index[w] \in 0 .. (seq - 1)
  BY DEF TypeOK

(* The index delete_message is called with is handed out and out of the *)
(* window.                                                                *)
LEMMA EvictedOutside ==
  ASSUME TypeOK, EvictingAbove, NEW w \in Writers, pc[w] \in {"delidx", "delkv"}
  PROVE  /\ EvictTarget(index[w]) \in 0 .. (seq - 1)
         /\ ~W!InWindow(EvictTarget(index[w]))
  <1>1. index[w] \in Nat /\ index[w] < seq /\ index[w] >= Limit /\ seq \in Nat
    BY DEF TypeOK, EvictingAbove
  <1>2. QED
    BY <1>1 DEF EvictTarget, W!InWindow

LEMMA NextRefines == IInv /\ [Next]_vars => [W!Next]_W!vars
  <1> SUFFICES ASSUME IInv, [Next]_vars PROVE [W!Next]_W!vars
    OBVIOUS
  <1>0. TypeOK /\ EvictingAbove
    BY DEF IInv
  <1>1. ASSUME NEW w \in Writers, Reserve(w) PROVE [W!Next]_W!vars
    BY <1>1 DEF Reserve, W!Next, W!Reserve
  <1>2. ASSUME NEW w \in Writers, DelGet(w) PROVE [W!Next]_W!vars
    BY <1>2 DEF DelGet, W!vars
  <1>3. ASSUME NEW w \in Writers, DelIdx(w) PROVE [W!Next]_W!vars
    <2>1. EvictTarget(index[w]) \in 0 .. (seq - 1) /\ ~W!InWindow(EvictTarget(index[w]))
      BY <1>0, <1>3, EvictedOutside DEF DelIdx
    <2>2. W!ForgetIndices(EvictTarget(index[w]))
      BY <1>3, <2>1 DEF DelIdx, W!ForgetIndices
    <2>3. QED
      BY <2>1, <2>2 DEF W!Next
  <1>4. ASSUME NEW w \in Writers, DelKv(w) PROVE [W!Next]_W!vars
    <2>1. EvictTarget(index[w]) \in 0 .. (seq - 1) /\ ~W!InWindow(EvictTarget(index[w]))
      BY <1>0, <1>4, EvictedOutside DEF DelKv
    <2>2. W!ForgetMessage(EvictTarget(index[w]))
      BY <1>4, <2>1 DEF DelKv, W!ForgetMessage
    <2>3. QED
      BY <2>1, <2>2 DEF W!Next
  <1>5. ASSUME NEW w \in Writers, Put(w) PROVE [W!Next]_W!vars
    <2>1. index[w] \in 0 .. (seq - 1)
      BY <1>0, <1>5, HeldIndex DEF Put
    <2>2. W!StoreMessage(index[w])
      BY <1>5 DEF Put, W!StoreMessage
    <2>3. QED
      BY <2>1, <2>2 DEF W!Next
  <1>6. ASSUME NEW w \in Writers, StoreIdx(w) PROVE [W!Next]_W!vars
    <2>1. index[w] \in 0 .. (seq - 1)
      BY <1>0, <1>6, HeldIndex DEF StoreIdx
    <2>2. W!StoreIndices(index[w])
      BY <1>6 DEF StoreIdx, W!StoreIndices
    <2>3. QED
      BY <2>1, <2>2 DEF W!Next
  <1>7. ASSUME NEW w \in Writers, Inc(w) PROVE [W!Next]_W!vars
    <2>1. index[w] \in 0 .. (seq - 1)
      BY <1>0, <1>7, HeldIndex DEF Inc
    <2>2. W!Return(index[w])
      BY <1>7 DEF Inc, W!Return
    <2>3. QED
      BY <2>1, <2>2 DEF W!Next
  <1>8. ASSUME NEW w \in Writers, Fail(w) PROVE [W!Next]_W!vars
    BY <1>8 DEF Fail, W!vars
  <1>9. CASE UNCHANGED vars
    BY <1>9 DEF vars, W!vars
  <1>10. QED
    BY <1>1, <1>2, <1>3, <1>4, <1>5, <1>6, <1>7, <1>8, <1>9 DEF Next

(* The store implements its contract for any set of writers, any limit   *)
(* and any failing calls: every step of the clones' store_message calls  *)
(* is a contract step or a stutter, so no interleaving of them ever       *)
(* forgets a message, or its index entries, within the last limit        *)
(* indices handed out.                                                    *)
THEOREM StoreRefinesWindow == Spec => StoreWindowSpec
  <1>1. Spec => []IInv
    BY InitIInv, NextIInv, PTL DEF Spec
  <1>2. QED
    BY <1>1, InitRefines, NextRefines, PTL DEF Spec, StoreWindowSpec, W!Spec

-----------------------------------------------------------------------------
(* Indices in kv were all handed out; a writer that has still to put its   *)
(* message finds no message under its index; and the writers inside       *)
(* store_message hold pairwise different indices.                         *)
FreshInv ==
    /\ \A j \in kv : j < seq
    /\ \A w \in Writers : pc[w] \in {"get", "delidx", "delkv", "put"} => index[w] \notin kv
    /\ \A v, w \in Writers : v # w /\ pc[v] # "idle" /\ pc[w] # "idle" => index[v] # index[w]

LEMMA InitFresh == Init => FreshInv
  BY DEF Init, FreshInv

LEMMA NextFresh == TypeOK /\ FreshInv /\ [Next]_vars => FreshInv'
  <1> SUFFICES ASSUME TypeOK, FreshInv, [Next]_vars PROVE FreshInv'
    OBVIOUS
  <1>1. ASSUME NEW w \in Writers, Reserve(w) PROVE FreshInv'
    <2>1. seq \notin kv /\ seq \in Nat
      BY DEF FreshInv, TypeOK
    <2>2. \A v \in Writers : pc[v] # "idle" => index[v] < seq /\ v # w
      BY <1>1 DEF Reserve, TypeOK
    <2>3. (\A j \in kv' : j < seq')
      BY <1>1, <2>1 DEF Reserve, FreshInv, TypeOK
    <2>4. \A v \in Writers : pc'[v] \in {"get", "delidx", "delkv", "put"} => index'[v] \notin kv'
      BY <1>1, <2>1 DEF Reserve, FreshInv, TypeOK
    <2>5. \A u, v \in Writers : u # v /\ pc'[u] # "idle" /\ pc'[v] # "idle" => index'[u] # index'[v]
      BY <1>1, <2>2 DEF Reserve, FreshInv, TypeOK
    <2>6. QED
      BY <2>3, <2>4, <2>5 DEF FreshInv
  <1>2. ASSUME NEW w \in Writers, DelGet(w) PROVE FreshInv'
    BY <1>2 DEF DelGet, FreshInv, TypeOK
  <1>3. ASSUME NEW w \in Writers, DelIdx(w) PROVE FreshInv'
    BY <1>3 DEF DelIdx, FreshInv, TypeOK
  <1>4. ASSUME NEW w \in Writers, DelKv(w) PROVE FreshInv'
    BY <1>4 DEF DelKv, FreshInv, TypeOK
  <1>5. ASSUME NEW w \in Writers, Put(w) PROVE FreshInv'
    <2>1. index[w] < seq
      BY <1>5 DEF Put, TypeOK
    <2>2. \A v \in Writers : v # w /\ pc[v] # "idle" => index[v] # index[w]
      BY <1>5 DEF Put, FreshInv
    <2>3. QED
      BY <1>5, <2>1, <2>2 DEF Put, FreshInv, TypeOK
  <1>6. ASSUME NEW w \in Writers, StoreIdx(w) PROVE FreshInv'
    BY <1>6 DEF StoreIdx, FreshInv, TypeOK
  <1>7. ASSUME NEW w \in Writers, Inc(w) PROVE FreshInv'
    BY <1>7 DEF Inc, FreshInv, TypeOK
  <1>8. ASSUME NEW w \in Writers, Fail(w) PROVE FreshInv'
    BY <1>8 DEF Fail, FreshInv, TypeOK
  <1>9. CASE UNCHANGED vars
    BY <1>9 DEF vars, FreshInv
  <1>10. QED
    BY <1>1, <1>2, <1>3, <1>4, <1>5, <1>6, <1>7, <1>8, <1>9 DEF Next

(* What a step of PutFresh may not do, as a formula of its own. *)
PutStepFresh == \A w \in Writers : Put(w) => index[w] \notin kv

(* kv.put never overwrites a stored message, for any number of clones and *)
(* any limit: the fetch_add of reserve_index hands each call an index of  *)
(* its own, above every index already in kv.                              *)
THEOREM PutFreshThm == Spec => PutFresh
  <1>1. Init => IInv /\ FreshInv
    BY InitIInv, InitFresh
  <1>2. IInv /\ FreshInv /\ [Next]_vars => (IInv /\ FreshInv)'
    BY NextIInv, NextFresh DEF IInv
  <1>3. FreshInv => PutStepFresh
    BY DEF FreshInv, PutStepFresh, Put
  <1>4. QED
    BY <1>1, <1>2, <1>3, PTL DEF Spec, PutFresh, PutStepFresh

=============================================================================
