------------------------------ MODULE StoreWindow ------------------------------
(***************************************************************************)
(* What the generic message store promises the threads that share it,     *)
(* with the writers' progress through store_message and the message count *)
(* left out: indices are handed out in increasing order; a message and    *)
(* its secondary index entries are stored only under an index already     *)
(* handed out; a call returns only an index it was handed; and the store  *)
(* forgets a message or its index entries only once at least Limit       *)
(* newer indices have been handed out after it.                           *)
(***************************************************************************)
EXTENDS Naturals

CONSTANT Limit

VARIABLES
    seq,        \* the next index to hand out
    kv,         \* the indices whose message is stored
    idx,        \* the indices that have secondary index entries
    returned    \* the indices returned to a caller

vars == <<seq, kv, idx, returned>>

Init ==
    /\ seq = 0
    /\ kv = {}
    /\ idx = {}
    /\ returned = {}

(* The window of indices the store keeps: the last Limit handed out. *)
InWindow(j) == j + Limit >= seq

Reserve ==
    /\ seq' = seq + 1
    /\ UNCHANGED <<kv, idx, returned>>

StoreMessage(i) ==
    /\ kv' = kv \cup {i}
    /\ UNCHANGED <<seq, idx, returned>>

StoreIndices(i) ==
    /\ idx' = idx \cup {i}
    /\ UNCHANGED <<seq, kv, returned>>

ForgetMessage(j) ==
    /\ ~InWindow(j)
    /\ kv' = kv \ {j}
    /\ UNCHANGED <<seq, idx, returned>>

ForgetIndices(j) ==
    /\ ~InWindow(j)
    /\ idx' = idx \ {j}
    /\ UNCHANGED <<seq, kv, returned>>

Return(i) ==
    /\ returned' = returned \cup {i}
    /\ UNCHANGED <<seq, kv, idx>>

Next ==
    \/ Reserve
    \/ \E i \in 0 .. (seq - 1) :
          \/ StoreMessage(i) \/ StoreIndices(i) \/ Return(i)
          \/ ForgetMessage(i) \/ ForgetIndices(i)

Spec == Init /\ [][Next]_vars

=============================================================================
