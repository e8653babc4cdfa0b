------------------------------- MODULE Recorder -------------------------------
(***************************************************************************)
(* What one observed connection promises its storage sink, direction by    *)
(* direction, with the bytes left out: the chunk records it emits, their   *)
(* counters, and whether each carries plaintext.                           *)
(*                                                                         *)
(* A direction starts in "handshake".  Key derivation is the rendezvous of *)
(* both directions: it records both connection messages at once and moves *)
(* both to "keyed", or rejects the key and moves both to "raw".  A keyed   *)
(* direction records decrypted chunks.  A direction leaves plaintext for   *)
(* good ("raw") when it is abandoned before the handshake or when a chunk  *)
(* fails to decrypt; it may flush what it still buffers as one record      *)
(* without plaintext, and a decrypt failure loses the counter of the chunk *)
(* that failed.  A raw direction records every payload as one record.      *)
(***************************************************************************)
EXTENDS Naturals, Sequences

CONSTANT Dirs

VARIABLES
    log,      \* log[d]: the records of d handed to the sink, in order
    counter,  \* counter[d]: the counter the next record of d is given
    mode      \* mode[d]: "handshake", "keyed" or "raw"

vars == <<log, counter, mode>>

Modes == {"handshake", "keyed", "raw"}

Records == [ctr : Nat, plain : {"cm", "dec", "none"}]

Rec(k, p) == [ctr |-> k, plain |-> p]

(* d's log when it leaves plaintext at counter k, flushing (f) or not. *)
Flushed(d, k, f) == IF f THEN Append(log[d], Rec(k, "none")) ELSE log[d]

FlushedCounter(k, f) == IF f THEN k + 1 ELSE k

Init ==
    /\ log = [d \in Dirs |-> <<>>]
    /\ counter = [d \in Dirs |-> 0]
    /\ mode = [d \in Dirs |-> "handshake"]

(* Key derivation succeeds: both connection messages are recorded. *)
KeyAgreed ==
    /\ \A d \in Dirs : mode[d] = "handshake"
    /\ log' = [d \in Dirs |-> Append(log[d], Rec(counter[d], "cm"))]
    /\ counter' = [d \in Dirs |-> counter[d] + 1]
    /\ mode' = [d \in Dirs |-> "keyed"]

(* Key derivation fails: both directions flush and go raw. *)
KeyRejected ==
    /\ \A d \in Dirs : mode[d] = "handshake"
    /\ \E f \in [Dirs -> BOOLEAN] :
          /\ log' = [d \in Dirs |-> Flushed(d, counter[d], f[d])]
          /\ counter' = [d \in Dirs |-> FlushedCounter(counter[d], f[d])]
    /\ mode' = [d \in Dirs |-> "raw"]

(* A direction is abandoned before the handshake completes. *)
Abandon(d) ==
    /\ mode[d] = "handshake"
    /\ \E f \in BOOLEAN :
          /\ log' = [log EXCEPT ![d] = Flushed(d, counter[d], f)]
          /\ counter' = [counter EXCEPT ![d] = FlushedCounter(counter[d], f)]
    /\ mode' = [mode EXCEPT ![d] = "raw"]

Decrypted(d) ==
    /\ mode[d] = "keyed"
    /\ log' = [log EXCEPT ![d] = Append(@, Rec(counter[d], "dec"))]
    /\ counter' = [counter EXCEPT ![d] = @ + 1]
    /\ UNCHANGED mode

(* A chunk fails to decrypt: its counter is lost, the rest is flushed. *)
DecryptFailed(d) ==
    /\ mode[d] = "keyed"
    /\ \E f \in BOOLEAN :
          /\ log' = [log EXCEPT ![d] = Flushed(d, counter[d] + 1, f)]
          /\ counter' = [counter EXCEPT ![d] = FlushedCounter(counter[d] + 1, f)]
    /\ mode' = [mode EXCEPT ![d] = "raw"]

RawData(d) ==
    /\ mode[d] = "raw"
    /\ log' = [log EXCEPT ![d] = Append(@, Rec(counter[d], "none"))]
    /\ counter' = [counter EXCEPT ![d] = @ + 1]
    /\ UNCHANGED mode

Next ==
    \/ KeyAgreed
    \/ KeyRejected
    \/ \E d \in Dirs : Abandon(d) \/ Decrypted(d) \/ DecryptFailed(d) \/ RawData(d)

Spec == Init /\ [][Next]_vars

-----------------------------------------------------------------------------
TypeOK ==
    /\ log \in [Dirs -> Seq(Records)]
    /\ counter \in [Dirs -> Nat]
    /\ mode \in [Dirs -> Modes]

(* Once a direction has recorded a chunk without plaintext, every later   *)
(* record of it is without plaintext too.                                 *)
PlainThenRaw ==
    \A d \in Dirs : \A i, j \in 1 .. Len(log[d]) :
        i < j /\ log[d][i].plain = "none" => log[d][j].plain = "none"

(* The connection message is recorded once per direction, as its first  *)
(* record and with counter 0; no decrypted record comes before it.       *)
CmFirst ==
    \A d \in Dirs : \A i \in 1 .. Len(log[d]) :
        /\ log[d][i].plain = "cm" <=> (i = 1 /\ log[d][1].plain # "none")
        /\ log[d][i].plain = "cm" => log[d][i].ctr = 0

(* A record with plaintext carries its position in the log as counter:   *)
(* the only counter a direction ever skips is the one of the chunk that  *)
(* failed to decrypt, and that happens after its last plaintext record.  *)
PlainAtPosition ==
    \A d \in Dirs : \A i \in 1 .. Len(log[d]) :
        log[d][i].plain # "none" => log[d][i].ctr = i - 1

=============================================================================
