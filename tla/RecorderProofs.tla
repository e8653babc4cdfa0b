---------------------------- MODULE RecorderProofs ----------------------------
(***************************************************************************)
(* Proofs about the Recorder contract for any set of directions: no        *)
(* plaintext after a record without it, and the connection message first. *)
(***************************************************************************)
EXTENDS Recorder, SequenceTheorems, TLAPS

(* A direction still in the handshake has recorded nothing; a keyed one  *)
(* has recorded its connection message and nothing without plaintext,   *)
(* and its next counter is the length of its log.                        *)
ModeLog ==
    \A d \in Dirs :
        /\ mode[d] = "handshake" => log[d] = <<>> /\ counter[d] = 0
        /\ mode[d] = "keyed" =>
              /\ Len(log[d]) >= 1 /\ counter[d] = Len(log[d])
              /\ \A i \in 1 .. Len(log[d]) : log[d][i].plain # "none"

IInv == TypeOK /\ ModeLog /\ PlainThenRaw /\ CmFirst /\ PlainAtPosition

-----------------------------------------------------------------------------
(* Appending a record to a log of records. *)
LEMMA AppendRec ==
  ASSUME NEW s \in Seq(Records), NEW k \in Nat, NEW p \in {"cm", "dec", "none"}
  PROVE  /\ Append(s, Rec(k, p)) \in Seq(Records)
         /\ Len(Append(s, Rec(k, p))) = Len(s) + 1
         /\ \A i \in 1 .. Len(s) : Append(s, Rec(k, p))[i] = s[i]
         /\ Append(s, Rec(k, p))[Len(s) + 1] = Rec(k, p)
  <1>1. Rec(k, p) \in Records
    BY DEF Rec, Records
  <1>2. QED
    BY <1>1, AppendProperties

LEMMA InitIInv == Init => IInv
  BY DEF Init, IInv, TypeOK, ModeLog, PlainThenRaw, CmFirst, PlainAtPosition, Modes

(* One direction's part of the invariant. *)
DirInv(d) ==
    /\ log[d] \in Seq(Records) /\ counter[d] \in Nat /\ mode[d] \in Modes
    /\ mode[d] = "handshake" => log[d] = <<>> /\ counter[d] = 0
    /\ mode[d] = "keyed" =>
          /\ Len(log[d]) >= 1 /\ counter[d] = Len(log[d])
          /\ \A i \in 1 .. Len(log[d]) : log[d][i].plain # "none"
    /\ \A i, j \in 1 .. Len(log[d]) :
          i < j /\ log[d][i].plain = "none" => log[d][j].plain = "none"
    /\ \A i \in 1 .. Len(log[d]) :
          /\ log[d][i].plain = "cm" <=> (i = 1 /\ log[d][1].plain # "none")
          /\ log[d][i].plain = "cm" => log[d][i].ctr = 0
    /\ \A i \in 1 .. Len(log[d]) : log[d][i].plain # "none" => log[d][i].ctr = i - 1

LEMMA DirInvIff ==
  IInv <=> /\ log \in [Dirs -> Seq(Records)]
           /\ counter \in [Dirs -> Nat]
           /\ mode \in [Dirs -> Modes]
           /\ \A d \in Dirs : DirInv(d)
  BY DEF IInv, TypeOK, ModeLog, PlainThenRaw, CmFirst, PlainAtPosition, DirInv

(* A handshake direction records its connection message and is keyed. *)
LEMMA AgreeDir ==
  ASSUME NEW d, DirInv(d), mode[d] = "handshake",
         log'[d] = Append(log[d], Rec(counter[d], "cm")),
         counter'[d] = counter[d] + 1, mode'[d] = "keyed"
  PROVE  DirInv(d)'
  <1>1. log[d] = <<>> /\ counter[d] = 0
    BY DEF DirInv
  <1>2. log'[d] = <<Rec(0, "cm")>>
    BY <1>1
  <1>3. QED
    BY <1>1, <1>2 DEF DirInv, Rec, Records, Modes

(* A direction that leaves plaintext, flushing at counter k or not. *)
LEMMA FlushDir ==
  ASSUME NEW d, DirInv(d), mode[d] # "raw", NEW k \in Nat, NEW f \in BOOLEAN,
         log'[d] = Flushed(d, k, f), counter'[d] \in Nat, mode'[d] = "raw"
  PROVE  DirInv(d)'
  <1>1. CASE ~f
    BY <1>1 DEF DirInv, Flushed, Modes
  <1>2. CASE f
    <2> DEFINE s == log[d]
    <2>1. s \in Seq(Records)
      BY DEF DirInv
    <2>2. /\ log'[d] \in Seq(Records)
          /\ Len(log'[d]) = Len(s) + 1
          /\ \A i \in 1 .. Len(s) : log'[d][i] = s[i]
          /\ log'[d][Len(s) + 1] = Rec(k, "none")
      BY <1>2, <2>1, AppendRec DEF Flushed
    <2>3. \A i \in 1 .. Len(s) : s[i].plain # "none"
      BY DEF DirInv, Modes
    <2>4. Len(s) >= 1 => log'[d][1] = s[1]
      BY <2>1, <2>2
    <2>5. \A i \in 1 .. Len(log'[d]) :
             log'[d][i].plain # "none" => log'[d][i].ctr = i - 1
      <3> SUFFICES ASSUME NEW i \in 1 .. Len(log'[d]), log'[d][i].plain # "none"
                   PROVE  log'[d][i].ctr = i - 1
        OBVIOUS
      <3>1. i <= Len(s)
        BY <2>1, <2>2 DEF Rec
      <3>2. QED
        BY <2>2, <3>1 DEF DirInv
    <2>6. \A i, j \in 1 .. Len(log'[d]) :
             i < j /\ log'[d][i].plain = "none" => log'[d][j].plain = "none"
      <3> SUFFICES ASSUME NEW i \in 1 .. Len(log'[d]), NEW j \in 1 .. Len(log'[d]),
                          i < j, log'[d][i].plain = "none"
                   PROVE  log'[d][j].plain = "none"
        OBVIOUS
      <3>1. i <= Len(s) /\ log'[d][i] = s[i]
        BY <2>1, <2>2
      <3>2. i > Len(s)
        BY <2>3, <3>1
      <3>3. QED
        BY <3>1, <3>2
    <2>7. \A i \in 1 .. Len(log'[d]) :
             /\ log'[d][i].plain = "cm" <=> (i = 1 /\ log'[d][1].plain # "none")
             /\ log'[d][i].plain = "cm" => log'[d][i].ctr = 0
      <3> SUFFICES ASSUME NEW i \in 1 .. Len(log'[d])
                   PROVE  /\ log'[d][i].plain = "cm" <=> (i = 1 /\ log'[d][1].plain # "none")
                          /\ log'[d][i].plain = "cm" => log'[d][i].ctr = 0
        OBVIOUS
      <3>1. CASE i <= Len(s)
        BY <2>1, <2>2, <2>4, <3>1 DEF DirInv
      <3>2. CASE i = Len(s) + 1
        BY <2>1, <2>2, <2>4, <3>2 DEF DirInv, Rec
      <3>3. QED
        BY <2>1, <2>2, <3>1, <3>2
    <2>8. QED
      BY <2>1, <2>2, <2>5, <2>6, <2>7 DEF DirInv, Modes
  <1>3. QED
    BY <1>1, <1>2

(* A direction appends a record to its log without changing its mode. *)
LEMMA AppendDir ==
  ASSUME NEW d, DirInv(d), NEW p \in {"dec", "none"},
         mode[d] = IF p = "dec" THEN "keyed" ELSE "raw",
         log'[d] = Append(log[d], Rec(counter[d], p)),
         counter'[d] = counter[d] + 1, mode'[d] = mode[d]
  PROVE  DirInv(d)'
  <1> DEFINE s == log[d]
  <1>1. s \in Seq(Records) /\ counter[d] \in Nat
    BY DEF DirInv
  <1>2. /\ log'[d] \in Seq(Records)
        /\ Len(log'[d]) = Len(s) + 1
        /\ \A i \in 1 .. Len(s) : log'[d][i] = s[i]
        /\ log'[d][Len(s) + 1] = Rec(counter[d], p)
    BY <1>1, AppendRec
  <1>3. p = "dec" => Len(s) >= 1 /\ \A i \in 1 .. Len(s) : s[i].plain # "none"
    BY DEF DirInv
  <1>4. Len(s) >= 1 => log'[d][1] = s[1]
    BY <1>1, <1>2
  <1>5. p = "dec" => counter[d] = Len(s)
    BY DEF DirInv
  <1>6. \A i \in 1 .. Len(log'[d]) : log'[d][i].plain # "none" => log'[d][i].ctr = i - 1
    <2> SUFFICES ASSUME NEW i \in 1 .. Len(log'[d]), log'[d][i].plain # "none"
                 PROVE  log'[d][i].ctr = i - 1
      OBVIOUS
    <2>1. CASE i <= Len(s)
      BY <1>2, <2>1 DEF DirInv
    <2>2. CASE i = Len(s) + 1
      BY <1>2, <1>5, <2>2 DEF Rec
    <2>3. QED
      BY <1>1, <1>2, <2>1, <2>2
  <1>7. \A i, j \in 1 .. Len(log'[d]) :
           i < j /\ log'[d][i].plain = "none" => log'[d][j].plain = "none"
    <2> SUFFICES ASSUME NEW i \in 1 .. Len(log'[d]), NEW j \in 1 .. Len(log'[d]),
                        i < j, log'[d][i].plain = "none"
                 PROVE  log'[d][j].plain = "none"
      OBVIOUS
    <2>1. i <= Len(s) /\ log'[d][i] = s[i]
      BY <1>1, <1>2
    <2>2. CASE j <= Len(s)
      BY <1>2, <2>1, <2>2 DEF DirInv
    <2>3. CASE j = Len(s) + 1
      <3>1. p = "none"
        BY <1>3, <2>1
      <3>2. QED
        BY <1>2, <2>3, <3>1 DEF Rec
    <2>4. QED
      BY <1>1, <1>2, <2>2, <2>3
  <1>8. \A i \in 1 .. Len(log'[d]) :
           /\ log'[d][i].plain = "cm" <=> (i = 1 /\ log'[d][1].plain # "none")
           /\ log'[d][i].plain = "cm" => log'[d][i].ctr = 0
    <2> SUFFICES ASSUME NEW i \in 1 .. Len(log'[d])
                 PROVE  /\ log'[d][i].plain = "cm" <=> (i = 1 /\ log'[d][1].plain # "none")
                        /\ log'[d][i].plain = "cm" => log'[d][i].ctr = 0
      OBVIOUS
    <2>1. CASE i <= Len(s)
      BY <1>1, <1>2, <1>4, <2>1 DEF DirInv
    <2>2. CASE i = Len(s) + 1
      <3>1. log'[d][i].plain # "cm"
        BY <1>2, <2>2 DEF Rec
      <3>2. p = "none" /\ i = 1 => log'[d][1].plain = "none"
        BY <1>2, <2>2 DEF Rec
      <3>3. p = "dec" => i # 1
        BY <1>1, <1>3, <2>2
      <3>4. QED
        BY <3>1, <3>2, <3>3
    <2>3. QED
      BY <1>1, <1>2, <2>1, <2>2
  <1>9. mode'[d] = "keyed" =>
           /\ Len(log'[d]) >= 1 /\ counter'[d] = Len(log'[d])
           /\ \A i \in 1 .. Len(log'[d]) : log'[d][i].plain # "none"
    <2> SUFFICES ASSUME mode'[d] = "keyed"
                 PROVE  /\ Len(log'[d]) >= 1 /\ counter'[d] = Len(log'[d])
                        /\ \A i \in 1 .. Len(log'[d]) : log'[d][i].plain # "none"
      OBVIOUS
    <2>1. p = "dec"
      OBVIOUS
    <2>2. QED
      BY <1>1, <1>2, <1>3, <1>5, <2>1 DEF Rec
  <1>10. QED
    BY <1>1, <1>2, <1>6, <1>7, <1>8, <1>9 DEF DirInv, Modes

LEMMA NextIInv == IInv /\ [Next]_vars => IInv'
  <1> SUFFICES ASSUME IInv, [Next]_vars PROVE IInv'
    OBVIOUS
  <1>0. /\ log \in [Dirs -> Seq(Records)]
        /\ counter \in [Dirs -> Nat]
        /\ mode \in [Dirs -> Modes]
        /\ \A d \in Dirs : DirInv(d)
    BY DirInvIff
  <1>9. IInv' <=> /\ log' \in [Dirs -> Seq(Records)]
                  /\ counter' \in [Dirs -> Nat]
                  /\ mode' \in [Dirs -> Modes]
                  /\ \A d \in Dirs : DirInv(d)'
    BY DEF IInv, TypeOK, ModeLog, PlainThenRaw, CmFirst, PlainAtPosition, DirInv
  <1>1. CASE KeyAgreed
    <2>1. \A d \in Dirs : DirInv(d)'
      BY <1>0, <1>1, AgreeDir DEF KeyAgreed
    <2>2. /\ log' \in [Dirs -> Seq(Records)]
          /\ counter' \in [Dirs -> Nat]
          /\ mode' \in [Dirs -> Modes]
      BY <1>0, <1>1, AppendRec DEF KeyAgreed, Modes
    <2>3. QED
      BY <2>1, <2>2, <1>9
  <1>2. CASE KeyRejected
    <2>1. PICK f \in [Dirs -> BOOLEAN] :
              /\ log' = [d \in Dirs |-> Flushed(d, counter[d], f[d])]
              /\ counter' = [d \in Dirs |-> FlushedCounter(counter[d], f[d])]
      BY <1>2 DEF KeyRejected
    <2>2. \A d \in Dirs : FlushedCounter(counter[d], f[d]) \in Nat
      BY <1>0 DEF FlushedCounter
    <2>3. \A d \in Dirs : DirInv(d)'
      BY <1>0, <1>2, <2>1, <2>2, FlushDir DEF KeyRejected, Modes
    <2>4. \A d \in Dirs : Flushed(d, counter[d], f[d]) \in Seq(Records)
      BY <1>0, AppendRec DEF Flushed
    <2>5. /\ log' \in [Dirs -> Seq(Records)]
          /\ counter' \in [Dirs -> Nat]
          /\ mode' \in [Dirs -> Modes]
      BY <1>2, <2>1, <2>2, <2>4 DEF KeyRejected, Modes
    <2>6. QED
      BY <2>3, <2>5, <1>9
  <1>3. ASSUME NEW e \in Dirs, Abandon(e) PROVE IInv'
    <2>1. PICK f \in BOOLEAN :
              /\ log' = [log EXCEPT ![e] = Flushed(e, counter[e], f)]
              /\ counter' = [counter EXCEPT ![e] = FlushedCounter(counter[e], f)]
      BY <1>3 DEF Abandon
    <2>2. FlushedCounter(counter[e], f) \in Nat /\ Flushed(e, counter[e], f) \in Seq(Records)
      BY <1>0, AppendRec DEF FlushedCounter, Flushed
    <2>3. DirInv(e)'
      BY <1>0, <1>3, <2>1, <2>2, FlushDir DEF Abandon
    <2>4. \A d \in Dirs \ {e} : DirInv(d)' = DirInv(d)
      BY <1>3, <2>1 DEF Abandon, DirInv
    <2>5. /\ log' \in [Dirs -> Seq(Records)]
          /\ counter' \in [Dirs -> Nat]
          /\ mode' \in [Dirs -> Modes]
      BY <1>0, <1>3, <2>1, <2>2 DEF Abandon, Modes
    <2>6. QED
      BY <1>0, <2>3, <2>4, <2>5, <1>9
  <1>4. ASSUME NEW e \in Dirs, Decrypted(e) PROVE IInv'
    <2>1. DirInv(e)'
      BY <1>0, <1>4, AppendDir DEF Decrypted
    <2>2. \A d \in Dirs \ {e} : DirInv(d)' = DirInv(d)
      BY <1>4 DEF Decrypted, DirInv
    <2>3. /\ log' \in [Dirs -> Seq(Records)]
          /\ counter' \in [Dirs -> Nat]
          /\ mode' \in [Dirs -> Modes]
      BY <1>0, <1>4, AppendRec DEF Decrypted
    <2>4. QED
      BY <1>0, <2>1, <2>2, <2>3, <1>9
  <1>5. ASSUME NEW e \in Dirs, DecryptFailed(e) PROVE IInv'
    <2>1. PICK f \in BOOLEAN :
              /\ log' = [log EXCEPT ![e] = Flushed(e, counter[e] + 1, f)]
              /\ counter' = [counter EXCEPT ![e] = FlushedCounter(counter[e] + 1, f)]
      BY <1>5 DEF DecryptFailed
    <2>2. FlushedCounter(counter[e] + 1, f) \in Nat
          /\ Flushed(e, counter[e] + 1, f) \in Seq(Records)
      BY <1>0, AppendRec DEF FlushedCounter, Flushed
    <2>3. DirInv(e)'
      <3>1. /\ counter[e] + 1 \in Nat
            /\ log'[e] = Flushed(e, counter[e] + 1, f)
            /\ counter'[e] \in Nat
            /\ mode[e] # "raw" /\ mode'[e] = "raw"
        BY <1>0, <1>5, <2>1, <2>2 DEF DecryptFailed
      <3>2. QED
        BY <1>0, <3>1, FlushDir
    <2>4. \A d \in Dirs \ {e} : DirInv(d)' = DirInv(d)
      BY <1>5, <2>1 DEF DecryptFailed, DirInv
    <2>5. /\ log' \in [Dirs -> Seq(Records)]
          /\ counter' \in [Dirs -> Nat]
          /\ mode' \in [Dirs -> Modes]
      BY <1>0, <1>5, <2>1, <2>2 DEF DecryptFailed, Modes
    <2>6. QED
      BY <1>0, <2>3, <2>4, <2>5, <1>9
  <1>6. ASSUME NEW e \in Dirs, RawData(e) PROVE IInv'
    <2>1. DirInv(e)'
      BY <1>0, <1>6, AppendDir DEF RawData
    <2>2. \A d \in Dirs \ {e} : DirInv(d)' = DirInv(d)
      BY <1>6 DEF RawData, DirInv
    <2>3. /\ log' \in [Dirs -> Seq(Records)]
          /\ counter' \in [Dirs -> Nat]
          /\ mode' \in [Dirs -> Modes]
      BY <1>0, <1>6, AppendRec DEF RawData
    <2>4. QED
      BY <1>0, <2>1, <2>2, <2>3, <1>9
  <1>7. CASE UNCHANGED vars
    BY <1>7 DEF vars, IInv, TypeOK, ModeLog, PlainThenRaw, CmFirst, PlainAtPosition
  <1>8. QED
    BY <1>1, <1>2, <1>3, <1>4, <1>5, <1>6, <1>7 DEF Next

-----------------------------------------------------------------------------
(* No behaviour of the contract records plaintext for a direction after  *)
(* a record of it without plaintext.                                      *)
THEOREM PlainThenRawThm == Spec => []PlainThenRaw
  <1>1. IInv => PlainThenRaw
    BY DEF IInv
  <1>2. QED
    BY <1>1, InitIInv, NextIInv, PTL DEF Spec

(* In every behaviour of the contract the connection message is the     *)
(* first record of its direction, numbered 0, and is recorded only once. *)
THEOREM CmFirstThm == Spec => []CmFirst
  <1>1. IInv => CmFirst
    BY DEF IInv
  <1>2. QED
    BY <1>1, InitIInv, NextIInv, PTL DEF Spec

(* In every behaviour of the contract a record with plaintext is numbered *)
(* by its position in its direction's log.                               *)
THEOREM PlainAtPositionThm == Spec => []PlainAtPosition
  <1>1. IInv => PlainAtPosition
    BY DEF IInv
  <1>2. QED
    BY <1>1, InitIInv, NextIInv, PTL DEF Spec

=============================================================================
