-------------------------- MODULE RecorderRefinement --------------------------
(***************************************************************************)
(* The chunk parser implements the Recorder contract, for every value of   *)
(* the constants: every step of the coordinator and of the two state      *)
(* machines maps, under RecordsOf and ModeOf, to a step of Recorder or to *)
(* a stutter.  The Recorder's invariants then carry over to the parser.   *)
(***************************************************************************)
EXTENDS ChunkParserProofs

USE BaseAssumption, LimitAssumption, CmMinAssumption, PowTargetAssumption,
    MaxPayloadAssumption, MaxStreamAssumption, DecryptCanFailAssumption

(* The images of the parser's state under the refinement mapping. *)
absLog == [d \in Dirs |-> RecordsOf(emitted[d])]

absMode == [d \in Dirs |-> ModeOf(d)]

-----------------------------------------------------------------------------
(* Lemmas about the mapping of chunk records. *)

LEMMA RecordsEmpty == RecordsOf(<<>>) = <<>>
  BY DEF RecordsOf

LEMMA RecordsAppend ==
  ASSUME NEW e \in Seq(Chunks), NEW x \in Chunks
  PROVE  RecordsOf(Append(e, x)) = Append(RecordsOf(e), R!Rec(x.ctr, x.plain))
  <1>1. /\ Append(e, x) \in Seq(Chunks)
        /\ Len(Append(e, x)) = Len(e) + 1
        /\ \A i \in 1 .. Len(e) : Append(e, x)[i] = e[i]
        /\ Append(e, x)[Len(e) + 1] = x
    BY AppendProperties
  <1>2. RecordsOf(e) \in Seq(R!Records) /\ Len(RecordsOf(e)) = Len(e)
    <2>0. \A i \in 1 .. Len(e) : e[i] \in Chunks
      OBVIOUS
    <2>1. \A i \in 1 .. Len(e) : [ctr |-> e[i].ctr, plain |-> e[i].plain] \in R!Records
      BY <2>0 DEF R!Records, Chunks
    <2>2. RecordsOf(e) \in [1 .. Len(e) -> R!Records]
      BY <2>1 DEF RecordsOf
    <2>3. QED
      BY <2>2, LenProperties
  <1>3. R!Rec(x.ctr, x.plain) \in R!Records
    BY DEF R!Rec, R!Records, Chunks
  <1>4. /\ Len(Append(RecordsOf(e), R!Rec(x.ctr, x.plain))) = Len(e) + 1
        /\ \A i \in 1 .. Len(e) :
              Append(RecordsOf(e), R!Rec(x.ctr, x.plain))[i] = RecordsOf(e)[i]
        /\ Append(RecordsOf(e), R!Rec(x.ctr, x.plain))[Len(e) + 1] = R!Rec(x.ctr, x.plain)
    BY <1>2, <1>3, AppendProperties
  <1>5. Append(RecordsOf(e), R!Rec(x.ctr, x.plain)) \in Seq(R!Records)
    BY <1>2, <1>3, AppendProperties
  <1>6. QED
    BY <1>1, <1>4, <1>5 DEF RecordsOf, R!Rec

(* A cleanup flush appends at most one record without plaintext. *)
LEMMA RecordsCleanup ==
  ASSUME NEW e \in Seq(Chunks), NEW b \in Seq(Bytes), NEW c \in Nat
  PROVE  RecordsOf(e \o CleanupEmits(b, c))
           = IF b # <<>> THEN Append(RecordsOf(e), R!Rec(c, "none")) ELSE RecordsOf(e)
  <1>1. CASE b = <<>>
    <2>1. e \o CleanupEmits(b, c) = e
      BY <1>1 DEF CleanupEmits
    <2>2. QED
      BY <1>1, <2>1
  <1>2. CASE b # <<>>
    <2>1. Chunk(c, b, "none") \in Chunks
      BY DEF Chunk, Chunks
    <2>2. e \o CleanupEmits(b, c) = Append(e, Chunk(c, b, "none"))
      BY <1>2 DEF CleanupEmits
    <2>3. QED
      BY <1>2, <2>1, <2>2, RecordsAppend DEF Chunk
  <1>3. QED
    BY <1>1, <1>2

LEMMA CleanupCounterIs ==
  ASSUME NEW b, NEW c
  PROVE  CleanupCounter(b, c) = R!FlushedCounter(c, b # <<>>)
  BY DEF CleanupCounter, R!FlushedCounter

-----------------------------------------------------------------------------
LEMMA InitRefines == Init => R!Init
  BY RecordsEmpty DEF Init, R!Init, absLog, ModeOf


(* A step that changes neither the records, the counters nor the modes  *)
(* is a stutter of the Recorder.                                         *)
LEMMA StutterRefines ==
  ASSUME absLog' = absLog, counter' = counter, absMode' = absMode
  PROVE  [R!Next]_R!vars
  BY DEF R!vars, absLog, absMode

(* Emitting one chunk record appends its image to the log. *)
LEMMA AppendChunk ==
  ASSUME NEW e \in Seq(Chunks), NEW k \in Nat, NEW raw \in Seq(Bytes),
         NEW pl \in {"cm", "dec", "none"}
  PROVE  RecordsOf(Append(e, Chunk(k, raw, pl))) = Append(RecordsOf(e), R!Rec(k, pl))
  <1>1. Chunk(k, raw, pl) \in Chunks
    BY DEF Chunk, Chunks
  <1>2. QED
    BY <1>1, RecordsAppend DEF Chunk

(* Uncertain::new of a direction before the handshake is an Abandon. *)
LEMMA UncertainRefines ==
  ASSUME TypeOK, NEW d \in Dirs, st[d] \in {"Initial", "HaveCm"},
         NEW b \in Seq(Bytes), BecomeUncertain(d, b), UNCHANGED error
  PROVE  R!Abandon(d)
  <1> DEFINE f == b # <<>>
  <1>1. emitted' = [emitted EXCEPT ![d] = emitted[d] \o CleanupEmits(b, counter[d])]
        /\ counter' = [counter EXCEPT ![d] = CleanupCounter(b, counter[d])]
    BY DEF BecomeUncertain
  <1>2. RecordsOf(emitted[d] \o CleanupEmits(b, counter[d]))
          = IF f THEN Append(RecordsOf(emitted[d]), R!Rec(counter[d], "none"))
                 ELSE RecordsOf(emitted[d])
    BY RecordsCleanup DEF TypeOK
  <1>3. absLog' = [absLog EXCEPT ![d] = R!Flushed(d, counter[d], f)]
    BY <1>1, <1>2 DEF absLog, R!Flushed, TypeOK
  <1>4. counter' = [counter EXCEPT ![d] = R!FlushedCounter(counter[d], f)]
    BY <1>1, CleanupCounterIs
  <1>5. absMode' = [absMode EXCEPT ![d] = "raw"] /\ absMode[d] = "handshake"
    BY DEF BecomeUncertain, absMode, ModeOf, TypeOK
  <1>6. QED
    BY <1>3, <1>4, <1>5 DEF R!Abandon, absLog, absMode


LEMMA NextRefines == IInv /\ [Next]_vars => [R!Next]_R!vars
  <1> SUFFICES ASSUME TypeOK, CmBuffered, [Next]_vars PROVE [R!Next]_R!vars
    BY DEF IInv
  <1>1. ASSUME NEW d \in Dirs, NEW p \in Payloads, PayloadInitial(d, p)
        PROVE  [R!Next]_R!vars
    BY <1>1, StutterRefines DEF PayloadInitial, absLog, absMode, ModeOf
  <1>2. ASSUME NEW d \in Dirs, NEW p \in Payloads, PayloadCm(d, p)
        PROVE  [R!Next]_R!vars
    <2>1. absMode' = absMode
      BY <1>2 DEF PayloadCm, absMode, ModeOf, TypeOK
    <2>2. QED
      BY <1>2, <2>1, StutterRefines DEF PayloadCm, absLog
  <1>3. ASSUME NEW d \in Dirs, NEW p \in Payloads, PayloadHaveCm(d, p)
        PROVE  [R!Next]_R!vars
    <2>0. buf[d] \in Seq(Bytes) /\ Len(buf[d]) \in Nat
      BY DEF TypeOK
    <2>1. CASE Len(buf[d]) <= Limit
      <3>1. UNCHANGED <<st, counter, error, emitted>>
        BY <1>3, <2>0, <2>1 DEF PayloadHaveCm
      <3>2. QED
        BY <3>1, StutterRefines DEF absLog, absMode, ModeOf
    <2>2. CASE Len(buf[d]) > Limit
      <3>1. BecomeUncertain(d, buf[d]) /\ UNCHANGED error /\ st[d] = "HaveCm"
        BY <1>3, <2>0, <2>2 DEF PayloadHaveCm
      <3>2. R!Abandon(d)
        BY <2>0, <3>1, UncertainRefines
      <3>3. QED
        BY <3>2 DEF R!Next
    <2>3. QED
      BY <2>0, <2>1, <2>2
  <1>4. ASSUME NEW d \in Dirs, CloseInitial(d) PROVE [R!Next]_R!vars
    <2>1. BecomeUncertain(d, buf[d]) /\ UNCHANGED error /\ st[d] = "Initial"
          /\ buf[d] \in Seq(Bytes)
      BY <1>4 DEF CloseInitial, TypeOK
    <2>2. R!Abandon(d)
      BY <2>1, UncertainRefines
    <2>3. QED
      BY <2>2 DEF R!Next
  <1>5. ASSUME NEW d \in Dirs, CloseOther(d) PROVE [R!Next]_R!vars
    BY <1>5, StutterRefines DEF CloseOther, absLog, absMode, ModeOf
  <1>6. ASSUME NEW d \in Dirs, NEW p \in Payloads, PayloadHaveKey(d, p)
        PROVE  [R!Next]_R!vars
    <2>1. error[d] = NotSet
      BY <1>6 DEF PayloadHaveKey, TypeOK
    <2>2. absMode' = absMode
      BY <1>6, <2>1 DEF PayloadHaveKey, absMode, ModeOf, TypeOK
    <2>3. QED
      BY <1>6, <2>2, StutterRefines DEF PayloadHaveKey, absLog
  <1>7. ASSUME NEW d \in Dirs, DataOverOk(d) PROVE [R!Next]_R!vars
    <2>1. absMode' = absMode
      BY <1>7 DEF DataOverOk, absMode, ModeOf, TypeOK
    <2>2. QED
      BY <1>7, <2>1, StutterRefines DEF DataOverOk, absLog
  <1>8. ASSUME NEW d \in Dirs, DataOverErr(d) PROVE [R!Next]_R!vars
    <2>1. absMode' = absMode
      BY <1>8 DEF DataOverErr, absMode, ModeOf, TypeOK
    <2>2. QED
      BY <1>8, <2>1, StutterRefines DEF DataOverErr, absLog
  <1>9. CASE UNCHANGED vars
    BY <1>9, StutterRefines DEF vars, absLog, absMode, ModeOf
  <1>10. ASSUME NEW d \in Dirs, NEW p \in Payloads, PayloadRaw(d, p)
         PROVE  [R!Next]_R!vars
    <2>1. buf[d] \o p \in Seq(Bytes) /\ buf[d] \o p # <<>>
      BY PayloadsAreSeqs, ConcatProperties DEF TypeOK, Payloads
    <2>2. emitted' = [emitted EXCEPT ![d] = emitted[d] \o CleanupEmits(buf[d] \o p, counter[d])]
          /\ counter' = [counter EXCEPT ![d] = CleanupCounter(buf[d] \o p, counter[d])]
          /\ UNCHANGED <<st, error>>
      BY <1>10 DEF PayloadRaw
    <2>3. absLog' = [absLog EXCEPT ![d] = Append(@, R!Rec(counter[d], "none"))]
      <3>1. RecordsOf(emitted[d] \o CleanupEmits(buf[d] \o p, counter[d]))
              = Append(RecordsOf(emitted[d]), R!Rec(counter[d], "none"))
        BY <2>1, RecordsCleanup DEF TypeOK
      <3>2. QED
        BY <2>2, <3>1 DEF absLog, TypeOK
    <2>4. counter' = [counter EXCEPT ![d] = @ + 1]
      BY <2>1, <2>2 DEF CleanupCounter
    <2>5. absMode' = absMode /\ absMode[d] = "raw"
      BY <1>10, <2>2 DEF PayloadRaw, absMode, ModeOf
    <2>6. R!RawData(d)
      BY <2>3, <2>4, <2>5 DEF R!RawData, absLog, absMode
    <2>7. QED
      BY <2>6 DEF R!Next
  <1>11. ASSUME NEW d \in Dirs, DataDecrypt(d) PROVE [R!Next]_R!vars
    <2>1. NextChunk(buf[d]) \in Seq(Bytes)
      BY <1>11, FrameType DEF DataDecrypt, TypeOK
    <2>2. absLog' = [absLog EXCEPT ![d] = Append(@, R!Rec(counter[d], "dec"))]
      <3>1. RecordsOf(Append(emitted[d], Chunk(counter[d], NextChunk(buf[d]), "dec")))
              = Append(RecordsOf(emitted[d]), R!Rec(counter[d], "dec"))
        BY <2>1, AppendChunk DEF TypeOK
      <3>2. emitted' = [emitted EXCEPT ![d] = Append(@, Chunk(counter[d], NextChunk(buf[d]), "dec"))]
        BY <1>11 DEF DataDecrypt
      <3>3. QED
        BY <3>1, <3>2 DEF absLog, TypeOK
    <2>3. absMode' = absMode /\ absMode[d] = "keyed"
      BY <1>11 DEF DataDecrypt, absMode, ModeOf
    <2>4. R!Decrypted(d)
      BY <1>11, <2>2, <2>3 DEF DataDecrypt, R!Decrypted, absLog, absMode
    <2>5. QED
      BY <2>4 DEF R!Next
  <1>12. ASSUME NEW d \in Dirs, DataFail(d) PROVE [R!Next]_R!vars
    <2> DEFINE r == Rest(buf[d])
               f == r # <<>>
    <2>1. r \in Seq(Bytes) /\ counter[d] + 1 \in Nat
      BY <1>12, FrameType DEF DataFail, TypeOK
    <2>2. emitted' = [emitted EXCEPT ![d] = emitted[d] \o CleanupEmits(r, counter[d] + 1)]
          /\ counter' = [counter EXCEPT ![d] = CleanupCounter(r, counter[d] + 1)]
      BY <1>12 DEF DataFail
    <2>3. absLog' = [absLog EXCEPT ![d] = R!Flushed(d, counter[d] + 1, f)]
      <3>1. RecordsOf(emitted[d] \o CleanupEmits(r, counter[d] + 1))
              = IF f THEN Append(RecordsOf(emitted[d]), R!Rec(counter[d] + 1, "none"))
                     ELSE RecordsOf(emitted[d])
        BY <2>1, RecordsCleanup DEF TypeOK
      <3>2. QED
        BY <2>2, <3>1 DEF absLog, R!Flushed, TypeOK
    <2>4. counter' = [counter EXCEPT ![d] = R!FlushedCounter(counter[d] + 1, f)]
      BY <2>2, CleanupCounterIs
    <2>5. absMode' = [absMode EXCEPT ![d] = "raw"] /\ absMode[d] = "keyed"
      <3>1. /\ st' = st /\ st[d] = "HaveData" /\ error[d] = NotSet
            /\ error' = [error EXCEPT ![d] = counter[d]]
        BY <1>12 DEF DataFail
      <3>2. counter[d] # NotSet
        BY DEF TypeOK, NotSet
      <3>3. QED
        BY <3>1, <3>2 DEF absMode, ModeOf, TypeOK
    <2>6. R!DecryptFailed(d)
      BY <2>3, <2>4, <2>5 DEF R!DecryptFailed, absLog, absMode
    <2>7. QED
      BY <2>6 DEF R!Next
  <1>13. ASSUME NEW d \in Dirs, NEW p \in Payloads, PayloadRendezvous(d, p)
         PROVE  [R!Next]_R!vars
    <2> DEFINE b == [buf EXCEPT ![d] = @ \o p]
    <2>1. Dirs = {d, Other(d)}
      BY DEF Dirs, Other
    <2>2. \A e \in Dirs : b[e] \in Seq(Bytes) /\ HaveChunk(b[e])
      <3>1. b[d] \in Seq(Bytes) /\ HaveChunk(b[d])
        BY <1>13, PayloadsAreSeqs, ConcatProperties DEF PayloadRendezvous, TypeOK
      <3>2. b[Other(d)] = buf[Other(d)] /\ st[Other(d)] = "HaveCm"
        BY <1>13, OtherDir DEF PayloadRendezvous, TypeOK
      <3>3. b[Other(d)] \in Seq(Bytes) /\ HaveChunk(b[Other(d)])
        BY <3>2, OtherDir DEF CmBuffered, TypeOK
      <3>4. QED
        BY <2>1, <3>1, <3>3
    <2>3. \A e \in Dirs : absMode[e] = "handshake" /\ error[e] = NotSet
      BY <1>13, <2>1 DEF PayloadRendezvous, absMode, ModeOf, TypeOK, States
    <2>4. UNCHANGED error
      BY <1>13 DEF PayloadRendezvous
    <2>5. CASE MakeKeyOk(b)
      <3>1. \A e \in Dirs : NextChunk(b[e]) \in Seq(Bytes)
        BY <2>2, FrameType
      <3>2. absLog' = [e \in Dirs |-> Append(absLog[e], R!Rec(counter[e], "cm"))]
        <4>1. \A e \in Dirs : RecordsOf(Append(emitted[e], Chunk(counter[e], NextChunk(b[e]), "cm")))
                = Append(RecordsOf(emitted[e]), R!Rec(counter[e], "cm"))
          BY <3>1, AppendChunk DEF TypeOK
        <4>2. emitted' = [e \in Dirs |-> Append(emitted[e], Chunk(counter[e], NextChunk(b[e]), "cm"))]
          BY <2>5 DEF MakeKeyOk
        <4>3. QED
          BY <4>1, <4>2 DEF absLog
      <3>3. counter' = [e \in Dirs |-> counter[e] + 1]
        BY <2>5 DEF MakeKeyOk
      <3>4. absMode' = [e \in Dirs |-> "keyed"]
        BY <2>3, <2>4, <2>5 DEF MakeKeyOk, absMode, ModeOf
      <3>5. R!KeyAgreed
        BY <2>3, <3>2, <3>3, <3>4 DEF R!KeyAgreed, absLog, absMode
      <3>6. QED
        BY <3>5 DEF R!Next
    <2>6. CASE MakeKeyFail(b)
      <3> DEFINE f == [e \in Dirs |-> b[e] # <<>>]
      <3>1. absLog' = [e \in Dirs |-> R!Flushed(e, counter[e], f[e])]
        <4>1. ASSUME NEW e \in Dirs
              PROVE  RecordsOf(emitted[e] \o CleanupEmits(b[e], counter[e]))
                       = IF b[e] # <<>> THEN Append(RecordsOf(emitted[e]), R!Rec(counter[e], "none"))
                                        ELSE RecordsOf(emitted[e])
          <5>1. emitted[e] \in Seq(Chunks) /\ counter[e] \in Nat /\ b[e] \in Seq(Bytes)
            BY <2>2 DEF TypeOK
          <5>2. QED
            BY <5>1, RecordsCleanup
        <4>2. emitted' = [e \in Dirs |-> emitted[e] \o CleanupEmits(b[e], counter[e])]
          BY <2>6 DEF MakeKeyFail
        <4>3. QED
          BY <4>1, <4>2 DEF absLog, R!Flushed
      <3>2. counter' = [e \in Dirs |-> R!FlushedCounter(counter[e], f[e])]
        BY <2>6, CleanupCounterIs DEF MakeKeyFail
      <3>3. absMode' = [e \in Dirs |-> "raw"]
        BY <2>6 DEF MakeKeyFail, absMode, ModeOf
      <3>4. f \in [Dirs -> BOOLEAN]
        OBVIOUS
      <3>5. R!KeyRejected
        BY <2>3, <3>1, <3>2, <3>3, <3>4 DEF R!KeyRejected, absLog, absMode
      <3>6. QED
        BY <3>5 DEF R!Next
    <2>7. QED
      BY <1>13, <2>5, <2>6 DEF PayloadRendezvous
  <1>20. QED
    BY <1>1, <1>2, <1>3, <1>4, <1>5, <1>6, <1>7, <1>8, <1>9, <1>10, <1>11,
       <1>12, <1>13 DEF Next


-----------------------------------------------------------------------------
(* The chunk parser implements the Recorder contract: from its initial  *)
(* state, every step of the coordinator (on_payload with each variant's *)
(* handle_data, make_key, the HaveData loop and over(), on_close) is a   *)
(* step of the contract or leaves its records, counters and modes alone. *)
THEOREM RefinesRecorder == Spec => RecorderSpec
  <1>1. Spec => []IInv
    BY InitIInv, NextIInv, PTL DEF Spec
  <1>2. QED
    BY <1>1, InitRefines, NextRefines, PTL DEF Spec, RecorderSpec, R!Spec

(* The contract's proofs, read through the refinement mapping. *)
RP == INSTANCE RecorderProofs WITH
         log <- [d \in Dirs |-> RecordsOf(emitted[d])],
         mode <- [d \in Dirs |-> ModeOf(d)]

LEMMA PlainThenRawMaps == TypeOK /\ RP!PlainThenRaw => NoPlainAfterRaw
  <1> SUFFICES ASSUME TypeOK, RP!PlainThenRaw,
                      NEW d \in Dirs, NEW i \in 1 .. Len(emitted[d]),
                      NEW j \in 1 .. Len(emitted[d]),
                      i < j, emitted[d][i].plain = "none"
               PROVE  emitted[d][j].plain = "none"
    BY DEF NoPlainAfterRaw
  <1>1. emitted[d] \in Seq(Chunks)
    BY DEF TypeOK
  <1>2. Len(RecordsOf(emitted[d])) = Len(emitted[d])
        /\ RecordsOf(emitted[d])[i].plain = emitted[d][i].plain
        /\ RecordsOf(emitted[d])[j].plain = emitted[d][j].plain
    BY <1>1 DEF RecordsOf
  <1>3. QED
    BY <1>2 DEF RP!PlainThenRaw

(* Once a direction has emitted a chunk without plaintext (Uncertain,   *)
(* HaveNotKey, a HaveData failure or CannotDecrypt), it never emits      *)
(* plaintext again, for every value of the constants: a consequence of   *)
(* the refinement and of the contract's own invariant.                   *)
THEOREM NoPlainAfterRawThm == Spec => []NoPlainAfterRaw
  <1>a. R!Init <=> RP!Init
    BY DEF R!Init, RP!Init
  <1>b. [R!Next]_R!vars <=> [RP!Next]_RP!vars
    BY DEF R!Next, RP!Next, R!vars, RP!vars, R!KeyAgreed, RP!KeyAgreed,
           R!KeyRejected, RP!KeyRejected, R!Abandon, RP!Abandon,
           R!Decrypted, RP!Decrypted, R!DecryptFailed, RP!DecryptFailed,
           R!RawData, RP!RawData, R!Flushed, RP!Flushed,
           R!FlushedCounter, RP!FlushedCounter, R!Rec, RP!Rec
  <1>1. RecorderSpec => []RP!PlainThenRaw
    BY <1>a, <1>b, RP!PlainThenRawThm, PTL DEF RecorderSpec, R!Spec, RP!Spec
  <1>2. Spec => []TypeOK
    BY TypeCorrect
  <1>3. QED
    BY <1>1, <1>2, RefinesRecorder, PlainThenRawMaps, PTL


LEMMA PlainAtPositionMaps ==
  TypeOK /\ RP!PlainAtPosition =>
    \A d \in Dirs : \A i \in 1 .. Len(emitted[d]) :
        emitted[d][i].plain # "none" => emitted[d][i].ctr = i - 1
  <1> SUFFICES ASSUME TypeOK, RP!PlainAtPosition,
                      NEW d \in Dirs, NEW i \in 1 .. Len(emitted[d]),
                      emitted[d][i].plain # "none"
               PROVE  emitted[d][i].ctr = i - 1
    OBVIOUS
  <1>1. emitted[d] \in Seq(Chunks)
    BY DEF TypeOK
  <1>2. /\ Len(RecordsOf(emitted[d])) = Len(emitted[d])
        /\ RecordsOf(emitted[d])[i].plain = emitted[d][i].plain
        /\ RecordsOf(emitted[d])[i].ctr = emitted[d][i].ctr
    BY <1>1 DEF RecordsOf
  <1>3. QED
    BY <1>2 DEF RP!PlainAtPosition

(* Every chunk a direction hands to the sink with plaintext is one whole *)
(* frame and is numbered by its position among the direction's records, *)
(* for every value of the constants: the numbering follows from the      *)
(* refinement and the contract's PlainAtPosition, the framing from the  *)
(* HaveCm buffer holding its whole connection message (CmBuffered) and   *)
(* from Buffer::next returning whole frames.                             *)
THEOREM PlainFramedThm == Spec => []PlainFramed
  <1>a. R!Init <=> RP!Init
    BY DEF R!Init, RP!Init
  <1>b. [R!Next]_R!vars <=> [RP!Next]_RP!vars
    BY DEF R!Next, RP!Next, R!vars, RP!vars, R!KeyAgreed, RP!KeyAgreed,
           R!KeyRejected, RP!KeyRejected, R!Abandon, RP!Abandon,
           R!Decrypted, RP!Decrypted, R!DecryptFailed, RP!DecryptFailed,
           R!RawData, RP!RawData, R!Flushed, RP!Flushed,
           R!FlushedCounter, RP!FlushedCounter, R!Rec, RP!Rec
  <1>1. RecorderSpec => []RP!PlainAtPosition
    BY <1>a, <1>b, RP!PlainAtPositionThm, PTL DEF RecorderSpec, R!Spec, RP!Spec
  <1>2. TypeOK /\ RP!PlainAtPosition /\ PlainRawFramed => PlainFramed
    BY PlainAtPositionMaps DEF PlainRawFramed, FramedRecs, PlainFramed
  <1>3. QED
    BY <1>1, <1>2, RefinesRecorder, TypeCorrect, FramedThm, PTL

=============================================================================
