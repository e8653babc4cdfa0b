-------------------------- MODULE ChunkParserProofs --------------------------
(***************************************************************************)
(* Proofs about ChunkParser for every value of its constants: the type    *)
(* invariant and the strict increase of the chunk counters each           *)
(* direction hands to the sink.                                           *)
(***************************************************************************)
EXTENDS ChunkParser, SequenceTheorems, TLAPS

USE BaseAssumption, LimitAssumption, CmMinAssumption, PowTargetAssumption,
    MaxPayloadAssumption, MaxStreamAssumption, DecryptCanFailAssumption

(* A direction in HaveCm holds its whole connection message: make_key    *)
(* may frame both buffers.                                                *)
CmBuffered == \A d \in Dirs : st[d] = "HaveCm" => HaveChunk(buf[d])

IInv == TypeOK /\ CmBuffered

(* The counters of chunk records e strictly increase and stay below c. *)
IncBelow(e, c) ==
    \A i \in 1 .. Len(e) :
        /\ e[i].ctr < c
        /\ \A j \in (i + 1) .. Len(e) : e[i].ctr < e[j].ctr

-----------------------------------------------------------------------------
(* Lemmas about the helpers. *)

LEMMA PayloadsAreSeqs == Payloads \subseteq Seq(Bytes)
  BY DEF Payloads

LEMMA OtherDir == \A d \in Dirs : Other(d) \in Dirs /\ Other(d) # d
  BY DEF Dirs, Other

LEMMA FrameType ==
  ASSUME NEW b \in Seq(Bytes), HaveChunk(b)
  PROVE  /\ ChunkLen(b) \in 2 .. Len(b)
         /\ NextChunk(b) \in Seq(Bytes)
         /\ Rest(b) \in Seq(Bytes)
  <1>1. b[1] \in Nat /\ b[2] \in Nat
    BY ElementOfSeq DEF HaveChunk, Bytes
  <1>2. ChunkLen(b) \in 2 .. Len(b)
    <2>1. b[1] * Base \in Nat
      BY <1>1
    <2>2. ChunkLen(b) \in Nat /\ ChunkLen(b) >= 2
      BY <1>1, <2>1 DEF ChunkLen, Hdr
    <2>3. Len(b) >= ChunkLen(b)
      BY DEF HaveChunk
    <2>4. QED
      BY <2>2, <2>3
  <1>3. NextChunk(b) \in Seq(Bytes)
    BY <1>2, SubSeqProperties DEF NextChunk
  <1>4. Rest(b) \in Seq(Bytes)
    BY <1>2, SubSeqProperties DEF Rest
  <1>5. QED
    BY <1>2, <1>3, <1>4

LEMMA HaveChunkAppend ==
  ASSUME NEW b \in Seq(Bytes), NEW p \in Seq(Bytes), HaveChunk(b)
  PROVE  HaveChunk(b \o p)
  <1>1. /\ Len(b \o p) = Len(b) + Len(p)
        /\ \A i \in 1 .. Len(b) + Len(p) :
              (b \o p)[i] = IF i <= Len(b) THEN b[i] ELSE p[i - Len(b)]
    BY ConcatProperties
  <1>2. Len(b) >= 2 /\ Len(p) \in Nat
    BY DEF HaveChunk
  <1>3. (b \o p)[1] = b[1] /\ (b \o p)[2] = b[2]
    BY <1>1, <1>2
  <1>4. Hdr(b \o p) = Hdr(b)
    BY <1>3 DEF Hdr
  <1>5. ChunkLen(b \o p) = ChunkLen(b) /\ ChunkLen(b) \in 2 .. Len(b)
    BY <1>4, FrameType DEF ChunkLen
  <1>6. QED
    BY <1>1, <1>2, <1>5 DEF HaveChunk

LEMMA CleanupType ==
  ASSUME NEW b \in Seq(Bytes), NEW c \in Nat
  PROVE  /\ CleanupEmits(b, c) \in Seq(Chunks)
         /\ CleanupCounter(b, c) \in Nat
  <1>1. Chunk(c, b, "none") \in Chunks
    BY DEF Chunk, Chunks
  <1>2. QED
    BY <1>1 DEF CleanupEmits, CleanupCounter

LEMMA AddCommentType ==
  ASSUME NEW c \in Connections, NEW f \in Fields, NEW v \in Nat
  PROVE  AddComment(c, f, v) \in Connections
  BY DEF AddComment, Connections

LEMMA CheckType ==
  ASSUME NEW c \in Connections, NEW d \in Dirs, NEW raw \in Seq(Bytes),
         NEW powOk \in BOOLEAN
  PROVE  Check(c, d, raw, powOk) \in Connections
  <1>1. <<"too_short", d>> \in Fields /\ <<"wrong_pow", d>> \in Fields
    BY DEF Fields
  <1>2. Len(raw) \in Nat /\ PowTarget \in Nat
    BY LenProperties
  <1>3. [c EXCEPT !.peerPk = TRUE] \in Connections
    BY DEF Connections
  <1>4. QED
    BY <1>1, <1>2, <1>3, AddCommentType DEF Check


-----------------------------------------------------------------------------
(* The type invariant, strengthened by CmBuffered, is inductive. *)

LEMMA InitIInv == Init => IInv
  <1> SUFFICES ASSUME Init PROVE IInv
    OBVIOUS
  <1>1. NewConnection \in Connections
    BY DEF NewConnection, Connections, NotSet
  <1>2. TypeOK
    BY <1>1, EmptySeq DEF Init, TypeOK, States, NotSet
  <1>3. CmBuffered
    BY DEF Init, CmBuffered
  <1>4. QED
    BY <1>2, <1>3 DEF IInv

LEMMA NextIInv == IInv /\ [Next]_vars => IInv'
  <1> SUFFICES ASSUME TypeOK, CmBuffered, [Next]_vars PROVE TypeOK' /\ CmBuffered'
    BY DEF IInv
  <1> USE DEF TypeOK
  <1>1. ASSUME NEW d \in Dirs, NEW p \in Payloads, PayloadInitial(d, p)
        PROVE  TypeOK' /\ CmBuffered'
    <2>1. buf[d] \o p \in Seq(Bytes) /\ sent[d] \o p \in Seq(Bytes)
      BY PayloadsAreSeqs, ConcatProperties
    <2>2. QED
      BY <1>1, <2>1 DEF PayloadInitial, Deliver, CmBuffered
  <1>2. ASSUME NEW d \in Dirs, NEW p \in Payloads, PayloadCm(d, p)
        PROVE  TypeOK' /\ CmBuffered'
    <2>1. buf[d] \o p \in Seq(Bytes) /\ sent[d] \o p \in Seq(Bytes)
      BY PayloadsAreSeqs, ConcatProperties
    <2>2. TypeOK'
      BY <1>2, <2>1 DEF PayloadCm, Deliver, States
    <2>3. CmBuffered'
      BY <1>2 DEF PayloadCm, CmBuffered
    <2>4. QED
      BY <2>2, <2>3
  <1>3. ASSUME NEW d \in Dirs, NEW p \in Payloads, PayloadRendezvous(d, p)
        PROVE  TypeOK' /\ CmBuffered'
    <2> DEFINE b == [buf EXCEPT ![d] = @ \o p]
    <2>1. buf[d] \o p \in Seq(Bytes) /\ sent[d] \o p \in Seq(Bytes)
      BY PayloadsAreSeqs, ConcatProperties
    <2>2. \A e \in Dirs : b[e] \in Seq(Bytes) /\ HaveChunk(b[e])
      BY <1>3, <2>1, OtherDir DEF PayloadRendezvous, CmBuffered, Dirs
    <2>3. \A e \in Dirs : /\ NextChunk(b[e]) \in Seq(Bytes)
                          /\ Rest(b[e]) \in Seq(Bytes)
                          /\ Chunk(counter[e], NextChunk(b[e]), "cm") \in Chunks
                          /\ CleanupEmits(b[e], counter[e]) \in Seq(Chunks)
                          /\ CleanupCounter(b[e], counter[e]) \in Nat
      BY <2>2, FrameType, CleanupType DEF Chunk, Chunks
    <2>4. cn["local"] \in Connections /\ <<"wrong_pk", "local">> \in Fields
      BY DEF Dirs, Fields
    <2>5. CASE MakeKeyOk(b)
      <3>1. PICK pow \in [Dirs -> BOOLEAN] :
              /\ st' = [e \in Dirs |-> "HaveKey"]
              /\ emitted' = [e \in Dirs |->
                   Append(emitted[e], Chunk(counter[e], NextChunk(b[e]), "cm"))]
              /\ counter' = [e \in Dirs |-> counter[e] + 1]
              /\ buf' = [e \in Dirs |-> Rest(b[e])]
              /\ conn' = Check(Check(cn["local"], "local", NextChunk(b["local"]), pow["local"]),
                               "remote", NextChunk(b["remote"]), pow["remote"])
              /\ UNCHANGED cn
        BY <2>5 DEF MakeKeyOk
      <3>2. conn' \in Connections
        BY <3>1, <2>3, <2>4, CheckType DEF Dirs
      <3>3. emitted' \in [Dirs -> Seq(Chunks)]
        BY <3>1, <2>3
      <3>4. buf' \in [Dirs -> Seq(Bytes)] /\ counter' \in [Dirs -> Nat]
            /\ st' \in [Dirs -> States]
        <4>1. buf' \in [Dirs -> Seq(Bytes)]
          BY <3>1, <2>3
        <4>2. counter' \in [Dirs -> Nat]
          <5>1. \A e \in Dirs : counter[e] + 1 \in Nat
            OBVIOUS
          <5>2. QED
            BY <3>1, <5>1
        <4>3. st' \in [Dirs -> States]
          BY <3>1 DEF States
        <4>4. QED
          BY <4>1, <4>2, <4>3
      <3>5. \A e \in Dirs : error'[e] = NotSet
        BY <1>3 DEF PayloadRendezvous, CanDeliver, Idle
      <3>6. sent' \in [Dirs -> Seq(Bytes)] /\ UNCHANGED <<cn, closed, error>>
        BY <1>3, <2>1, <3>1 DEF PayloadRendezvous, Deliver
      <3>7. CmBuffered'
        BY <3>1 DEF CmBuffered
      <3>8. QED
        BY <3>2, <3>3, <3>4, <3>5, <3>6, <3>7
    <2>6. CASE MakeKeyFail(b)
      <3>1. conn' \in Connections
        BY <2>6, <2>4, AddCommentType DEF MakeKeyFail
      <3>2. emitted' \in [Dirs -> Seq(Chunks)]
        BY <2>6, <2>3, ConcatProperties DEF MakeKeyFail
      <3>3. buf' \in [Dirs -> Seq(Bytes)] /\ counter' \in [Dirs -> Nat]
            /\ st' \in [Dirs -> States]
        BY <2>6, <2>3, EmptySeq DEF MakeKeyFail, States
      <3>4. \A e \in Dirs : error'[e] = NotSet
        BY <1>3 DEF PayloadRendezvous, CanDeliver, Idle
      <3>5. sent' \in [Dirs -> Seq(Bytes)] /\ UNCHANGED <<closed, error>>
        BY <1>3, <2>1 DEF PayloadRendezvous, Deliver
      <3>6. UNCHANGED cn
        BY <2>6 DEF MakeKeyFail
      <3>7. CmBuffered'
        BY <2>6 DEF MakeKeyFail, CmBuffered
      <3>8. QED
        BY <3>1, <3>2, <3>3, <3>4, <3>5, <3>6, <3>7
    <2>7. QED
      BY <1>3, <2>5, <2>6 DEF PayloadRendezvous
  <1>4. ASSUME NEW d \in Dirs, NEW p \in Payloads, PayloadHaveCm(d, p)
        PROVE  TypeOK' /\ CmBuffered'
    <2>1. buf[d] \o p \in Seq(Bytes) /\ sent[d] \o p \in Seq(Bytes)
      BY PayloadsAreSeqs, ConcatProperties
    <2>2. CASE Len(buf[d]) <= Limit /\ buf' = [buf EXCEPT ![d] = @ \o p]
                /\ UNCHANGED <<st, counter, cn, conn, emitted>>
      <3>1. HaveChunk(buf[d] \o p)
        BY <1>4, PayloadsAreSeqs, HaveChunkAppend DEF PayloadHaveCm, CmBuffered
      <3>2. QED
        BY <1>4, <2>1, <2>2, <3>1 DEF PayloadHaveCm, Deliver, CmBuffered
    <2>3. CASE Len(buf[d]) > Limit /\ BecomeUncertain(d, buf[d])
      <3>1. AddComment(cn[d], <<"uncertain", d>>, 1) \in Connections
        BY AddCommentType DEF Fields
      <3>2. buf[d] \in Seq(Bytes) /\ counter[d] \in Nat
        OBVIOUS
      <3>3. CleanupEmits(buf[d], counter[d]) \in Seq(Chunks)
            /\ CleanupCounter(buf[d], counter[d]) \in Nat
        BY <3>2, CleanupType
      <3>4. emitted[d] \o CleanupEmits(buf[d], counter[d]) \in Seq(Chunks)
        BY <3>3, ConcatProperties
      <3>5. QED
        BY <1>4, <2>1, <2>3, <3>1, <3>3, <3>4, EmptySeq
           DEF PayloadHaveCm, BecomeUncertain, Deliver, CmBuffered, States
    <2>4. QED
      BY <1>4, <2>2, <2>3 DEF PayloadHaveCm
  <1>5. ASSUME NEW d \in Dirs, NEW p \in Payloads, PayloadRaw(d, p)
        PROVE  TypeOK' /\ CmBuffered'
    <2>1. buf[d] \o p \in Seq(Bytes) /\ sent[d] \o p \in Seq(Bytes)
      BY PayloadsAreSeqs, ConcatProperties
    <2>2. emitted[d] \o CleanupEmits(buf[d] \o p, counter[d]) \in Seq(Chunks)
          /\ CleanupCounter(buf[d] \o p, counter[d]) \in Nat
      BY <2>1, CleanupType, ConcatProperties
    <2>3. QED
      BY <1>5, <2>1, <2>2, EmptySeq DEF PayloadRaw, Deliver, CmBuffered
  <1>6. ASSUME NEW d \in Dirs, NEW p \in Payloads, PayloadHaveKey(d, p)
        PROVE  TypeOK' /\ CmBuffered'
    <2>1. buf[d] \o p \in Seq(Bytes) /\ sent[d] \o p \in Seq(Bytes)
      BY PayloadsAreSeqs, ConcatProperties
    <2>2. QED
      BY <1>6, <2>1 DEF PayloadHaveKey, Deliver, CmBuffered, States
  <1>7. ASSUME NEW d \in Dirs, DataDecrypt(d)
        PROVE  TypeOK' /\ CmBuffered'
    <2>1. /\ NextChunk(buf[d]) \in Seq(Bytes) /\ Rest(buf[d]) \in Seq(Bytes)
      BY <1>7, FrameType DEF DataDecrypt
    <2>2. Append(emitted[d], Chunk(counter[d], NextChunk(buf[d]), "dec")) \in Seq(Chunks)
      <3>1. Chunk(counter[d], NextChunk(buf[d]), "dec") \in Chunks
        BY <2>1 DEF Chunk, Chunks
      <3>2. QED
        BY <3>1
    <2>3. /\ emitted' \in [Dirs -> Seq(Chunks)]
          /\ counter' \in [Dirs -> Nat]
          /\ buf' \in [Dirs -> Seq(Bytes)]
      BY <1>7, <2>1, <2>2 DEF DataDecrypt
    <2>4. UNCHANGED <<st, error, cn, conn, sent, closed>>
      BY <1>7 DEF DataDecrypt
    <2>5. CmBuffered'
      BY <1>7, <2>4 DEF DataDecrypt, CmBuffered
    <2>6. QED
      BY <2>3, <2>4, <2>5
  <1>8. ASSUME NEW d \in Dirs, DataFail(d)
        PROVE  TypeOK' /\ CmBuffered'
    <2>1. Rest(buf[d]) \in Seq(Bytes) /\ counter[d] + 1 \in Nat
      BY <1>8, FrameType DEF DataFail
    <2>2. emitted[d] \o CleanupEmits(Rest(buf[d]), counter[d] + 1) \in Seq(Chunks)
          /\ CleanupCounter(Rest(buf[d]), counter[d] + 1) \in Nat
      BY <2>1, CleanupType, ConcatProperties
    <2>3. QED
      BY <1>8, <2>2, EmptySeq DEF DataFail, CmBuffered
  <1>9. ASSUME NEW d \in Dirs, DataOverOk(d)
        PROVE  TypeOK' /\ CmBuffered'
    BY <1>9 DEF DataOverOk, CmBuffered, States, NotSet
  <1>10. ASSUME NEW d \in Dirs, DataOverErr(d)
         PROVE  TypeOK' /\ CmBuffered'
    <2>1. AddComment(cn[d], <<"cannot_decrypt", d>>, error[d]) \in Connections
      BY <1>10, AddCommentType DEF DataOverErr, Fields, NotSet
    <2>2. QED
      BY <1>10, <2>1 DEF DataOverErr, CmBuffered, States, NotSet
  <1>11. ASSUME NEW d \in Dirs, CloseInitial(d)
         PROVE  TypeOK' /\ CmBuffered'
    <2>1. AddComment(cn[d], <<"uncertain", d>>, 1) \in Connections
      BY AddCommentType DEF Fields
    <2>2. emitted[d] \o CleanupEmits(buf[d], counter[d]) \in Seq(Chunks)
          /\ CleanupCounter(buf[d], counter[d]) \in Nat
      BY CleanupType, ConcatProperties
    <2>3. QED
      BY <1>11, <2>1, <2>2, EmptySeq DEF CloseInitial, BecomeUncertain, CmBuffered, States
  <1>12. ASSUME NEW d \in Dirs, CloseOther(d)
         PROVE  TypeOK' /\ CmBuffered'
    BY <1>12 DEF CloseOther, CmBuffered
  <1>13. CASE UNCHANGED vars
    BY <1>13 DEF vars, CmBuffered
  <1>14. QED
    BY <1>1, <1>2, <1>3, <1>4, <1>5, <1>6, <1>7, <1>8, <1>9, <1>10, <1>11,
       <1>12, <1>13 DEF Next

(* Every reachable state is well typed, whatever the constants. *)
THEOREM TypeCorrect == Spec => []TypeOK
  <1>1. Spec => []IInv
    BY InitIInv, NextIInv, PTL DEF Spec
  <1>2. QED
    BY <1>1, PTL DEF IInv


-----------------------------------------------------------------------------
(* Counters. *)

LEMMA ChunkCtr ==
  ASSUME NEW e \in Seq(Chunks), NEW i \in 1 .. Len(e)
  PROVE  e[i].ctr \in Nat
  <1>1. e[i] \in Chunks
    BY ElementOfSeq
  <1>2. QED
    BY <1>1 DEF Chunks

LEMMA IncBelowWeaken ==
  ASSUME NEW e \in Seq(Chunks), NEW c \in Nat, NEW c2 \in Nat, c <= c2,
         IncBelow(e, c)
  PROVE  IncBelow(e, c2)
  <1>1. \A i \in 1 .. Len(e) : e[i].ctr \in Nat
    BY ChunkCtr
  <1>2. QED
    BY <1>1 DEF IncBelow

LEMMA IncBelowAppend ==
  ASSUME NEW e \in Seq(Chunks), NEW c \in Nat, IncBelow(e, c),
         NEW x \in Chunks, x.ctr >= c, NEW c2 \in Nat, x.ctr < c2
  PROVE  IncBelow(Append(e, x), c2)
  <1>1. /\ Len(Append(e, x)) = Len(e) + 1
        /\ \A i \in 1 .. Len(e) : Append(e, x)[i] = e[i]
        /\ Append(e, x)[Len(e) + 1] = x
    BY AppendProperties
  <1>2. \A i \in 1 .. Len(e) : e[i].ctr \in Nat /\ e[i].ctr < c
    BY ChunkCtr DEF IncBelow
  <1>3. x.ctr \in Nat /\ Len(e) \in Nat
    BY LenProperties DEF Chunks
  <1>4. SUFFICES ASSUME NEW i \in 1 .. Len(e) + 1
                 PROVE  /\ Append(e, x)[i].ctr < c2
                        /\ \A j \in (i + 1) .. (Len(e) + 1) :
                              Append(e, x)[i].ctr < Append(e, x)[j].ctr
    BY <1>1 DEF IncBelow
  <1>5. CASE i = Len(e) + 1
    BY <1>1, <1>3, <1>5
  <1>6. CASE i \in 1 .. Len(e)
    <2>1. Append(e, x)[i].ctr < c2
      BY <1>1, <1>2, <1>3, <1>6
    <2>2. ASSUME NEW j \in (i + 1) .. (Len(e) + 1)
          PROVE  Append(e, x)[i].ctr < Append(e, x)[j].ctr
      <3>1. CASE j = Len(e) + 1
        BY <1>1, <1>2, <1>3, <1>6, <3>1
      <3>2. CASE j \in (i + 1) .. Len(e)
        BY <1>1, <1>6, <3>2 DEF IncBelow
      <3>3. QED
        BY <1>3, <1>6, <3>1, <3>2
    <2>3. QED
      BY <2>1, <2>2
  <1>7. QED
    BY <1>3, <1>5, <1>6

LEMMA IncBelowCleanup ==
  ASSUME NEW e \in Seq(Chunks), NEW c0 \in Nat, IncBelow(e, c0),
         NEW b \in Seq(Bytes), NEW c \in Nat, c0 <= c
  PROVE  IncBelow(e \o CleanupEmits(b, c), CleanupCounter(b, c))
  <1>1. CASE b = <<>>
    <2>1. e \o CleanupEmits(b, c) = e /\ CleanupCounter(b, c) = c
      BY <1>1, ConcatEmptySeq DEF CleanupEmits, CleanupCounter
    <2>2. QED
      BY <2>1, IncBelowWeaken
  <1>2. CASE b # <<>>
    <2>1. Chunk(c, b, "none") \in Chunks
      BY DEF Chunk, Chunks
    <2>2. e \o CleanupEmits(b, c) = Append(e, Chunk(c, b, "none"))
          /\ CleanupCounter(b, c) = c + 1
      BY <1>2, <2>1, AppendIsConcat DEF CleanupEmits, CleanupCounter
    <2>3. QED
      BY <2>1, <2>2, IncBelowAppend DEF Chunk
  <1>3. QED
    BY <1>1, <1>2

LEMMA NextCounters ==
  TypeOK /\ CmBuffered /\ CountersIncrease /\ [Next]_vars => CountersIncrease'
  <1> SUFFICES ASSUME TypeOK, CmBuffered, \A d \in Dirs : IncBelow(emitted[d], counter[d]),
                      [Next]_vars,
                      NEW e \in Dirs
               PROVE  IncBelow(emitted'[e], counter'[e])
    BY DEF CountersIncrease, IncBelow
  <1>0. /\ emitted[e] \in Seq(Chunks) /\ counter[e] \in Nat
        /\ IncBelow(emitted[e], counter[e])
    BY DEF TypeOK
  (* A step that leaves e's records and counter alone. *)
  <1>1. CASE emitted'[e] = emitted[e] /\ counter'[e] = counter[e]
    BY <1>0, <1>1
  (* A step that appends one record at e's counter and advances it. *)
  <1>2. CASE \E x \in Chunks : /\ x.ctr = counter[e]
                               /\ emitted'[e] = Append(emitted[e], x)
                               /\ counter'[e] = counter[e] + 1
    BY <1>0, <1>2, IncBelowAppend
  (* A step that runs Inner::cleanup on e's buffer. *)
  <1>3. CASE \E b \in Seq(Bytes), c \in Nat :
                /\ counter[e] <= c
                /\ emitted'[e] = emitted[e] \o CleanupEmits(b, c)
                /\ counter'[e] = CleanupCounter(b, c)
    BY <1>0, <1>3, IncBelowCleanup
  <1>4. ASSUME NEW d \in Dirs, NEW p \in Payloads, PayloadRendezvous(d, p)
        PROVE  IncBelow(emitted'[e], counter'[e])
    <2> DEFINE b == [buf EXCEPT ![d] = @ \o p]
    <2>1. buf[d] \o p \in Seq(Bytes)
      BY PayloadsAreSeqs, ConcatProperties DEF TypeOK
    <2>2. b[e] \in Seq(Bytes) /\ HaveChunk(b[e])
      BY <1>4, <2>1, OtherDir DEF PayloadRendezvous, CmBuffered, Dirs, TypeOK
    <2>3. CASE MakeKeyOk(b)
      <3>1. Chunk(counter[e], NextChunk(b[e]), "cm") \in Chunks
        BY <1>0, <2>2, FrameType DEF Chunk, Chunks
      <3>2. /\ emitted'[e] = Append(emitted[e], Chunk(counter[e], NextChunk(b[e]), "cm"))
            /\ counter'[e] = counter[e] + 1
        BY <2>3 DEF MakeKeyOk
      <3>3. QED
        BY <3>1, <3>2, <1>2 DEF Chunk
    <2>4. CASE MakeKeyFail(b)
      <3>1. /\ emitted'[e] = emitted[e] \o CleanupEmits(b[e], counter[e])
            /\ counter'[e] = CleanupCounter(b[e], counter[e])
        BY <2>4 DEF MakeKeyFail
      <3>2. IncBelow(emitted[e] \o CleanupEmits(b[e], counter[e]),
                     CleanupCounter(b[e], counter[e]))
        <4>1. b[e] \in Seq(Bytes) /\ counter[e] <= counter[e]
          BY <1>0, <2>2
        <4>2. QED
          BY <1>0, <4>1, IncBelowCleanup, Zenon
      <3>3. QED
        BY <3>1, <3>2
    <2>5. QED
      BY <1>4, <2>3, <2>4 DEF PayloadRendezvous
  (* BecomeUncertain(d, b) for some d, as in HaveCm overflow and close. *)
  <1>5. ASSUME NEW d \in Dirs, NEW b \in Seq(Bytes), BecomeUncertain(d, b)
        PROVE  IncBelow(emitted'[e], counter'[e])
    <2>1. CASE d = e
      <3>1. /\ emitted'[e] = emitted[e] \o CleanupEmits(b, counter[e])
            /\ counter'[e] = CleanupCounter(b, counter[e])
        BY <1>5, <2>1 DEF BecomeUncertain, TypeOK
      <3>2. IncBelow(emitted[e] \o CleanupEmits(b, counter[e]),
                     CleanupCounter(b, counter[e]))
        BY <1>0, IncBelowCleanup
      <3>3. QED
        BY <3>1, <3>2
    <2>2. CASE d # e
      BY <1>1, <1>5, <2>2 DEF BecomeUncertain, TypeOK
    <2>3. QED
      BY <2>1, <2>2
  <1>6. ASSUME NEW d \in Dirs, NEW p \in Payloads, PayloadHaveCm(d, p)
        PROVE  IncBelow(emitted'[e], counter'[e])
    BY <1>1, <1>5, <1>6 DEF PayloadHaveCm, TypeOK
  <1>7. ASSUME NEW d \in Dirs, NEW p \in Payloads, PayloadRaw(d, p)
        PROVE  IncBelow(emitted'[e], counter'[e])
    <2>1. buf[d] \o p \in Seq(Bytes) /\ counter[d] \in Nat
      BY PayloadsAreSeqs, ConcatProperties DEF TypeOK
    <2>2. CASE d = e
      <3>1. /\ emitted'[e] = emitted[e] \o CleanupEmits(buf[d] \o p, counter[e])
            /\ counter'[e] = CleanupCounter(buf[d] \o p, counter[e])
        BY <1>7, <2>2 DEF PayloadRaw, TypeOK
      <3>2. IncBelow(emitted[e] \o CleanupEmits(buf[d] \o p, counter[e]),
                     CleanupCounter(buf[d] \o p, counter[e]))
        <4>1. buf[d] \o p \in Seq(Bytes) /\ counter[e] <= counter[e]
          BY <1>0, <2>1
        <4>2. QED
          BY <1>0, <4>1, IncBelowCleanup, Zenon
      <3>3. QED
        BY <3>1, <3>2
    <2>3. CASE d # e
      BY <1>1, <1>7, <2>3 DEF PayloadRaw, TypeOK
    <2>4. QED
      BY <2>2, <2>3
  <1>8. ASSUME NEW d \in Dirs, DataDecrypt(d)
        PROVE  IncBelow(emitted'[e], counter'[e])
    <2>1. Chunk(counter[d], NextChunk(buf[d]), "dec") \in Chunks
      BY <1>8, FrameType DEF DataDecrypt, Chunk, Chunks, TypeOK
    <2>2. CASE d = e
      BY <1>2, <1>8, <2>1, <2>2 DEF DataDecrypt, TypeOK, Chunk
    <2>3. CASE d # e
      BY <1>1, <1>8, <2>3 DEF DataDecrypt, TypeOK
    <2>4. QED
      BY <2>2, <2>3
  <1>9. ASSUME NEW d \in Dirs, DataFail(d)
        PROVE  IncBelow(emitted'[e], counter'[e])
    <2>1. Rest(buf[d]) \in Seq(Bytes) /\ counter[d] + 1 \in Nat
      BY <1>9, FrameType DEF DataFail, TypeOK
    <2>2. CASE d = e
      <3>1. /\ emitted'[e] = emitted[e] \o CleanupEmits(Rest(buf[d]), counter[d] + 1)
            /\ counter'[e] = CleanupCounter(Rest(buf[d]), counter[d] + 1)
        BY <1>9, <2>2 DEF DataFail, TypeOK
      <3>2. counter[e] <= counter[d] + 1
        BY <1>0, <2>2
      <3>3. IncBelow(emitted[e] \o CleanupEmits(Rest(buf[d]), counter[d] + 1),
                     CleanupCounter(Rest(buf[d]), counter[d] + 1))
        BY <1>0, <2>1, <3>2, IncBelowCleanup
      <3>4. QED
        BY <3>1, <3>3
    <2>3. CASE d # e
      BY <1>1, <1>9, <2>3 DEF DataFail, TypeOK
    <2>4. QED
      BY <2>2, <2>3
  <1>10. ASSUME NEW d \in Dirs, CloseInitial(d)
         PROVE  IncBelow(emitted'[e], counter'[e])
    BY <1>5, <1>10 DEF CloseInitial, TypeOK
  <1>11. QED
    BY <1>1, <1>4, <1>6, <1>7, <1>8, <1>9, <1>10
       DEF Next, vars, PayloadInitial, PayloadCm, PayloadHaveKey, DataOverOk,
           DataOverErr, CloseOther

(* The chunk counters each direction hands to the sink strictly increase, *)
(* through have_key, every cleanup and the HaveData iterator.             *)
THEOREM CountersIncreaseThm == Spec => []CountersIncrease
  <1>1. Init => CountersIncrease
    BY DEF Init, CountersIncrease
  <1>2. Spec => [](IInv /\ CountersIncrease)
    BY <1>1, InitIInv, NextIInv, NextCounters, PTL DEF Spec, IInv
  <1>3. QED
    BY <1>2, PTL


-----------------------------------------------------------------------------
(* Framing of the chunks emitted with plaintext. *)

(* Every record of e that carries plaintext holds one whole frame. *)
FramedRecs(e) ==
    \A i \in 1 .. Len(e) : e[i].plain # "none" => IsFrame(e[i].raw)

PlainRawFramed == \A d \in Dirs : FramedRecs(emitted[d])

(* Buffer::next returns a whole frame whenever the buffer holds one. *)
LEMMA NextChunkFrame ==
  ASSUME NEW b \in Seq(Bytes), HaveChunk(b)
  PROVE  IsFrame(NextChunk(b))
  <1>1. ChunkLen(b) \in 2 .. Len(b)
    BY FrameType
  <1>2. /\ Len(NextChunk(b)) = ChunkLen(b)
        /\ NextChunk(b)[1] = b[1]
        /\ NextChunk(b)[2] = b[2]
    BY <1>1, SubSeqProperties DEF NextChunk
  <1>3. b[1] \in Nat /\ b[2] \in Nat
    BY ElementOfSeq DEF HaveChunk, Bytes
  <1>4. Len(NextChunk(b)) = 2 + NextChunk(b)[1] * Base + NextChunk(b)[2]
    BY <1>2, <1>3 DEF ChunkLen, Hdr
  <1>5. Len(NextChunk(b)) >= 2
    BY <1>1, <1>2
  <1>6. QED
    BY <1>4, <1>5 DEF IsFrame

LEMMA FramedAppend ==
  ASSUME NEW e \in Seq(Chunks), FramedRecs(e), NEW x \in Chunks,
         x.plain # "none" => IsFrame(x.raw)
  PROVE  FramedRecs(Append(e, x))
  <1>1. /\ Len(Append(e, x)) = Len(e) + 1
        /\ \A i \in 1 .. Len(e) : Append(e, x)[i] = e[i]
        /\ Append(e, x)[Len(e) + 1] = x
    BY AppendProperties
  <1>2. Len(e) \in Nat
    BY LenProperties
  <1>3. QED
    BY <1>1, <1>2 DEF FramedRecs

(* A cleanup flush adds only a record without plaintext. *)
LEMMA FramedCleanup ==
  ASSUME NEW e \in Seq(Chunks), FramedRecs(e), NEW b \in Seq(Bytes), NEW c \in Nat
  PROVE  FramedRecs(e \o CleanupEmits(b, c))
  <1>1. CASE b = <<>>
    BY <1>1, ConcatEmptySeq DEF CleanupEmits
  <1>2. CASE b # <<>>
    <2>1. Chunk(c, b, "none") \in Chunks
      BY DEF Chunk, Chunks
    <2>2. e \o CleanupEmits(b, c) = Append(e, Chunk(c, b, "none"))
      BY <1>2, <2>1, AppendIsConcat DEF CleanupEmits
    <2>3. QED
      BY <2>1, <2>2, FramedAppend DEF Chunk
  <1>3. QED
    BY <1>1, <1>2

LEMMA NextFramed ==
  TypeOK /\ CmBuffered /\ PlainRawFramed /\ [Next]_vars => PlainRawFramed'
  <1> SUFFICES ASSUME TypeOK, CmBuffered, \A d \in Dirs : FramedRecs(emitted[d]),
                      [Next]_vars,
                      NEW e \in Dirs
               PROVE  FramedRecs(emitted'[e])
    BY DEF PlainRawFramed, FramedRecs
  <1>0. emitted[e] \in Seq(Chunks) /\ counter[e] \in Nat /\ FramedRecs(emitted[e])
    BY DEF TypeOK
  (* A step that leaves e's records alone. *)
  <1>1. CASE emitted'[e] = emitted[e]
    BY <1>0, <1>1
  (* A step that runs Inner::cleanup on some bytes of e. *)
  <1>2. CASE \E b \in Seq(Bytes), c \in Nat : emitted'[e] = emitted[e] \o CleanupEmits(b, c)
    BY <1>0, <1>2, FramedCleanup
  (* A step that appends the next frame of a buffer of e. *)
  <1>3. CASE \E b \in Seq(Bytes), p \in {"cm", "dec"} :
                /\ HaveChunk(b)
                /\ emitted'[e] = Append(emitted[e], Chunk(counter[e], NextChunk(b), p))
    <2>1. PICK b \in Seq(Bytes), p \in {"cm", "dec"} :
                /\ HaveChunk(b)
                /\ emitted'[e] = Append(emitted[e], Chunk(counter[e], NextChunk(b), p))
      BY <1>3
    <2>2. Chunk(counter[e], NextChunk(b), p) \in Chunks
      BY <1>0, <2>1, FrameType DEF Chunk, Chunks
    <2>3. IsFrame(NextChunk(b))
      BY <2>1, NextChunkFrame
    <2>4. QED
      BY <1>0, <2>1, <2>2, <2>3, FramedAppend DEF Chunk
  <1>4. ASSUME NEW d \in Dirs, NEW p \in Payloads, PayloadRendezvous(d, p)
        PROVE  FramedRecs(emitted'[e])
    <2> DEFINE b == [buf EXCEPT ![d] = @ \o p]
    <2>1. buf[d] \o p \in Seq(Bytes)
      BY PayloadsAreSeqs, ConcatProperties DEF TypeOK
    <2>2. b[e] \in Seq(Bytes) /\ HaveChunk(b[e])
      BY <1>4, <2>1, OtherDir DEF PayloadRendezvous, CmBuffered, Dirs, TypeOK
    <2>3. CASE MakeKeyOk(b)
      <3>1. emitted'[e] = Append(emitted[e], Chunk(counter[e], NextChunk(b[e]), "cm"))
        BY <2>3 DEF MakeKeyOk
      <3>2. QED
        BY <1>3, <2>2, <3>1
    <2>4. CASE MakeKeyFail(b)
      <3>1. emitted'[e] = emitted[e] \o CleanupEmits(b[e], counter[e])
        BY <2>4 DEF MakeKeyFail
      <3>2. QED
        BY <1>0, <1>2, <2>2, <3>1
    <2>5. QED
      BY <1>4, <2>3, <2>4 DEF PayloadRendezvous
  (* BecomeUncertain(d, b), as in HaveCm overflow and close. *)
  <1>5. ASSUME NEW d \in Dirs, NEW b \in Seq(Bytes), BecomeUncertain(d, b)
        PROVE  FramedRecs(emitted'[e])
    <2>1. CASE d = e
      BY <1>0, <1>2, <1>5, <2>1 DEF BecomeUncertain, TypeOK
    <2>2. CASE d # e
      BY <1>1, <1>5, <2>2 DEF BecomeUncertain, TypeOK
    <2>3. QED
      BY <2>1, <2>2
  <1>6. ASSUME NEW d \in Dirs, NEW p \in Payloads, PayloadHaveCm(d, p)
        PROVE  FramedRecs(emitted'[e])
    BY <1>1, <1>5, <1>6 DEF PayloadHaveCm, TypeOK
  <1>7. ASSUME NEW d \in Dirs, NEW p \in Payloads, PayloadRaw(d, p)
        PROVE  FramedRecs(emitted'[e])
    <2>1. buf[d] \o p \in Seq(Bytes) /\ counter[d] \in Nat
      BY PayloadsAreSeqs, ConcatProperties DEF TypeOK
    <2>2. CASE d = e
      BY <1>2, <1>7, <2>1, <2>2 DEF PayloadRaw, TypeOK
    <2>3. CASE d # e
      BY <1>1, <1>7, <2>3 DEF PayloadRaw, TypeOK
    <2>4. QED
      BY <2>2, <2>3
  <1>8. ASSUME NEW d \in Dirs, DataDecrypt(d)
        PROVE  FramedRecs(emitted'[e])
    <2>1. CASE d = e
      BY <1>3, <1>8, <2>1 DEF DataDecrypt, TypeOK
    <2>2. CASE d # e
      BY <1>1, <1>8, <2>2 DEF DataDecrypt, TypeOK
    <2>3. QED
      BY <2>1, <2>2
  <1>9. ASSUME NEW d \in Dirs, DataFail(d)
        PROVE  FramedRecs(emitted'[e])
    <2>1. Rest(buf[d]) \in Seq(Bytes) /\ counter[d] + 1 \in Nat
      BY <1>9, FrameType DEF DataFail, TypeOK
    <2>2. CASE d = e
      BY <1>2, <1>9, <2>1, <2>2 DEF DataFail, TypeOK
    <2>3. CASE d # e
      BY <1>1, <1>9, <2>3 DEF DataFail, TypeOK
    <2>4. QED
      BY <2>2, <2>3
  <1>10. ASSUME NEW d \in Dirs, CloseInitial(d)
         PROVE  FramedRecs(emitted'[e])
    BY <1>5, <1>10 DEF CloseInitial, TypeOK
  <1>11. QED
    BY <1>1, <1>4, <1>6, <1>7, <1>8, <1>9, <1>10
       DEF Next, vars, PayloadInitial, PayloadCm, PayloadHaveKey, DataOverOk,
           DataOverErr, CloseOther

(* In every behaviour each chunk handed to the sink with plaintext (the  *)
(* connection message make_key takes, a chunk the HaveData iterator      *)
(* decrypts) is one whole frame as its length prefix announces it.       *)
THEOREM FramedThm == Spec => []PlainRawFramed
  <1>1. Init => PlainRawFramed
    BY DEF Init, PlainRawFramed, FramedRecs
  <1>2. Spec => [](IInv /\ PlainRawFramed)
    BY <1>1, InitIInv, NextIInv, NextFramed, PTL DEF Spec, IInv
  <1>3. QED
    BY <1>2, PTL

=============================================================================
