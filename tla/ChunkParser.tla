----------------------------- MODULE ChunkParser -----------------------------
(***************************************************************************)
(* One observed connection of the recorder: the two per-direction chunk    *)
(* parser state machines of tezedge-recorder/src/connection/chunk_parser/  *)
(* state.rs, the Buffer each of them owns, and the coordinator that routes *)
(* captured payloads to them, runs the key-derivation rendezvous and keeps *)
(* the Connection record that is written to the store.                     *)
(*                                                                         *)
(* Bytes are the numbers 0 .. Base-1; a length prefix hi, lo reads         *)
(* hi * Base + lo (Base = 256 in the code).  The crypto primitives         *)
(* (Keys::new, Key::decrypt, check_proof_of_work) are nondeterministic     *)
(* choices.  Buffer, Keys and the coordinator are not under src/: they are *)
(* modelled from the specification of the repository.                      *)
(***************************************************************************)
EXTENDS Integers, Sequences

CONSTANTS
    Base,           \* number of byte values (256 in the code)
    Limit,          \* HaveCm residual bound of HaveCm::handle_data (0x20000)
    CmMin,          \* make_key's too-short threshold (88)
    PowTarget,      \* difficulty recorded by a wrong_pow comment (26.0)
    MaxPayload,     \* longest payload one capture event delivers
    MaxStream,      \* bytes the capture layer delivers per direction
    DecryptCanFail  \* whether Key::decrypt may reject a chunk

ASSUME BaseAssumption == Base \in Nat \ {0}
ASSUME LimitAssumption == Limit \in Nat
ASSUME CmMinAssumption == CmMin \in Nat
ASSUME PowTargetAssumption == PowTarget \in Nat
ASSUME MaxPayloadAssumption == MaxPayload \in Nat \ {0}
ASSUME MaxStreamAssumption == MaxStream \in Nat
ASSUME DecryptCanFailAssumption == DecryptCanFail \in BOOLEAN

VARIABLES
    st,       \* st[d]: the variant the coordinator holds for direction d
    buf,      \* buf[d]: bytes of d's Buffer not yet consumed
    counter,  \* counter[d]: d's Buffer chunk counter
    error,    \* error[d]: HaveData.error, NotSet outside HaveData
    cn,       \* cn[d]: the copy of connection::Item inside d's Inner
    conn,     \* the coordinator's Connection record
    emitted,  \* emitted[d]: chunk records of d handed to the sink, in order
    sent,     \* sent[d]: every byte the capture layer delivered on d
    closed    \* closed[d]: the capture layer closed d

vars == <<st, buf, counter, error, cn, conn, emitted, sent, closed>>

Dirs == {"local", "remote"}   \* Sender: local = outgoing, remote = incoming

Other(d) == IF d = "local" THEN "remote" ELSE "local"

Bytes == 0 .. (Base - 1)

States == {"Initial", "HaveCm", "Uncertain", "HaveKey", "HaveNotKey",
           "HaveData", "CannotDecrypt"}

NotSet == -1   \* None of an Option field

(* The optional fields of a connection Comment: <<kind, d>> is the       *)
(* outgoing_kind field for d = "local" and incoming_kind for "remote".   *)
Fields == ({"too_short", "wrong_pow", "cannot_decrypt", "uncertain"} \X Dirs)
            \cup {<<"wrong_pk", "local">>}

Connections == [comment : [Fields -> Nat \cup {NotSet}], peerPk : BOOLEAN]

NewConnection == [comment |-> [f \in Fields |-> NotSet], peerPk |-> FALSE]

AddComment(c, f, v) == [c EXCEPT !.comment[f] = v]

(* Plaintext of a chunk: "cm" is raw[2..] of a connection message, "dec" *)
(* an authenticated decryption, "none" the empty vector.                 *)
Chunks == [ctr : Nat, raw : Seq(Bytes), plain : {"cm", "dec", "none"}]

Payloads == UNION {[1 .. n -> Bytes] : n \in 1 .. MaxPayload}

-----------------------------------------------------------------------------
(* Buffer (spec-modelled): framing of a byte sequence b.                  *)

Hdr(b) == b[1] * Base + b[2]

(* A framing that counts one header byte too few. *)
ChunkLenShort(b) == 1 + Hdr(b)

ChunkLen(b) == 2 + Hdr(b)

HaveChunk(b) == Len(b) >= 2 /\ Len(b) >= ChunkLen(b)

NextChunk(b) == SubSeq(b, 1, ChunkLen(b))

(* A Buffer::next that also drops the byte after the chunk it returns. *)
RestSkip(b) == SubSeq(b, ChunkLen(b) + 2, Len(b))

Rest(b) == SubSeq(b, ChunkLen(b) + 1, Len(b))

(* Inner::chunk *)
Chunk(c, raw, plain) == [ctr |-> c, raw |-> raw, plain |-> plain]

(* Inner::cleanup over Buffer::cleanup: the chunks it emits from buffer  *)
(* b at counter c (none when b is empty) and the counter after it.       *)
CleanupEmits(b, c) == IF b = <<>> THEN <<>> ELSE <<Chunk(c, b, "none")>>

(* A cleanup that forgets to advance the counter. *)
CleanupCounterNoInc(b, c) == c

CleanupCounter(b, c) == IF b = <<>> THEN c ELSE c + 1

-----------------------------------------------------------------------------
Init ==
    /\ st = [d \in Dirs |-> "Initial"]
    /\ buf = [d \in Dirs |-> <<>>]
    /\ counter = [d \in Dirs |-> 0]
    /\ error = [d \in Dirs |-> NotSet]
    /\ cn = [d \in Dirs |-> NewConnection]
    /\ conn = NewConnection
    /\ emitted = [d \in Dirs |-> <<>>]
    /\ sent = [d \in Dirs |-> <<>>]
    /\ closed = [d \in Dirs |-> FALSE]

(* The coordinator is inside a HaveData loop of neither direction. *)
Idle == \A d \in Dirs : st[d] # "HaveData"

CanDeliver(d, p) ==
    /\ Idle
    /\ ~closed[d]
    /\ Len(sent[d]) + Len(p) <= MaxStream

Deliver(d, p) == sent' = [sent EXCEPT ![d] = @ \o p]

(* Uncertain::new on d's Inner holding buffer b: flush b, mark the       *)
(* direction uncertain on the Inner's own copy, which the coordinator    *)
(* then takes (Uncertain::cn) as the connection record.                  *)
BecomeUncertain(d, b) ==
    LET c == AddComment(cn[d], <<"uncertain", d>>, 1) IN
    /\ st' = [st EXCEPT ![d] = "Uncertain"]
    /\ emitted' = [emitted EXCEPT ![d] = @ \o CleanupEmits(b, counter[d])]
    /\ counter' = [counter EXCEPT ![d] = CleanupCounter(b, counter[d])]
    /\ buf' = [buf EXCEPT ![d] = <<>>]
    /\ cn' = [cn EXCEPT ![d] = c]
    /\ conn' = c

(* The soft check of make_key on the bytes raw of d's connection         *)
(* message, applied to connection record c; powOk is the outcome of      *)
(* check_proof_of_work.                                                   *)
Check(c, d, raw, powOk) ==
    CASE Len(raw) <= CmMin -> AddComment(c, <<"too_short", d>>, Len(raw))
      [] ~powOk            -> AddComment(c, <<"wrong_pow", d>>, PowTarget)
      [] d = "remote"      -> [c EXCEPT !.peerPk = TRUE]
      [] OTHER             -> c

(* make_key, Keys::new succeeded: both halves take their connection      *)
(* message out of the buffers b (have_key) and emit it with plaintext    *)
(* raw[2..]; the record is local's copy of the connection with the soft  *)
(* checks applied.  The halves' own copies are left as they were.        *)
MakeKeyOk(b) ==
    \E pow \in [Dirs -> BOOLEAN] :
        /\ st' = [d \in Dirs |-> "HaveKey"]
        /\ emitted' = [d \in Dirs |->
                         Append(emitted[d], Chunk(counter[d], NextChunk(b[d]), "cm"))]
        /\ counter' = [d \in Dirs |-> counter[d] + 1]
        /\ buf' = [d \in Dirs |-> Rest(b[d])]
        /\ conn' = Check(Check(cn["local"], "local", NextChunk(b["local"]), pow["local"]),
                         "remote", NextChunk(b["remote"]), pow["remote"])
        /\ UNCHANGED cn

(* A make_key whose failure branch still hands out HaveKey. *)
MakeKeyFailKeepsKey(b) ==
    /\ st' = [d \in Dirs |-> "HaveKey"]
    /\ emitted' = [d \in Dirs |-> emitted[d] \o CleanupEmits(b[d], counter[d])]
    /\ counter' = [d \in Dirs |-> CleanupCounter(b[d], counter[d])]
    /\ buf' = [d \in Dirs |-> <<>>]
    /\ conn' = AddComment(cn["local"], <<"wrong_pk", "local">>, 1)
    /\ UNCHANGED cn

(* make_key, Keys::new failed: both halves flush their buffer            *)
(* (have_not_key) and the record gets outgoing_wrong_pk.                  *)
MakeKeyFail(b) ==
    /\ st' = [d \in Dirs |-> "HaveNotKey"]
    /\ emitted' = [d \in Dirs |-> emitted[d] \o CleanupEmits(b[d], counter[d])]
    /\ counter' = [d \in Dirs |-> CleanupCounter(b[d], counter[d])]
    /\ buf' = [d \in Dirs |-> <<>>]
    /\ conn' = AddComment(cn["local"], <<"wrong_pk", "local">>, 1)
    /\ UNCHANGED cn

-----------------------------------------------------------------------------
(* on_payload(d, p), one action per variant that d is in. *)

(* Initial::handle_data, the first chunk is not complete yet. *)
PayloadInitial(d, p) ==
    /\ CanDeliver(d, p)
    /\ st[d] = "Initial"
    /\ ~HaveChunk(buf[d] \o p)
    /\ buf' = [buf EXCEPT ![d] = @ \o p]
    /\ Deliver(d, p)
    /\ UNCHANGED <<st, counter, error, cn, conn, emitted, closed>>

(* Initial::handle_data completes d's connection message before the      *)
(* other direction holds its own.                                         *)
PayloadCm(d, p) ==
    /\ CanDeliver(d, p)
    /\ st[d] = "Initial"
    /\ HaveChunk(buf[d] \o p)
    /\ st[Other(d)] # "HaveCm"
    /\ st' = [st EXCEPT ![d] = "HaveCm"]
    /\ buf' = [buf EXCEPT ![d] = @ \o p]
    /\ Deliver(d, p)
    /\ UNCHANGED <<counter, error, cn, conn, emitted, closed>>

(* Initial::handle_data completes d's connection message while the other *)
(* direction is in HaveCm: the coordinator calls make_key at once.       *)
PayloadRendezvous(d, p) ==
    LET b == [buf EXCEPT ![d] = @ \o p] IN
    /\ CanDeliver(d, p)
    /\ st[d] = "Initial"
    /\ HaveChunk(b[d])
    /\ st[Other(d)] = "HaveCm"
    /\ MakeKeyOk(b) \/ MakeKeyFail(b)
    /\ Deliver(d, p)
    /\ UNCHANGED <<error, closed>>

(* HaveCm::handle_data: the residual is checked before the payload is    *)
(* appended; over the limit the direction becomes Uncertain and the      *)
(* payload is not appended.                                              *)
PayloadHaveCm(d, p) ==
    /\ CanDeliver(d, p)
    /\ st[d] = "HaveCm"
    /\ \/ /\ Len(buf[d]) <= Limit
          /\ buf' = [buf EXCEPT ![d] = @ \o p]
          /\ UNCHANGED <<st, counter, cn, conn, emitted>>
       \/ /\ Len(buf[d]) > Limit
          /\ BecomeUncertain(d, buf[d])
    /\ Deliver(d, p)
    /\ UNCHANGED <<error, closed>>

(* Uncertain, HaveNotKey and CannotDecrypt ::handle_data: append and     *)
(* flush everything buffered as one raw chunk.                           *)
PayloadRaw(d, p) ==
    /\ CanDeliver(d, p)
    /\ st[d] \in {"Uncertain", "HaveNotKey", "CannotDecrypt"}
    /\ emitted' = [emitted EXCEPT ![d] = @ \o CleanupEmits(buf[d] \o p, counter[d])]
    /\ counter' = [counter EXCEPT ![d] = CleanupCounter(buf[d] \o p, counter[d])]
    /\ buf' = [buf EXCEPT ![d] = <<>>]
    /\ Deliver(d, p)
    /\ UNCHANGED <<st, error, cn, conn, closed>>

(* HaveKey::handle_data: append and become HaveData with no error. *)
PayloadHaveKey(d, p) ==
    /\ CanDeliver(d, p)
    /\ st[d] = "HaveKey"
    /\ st' = [st EXCEPT ![d] = "HaveData"]
    /\ buf' = [buf EXCEPT ![d] = @ \o p]
    /\ error' = [error EXCEPT ![d] = NotSet]
    /\ Deliver(d, p)
    /\ UNCHANGED <<counter, cn, conn, emitted, closed>>

-----------------------------------------------------------------------------
(* The coordinator's loop over the HaveData iterator, then over().       *)

(* next(): the next framed chunk decrypts. *)
DataDecrypt(d) ==
    /\ st[d] = "HaveData"
    /\ error[d] = NotSet
    /\ HaveChunk(buf[d])
    /\ emitted' = [emitted EXCEPT ![d] = Append(@, Chunk(counter[d], NextChunk(buf[d]), "dec"))]
    /\ counter' = [counter EXCEPT ![d] = @ + 1]
    /\ buf' = [buf EXCEPT ![d] = Rest(@)]
    /\ UNCHANGED <<st, error, cn, conn, sent, closed>>

(* next(): the chunk taken by Buffer::next fails to decrypt; its counter *)
(* is the error and whatever follows it in the buffer is flushed.        *)
DataFail(d) ==
    LET c == counter[d] + 1
        r == Rest(buf[d])
    IN
    /\ DecryptCanFail
    /\ st[d] = "HaveData"
    /\ error[d] = NotSet
    /\ HaveChunk(buf[d])
    /\ error' = [error EXCEPT ![d] = counter[d]]
    /\ emitted' = [emitted EXCEPT ![d] = @ \o CleanupEmits(r, c)]
    /\ counter' = [counter EXCEPT ![d] = CleanupCounter(r, c)]
    /\ buf' = [buf EXCEPT ![d] = <<>>]
    /\ UNCHANGED <<st, cn, conn, sent, closed>>

(* A loop exit that waits for an empty buffer rather than for the end  *)
(* of the whole chunks.                                                 *)
DrainedOnEmpty(d) == error[d] # NotSet \/ buf[d] = <<>>

(* Iterator::next for HaveData returns None. *)
Drained(d) == error[d] # NotSet \/ ~HaveChunk(buf[d])

(* over() without an error: back to HaveKey. *)
DataOverOk(d) ==
    /\ st[d] = "HaveData"
    /\ Drained(d)
    /\ error[d] = NotSet
    /\ st' = [st EXCEPT ![d] = "HaveKey"]
    /\ UNCHANGED <<buf, counter, error, cn, conn, emitted, sent, closed>>

(* An over() that keeps the error field when it moves to CannotDecrypt. *)
DataOverErrKeepsError(d) ==
    LET c == AddComment(cn[d], <<"cannot_decrypt", d>>, error[d]) IN
    /\ st[d] = "HaveData"
    /\ error[d] # NotSet
    /\ st' = [st EXCEPT ![d] = "CannotDecrypt"]
    /\ cn' = [cn EXCEPT ![d] = c]
    /\ conn' = c
    /\ UNCHANGED <<buf, counter, error, emitted, sent, closed>>

(* over() with an error: CannotDecrypt, the failing counter goes into    *)
(* the Inner's own copy of the connection, which the coordinator keeps.  *)
DataOverErr(d) ==
    LET c == AddComment(cn[d], <<"cannot_decrypt", d>>, error[d]) IN
    /\ st[d] = "HaveData"
    /\ error[d] # NotSet
    /\ st' = [st EXCEPT ![d] = "CannotDecrypt"]
    /\ error' = [error EXCEPT ![d] = NotSet]
    /\ cn' = [cn EXCEPT ![d] = c]
    /\ conn' = c
    /\ UNCHANGED <<buf, counter, emitted, sent, closed>>

-----------------------------------------------------------------------------
(* on_close(d).  Only Initial offers a conversion (Initial::uncertain);  *)
(* no other variant has one, so the rest of the buffer stays where it is. *)

CloseInitial(d) ==
    /\ Idle
    /\ ~closed[d]
    /\ st[d] = "Initial"
    /\ BecomeUncertain(d, buf[d])
    /\ closed' = [closed EXCEPT ![d] = TRUE]
    /\ UNCHANGED <<error, sent>>

CloseOther(d) ==
    /\ Idle
    /\ ~closed[d]
    /\ st[d] # "Initial"
    /\ closed' = [closed EXCEPT ![d] = TRUE]
    /\ UNCHANGED <<st, buf, counter, error, cn, conn, emitted, sent>>

-----------------------------------------------------------------------------
Next ==
    \E d \in Dirs :
        \/ \E p \in Payloads :
              \/ PayloadInitial(d, p)
              \/ PayloadCm(d, p)
              \/ PayloadRendezvous(d, p)
              \/ PayloadHaveCm(d, p)
              \/ PayloadRaw(d, p)
              \/ PayloadHaveKey(d, p)
        \/ DataDecrypt(d)
        \/ DataFail(d)
        \/ DataOverOk(d)
        \/ DataOverErr(d)
        \/ CloseInitial(d)
        \/ CloseOther(d)

(* The coordinator runs the HaveData loop to its end before it takes the *)
(* next capture event: every step of the loop is weakly fair.            *)
Fairness ==
    \A d \in Dirs :
        /\ WF_vars(DataDecrypt(d) \/ DataFail(d))
        /\ WF_vars(DataOverOk(d) \/ DataOverErr(d))

Spec == Init /\ [][Next]_vars /\ Fairness


-----------------------------------------------------------------------------
(***************************************************************************)
(* Properties.                                                             *)
(***************************************************************************)

(* Each variable has its type; in particular HaveData.error exists only  *)
(* in HaveData, as the Rust variants have it, so no over() may leave it  *)
(* behind in CannotDecrypt or HaveKey.                                   *)
TypeOK ==
    /\ st \in [Dirs -> States]
    /\ buf \in [Dirs -> Seq(Bytes)]
    /\ counter \in [Dirs -> Nat]
    /\ error \in [Dirs -> Nat \cup {NotSet}]
    /\ \A d \in Dirs : error[d] # NotSet => st[d] = "HaveData"
    /\ cn \in [Dirs -> Connections]
    /\ conn \in Connections
    /\ emitted \in [Dirs -> Seq(Chunks)]
    /\ sent \in [Dirs -> Seq(Bytes)]
    /\ closed \in [Dirs -> BOOLEAN]

(* The raw bytes of the first k chunk records of e, concatenated. *)
Wire(e, k) ==
    LET w[i \in 0 .. k] == IF i = 0 THEN <<>> ELSE w[i - 1] \o e[i].raw
    IN  w[k]

IsPrefixOf(p, s) == Len(p) <= Len(s) /\ SubSeq(s, 1, Len(p)) = p

(* Reference framing: raw is one whole chunk, 2-byte length then body. *)
IsFrame(raw) == Len(raw) >= 2 /\ Len(raw) = 2 + raw[1] * Base + raw[2]

(* Chunk counters of a direction, as handed to the sink, strictly        *)
(* increase and stay below the Buffer's counter, through every path of   *)
(* the state machine (have_key, cleanup, the HaveData iterator).         *)
CountersIncrease ==
    \A d \in Dirs : \A i \in 1 .. Len(emitted[d]) :
        /\ emitted[d][i].ctr < counter[d]
        /\ \A j \in (i + 1) .. Len(emitted[d]) : emitted[d][i].ctr < emitted[d][j].ctr

(* Once a direction has emitted a chunk without plaintext (a cleanup     *)
(* flush of Uncertain, HaveNotKey, HaveData::next's failure path or      *)
(* CannotDecrypt), it never emits plaintext again.                       *)
NoPlainAfterRaw ==
    \A d \in Dirs : \A i, j \in 1 .. Len(emitted[d]) :
        (i < j /\ emitted[d][i].plain = "none") => emitted[d][j].plain = "none"

(* Every chunk a direction emits with plaintext (the connection message *)
(* of make_key, a decrypted chunk of the HaveData iterator) is one whole *)
(* frame as its 2-byte length prefix announces it, and carries its       *)
(* position in the direction's records as counter: no counter is skipped *)
(* before the direction leaves plaintext, whatever the payload           *)
(* boundaries and the order of the two directions.                       *)
PlainFramed ==
    \A d \in Dirs : \A i \in 1 .. Len(emitted[d]) :
        emitted[d][i].plain # "none" =>
            /\ emitted[d][i].ctr = i - 1
            /\ IsFrame(emitted[d][i].raw)

(* Slicing independence: the bytes of every chunk emitted with plaintext *)
(* and of the chunks before it are exactly a prefix of the bytes         *)
(* captured on that direction, for whatever payload boundaries the       *)
(* capture layer chose.                                                   *)
TrustedPrefix ==
    \A d \in Dirs : \A i \in 1 .. Len(emitted[d]) :
        emitted[d][i].plain # "none" => IsPrefixOf(Wire(emitted[d], i), sent[d])

(* The spec: the counters a direction emits are 0, 1, 2, ... with no gap. *)
CountersContiguous ==
    \A d \in Dirs : \A i \in 1 .. Len(emitted[d]) : emitted[d][i].ctr = i - 1

(* The spec: every captured byte is recorded: the emitted raw bytes of a *)
(* direction followed by what its Buffer still holds are what the        *)
(* capture layer delivered.                                              *)
NoLoss ==
    \A d \in Dirs : Wire(emitted[d], Len(emitted[d])) \o buf[d] = sent[d]

(* The spec: a pre-handshake residual of Limit bytes stays in HaveCm,    *)
(* one byte more forces Uncertain.                                       *)
PreHandshakeBound ==
    \A d \in Dirs : st[d] = "HaveCm" => Len(buf[d]) <= Limit

(* The spec: comments accumulate; no step of the coordinator loses a     *)
(* comment field or the peer public key already on the record.          *)
CommentsPreserved ==
    [][ /\ \A f \in Fields : conn.comment[f] # NotSet => conn'.comment[f] # NotSet
        /\ conn.peerPk => conn'.peerPk ]_vars

(* The spec: a connection message whose payload (after the 2-byte        *)
(* length) is not longer than CmMin is flagged too_short with that       *)
(* payload length.                                                        *)
TooShortFlagged ==
    \A d \in Dirs :
        (Len(emitted[d]) >= 1 /\ emitted[d][1].plain = "cm"
           /\ Len(emitted[d][1].raw) - 2 <= CmMin)
        => conn.comment[<<"too_short", d>>] = Len(emitted[d][1].raw) - 2

(* The coordinator's HaveData loop always ends: a direction in HaveData  *)
(* gets back to HaveKey or to CannotDecrypt.                             *)
DrainCompletes ==
    \A d \in Dirs : st[d] = "HaveData" ~> st[d] \in {"HaveKey", "CannotDecrypt"}


(* The spec (on_close, stream abandonment): a closed half is converted to *)
(* Uncertain and its buffered bytes flushed, so no captured byte of a     *)
(* closed direction is left behind in its Buffer, whichever variant the   *)
(* close found it in.                                                     *)
ClosedFlushed ==
    \A d \in Dirs : closed[d] => buf[d] = <<>>

-----------------------------------------------------------------------------
(***************************************************************************)
(* Refinement: the parser implements the Recorder contract under the      *)
(* mapping that forgets the bytes of each record and reads a direction's  *)
(* mode off its variant.                                                  *)
(***************************************************************************)

(* The chunk records of e with their bytes left out. *)
RecordsOf(e) == [i \in 1 .. Len(e) |-> [ctr |-> e[i].ctr, plain |-> e[i].plain]]

(* Before key derivation in Initial and HaveCm; keyed in HaveKey, and in *)
(* HaveData while no chunk failed; raw in the other variants.            *)
ModeOf(d) ==
    CASE st[d] \in {"Initial", "HaveCm"}                        -> "handshake"
      [] st[d] \in {"HaveKey", "HaveData"} /\ error[d] = NotSet -> "keyed"
      [] OTHER                                                   -> "raw"

R == INSTANCE Recorder WITH
        log <- [d \in Dirs |-> RecordsOf(emitted[d])],
        mode <- [d \in Dirs |-> ModeOf(d)]

(* Every step of the coordinator and the two state machines is a step of *)
(* the Recorder contract or leaves it as it was: the connection messages *)
(* are recorded together by make_key, decrypted chunks only after them,  *)
(* Uncertain::new, have_not_key and the HaveData failure path leave      *)
(* plaintext for good, and only a decrypt failure skips a counter.       *)
RecorderSpec == R!Spec

=============================================================================
