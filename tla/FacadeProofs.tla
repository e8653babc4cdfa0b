----------------------------- MODULE FacadeProofs -----------------------------
(***************************************************************************)
(* Proofs about the BPF facade, for every descriptor size, every set of   *)
(* slice lengths, size fields, families, ports and ids, and every bound   *)
(* on the commands sent.                                                  *)
(***************************************************************************)
EXTENDS Facade, SequenceTheorems, TLAPS

-----------------------------------------------------------------------------
(* from_rb_slice on one slice the BPF program may hand over. *)

(* The outcome of SnifferError::code, arm by arm, read through its ok   *)
(* field and the one other field the arm has.                            *)
LEMMA CodeArms ==
  ASSUME NEW code \in Int, NEW n \in Int
  PROVE  /\ code = -14 => ~Code(code, n).ok /\ Code(code, n).err = "Fault"
         /\ code # -14 /\ code < 0 => ~Code(code, n).ok /\ Code(code, n).err = "Unknown"
         /\ ~(code < 0) /\ n < code => ~Code(code, n).ok /\ Code(code, n).err = "SliceTooShort"
         /\ ~(code < 0) /\ ~(n < code) => Code(code, n) = [ok |-> TRUE, size |-> code]
  <1>1. code = -14 => Code(code, n) = [ok |-> FALSE, err |-> "Fault"]
    BY Zenon DEF Code
  <1>2. code # -14 /\ code < 0 => Code(code, n) = [ok |-> FALSE, err |-> "Unknown"]
    BY Zenon DEF Code
  <1>3. ~(code < 0) /\ n < code => Code(code, n) = [ok |-> FALSE, err |-> "SliceTooShort"]
    <2>1. ~(code < 0) => code # -14
      OBVIOUS
    <2>2. QED
      BY <2>1, Zenon DEF Code
  <1>4. ~(code < 0) /\ ~(n < code) => Code(code, n) = [ok |-> TRUE, size |-> code]
    <2>1. ~(code < 0) => code # -14
      OBVIOUS
    <2>2. QED
      BY <2>1, Zenon DEF Code
  <1>5. QED
    BY <1>1, <1>2, <1>3, <1>4

(* SnifferError::code fails with an error other than a panic. *)
LEMMA CodeErr ==
  ASSUME NEW code \in Int, NEW n \in Int, ~Code(code, n).ok
  PROVE  Code(code, n).err \in {"Fault", "Unknown", "SliceTooShort"}
  <1>1. ~(~(code < 0) /\ ~(n < code))
    <2>1. ~(code < 0) /\ ~(n < code) => Code(code, n).ok
      <3>1. ~(code < 0) /\ ~(n < code) => Code(code, n) = [ok |-> TRUE, size |-> code]
        BY CodeArms
      <3>2. QED
        BY <3>1
    <2>2. QED
      BY <2>1
  <1>2. QED
    BY <1>1, CodeArms

(* An Ok size of SnifferError::code fits in the data after the descriptor. *)
LEMMA CodeOk ==
  ASSUME NEW code \in Int, NEW n \in Int, Code(code, n).ok
  PROVE  Code(code, n).size \in 0 .. n
  <1>1. ~(code < 0) /\ ~(n < code)
    BY CodeArms
  <1>2. Code(code, n) = [ok |-> TRUE, size |-> code]
    BY <1>1, CodeArms
  <1>3. QED
    BY <1>1, <1>2

(* parse_socket_address succeeds on a whole sockaddr_in or sockaddr_in6. *)
LEMMA SockaddrParses ==
  ASSUME NEW m \in Int, NEW fam \in {2, 10}, m >= SockaddrLen(fam)
  PROVE  ParseSocketAddress(m, fam) = "Addr"
  <1>1. CASE fam = 2
    <2>1. m >= 16
      BY <1>1 DEF SockaddrLen
    <2>2. QED
      BY <1>1, <2>1 DEF ParseSocketAddress
  <1>2. CASE fam = 10
    <2>1. m >= 28
      BY <1>2 DEF SockaddrLen
    <2>2. QED
      BY <1>2, <2>1 DEF ParseSocketAddress
  <1>3. QED
    BY <1>1, <1>2

(* ... and so does the listen_on_fd read that comes before it in Accept. *)
LEMMA AddressParses ==
  ASSUME NEW tag \in AddrTags, NEW n \in Int, NEW fam \in {2, 10},
         n >= AddrOffset(tag) + SockaddrLen(fam)
  PROVE  AddressOf(tag, n, fam) = "Addr"
  <1>1. AddrOffset(tag) \in {0, 4}
    BY DEF AddrOffset
  <1>2. SockaddrLen(fam) \in Nat
    BY DEF SockaddrLen
  <1>3. n - AddrOffset(tag) \in Int /\ n - AddrOffset(tag) >= SockaddrLen(fam)
        /\ ~(n < AddrOffset(tag))
    BY <1>1, <1>2
  <1>4. ParseSocketAddress(n - AddrOffset(tag), fam) = "Addr"
    BY <1>3, SockaddrParses
  <1>5. QED
    BY <1>3, <1>4 DEF AddressOf

(* No slice the BPF program hands over makes from_rb_slice panic. *)
LEMMA FromRbSliceNoPanic ==
  ASSUME NEW len \in Nat, NEW tag \in Tags, NEW size \in Int, NEW fam \in Int,
         KernelChecked(len, tag, fam)
  PROVE  FromRbSlice(len, tag, size, fam) # Panic
  <1> DEFINE avail == len - DescSize
             r == Code(size, avail)
             Event(sz) == [ok |-> TRUE, tag |-> tag, size |-> sz, avail |-> avail]
  <1>0. avail \in Int
    BY DescSizeAssumption
  <1>p. Panic.ok = FALSE /\ Panic.err = "Panic"
    BY DEF Panic
  <1>e. ASSUME NEW sz PROVE Event(sz).ok = TRUE
    OBVIOUS
  <1>1. CASE len < DescSize
    <2>1. FromRbSlice(len, tag, size, fam) = [ok |-> FALSE, err |-> "SliceTooShort"]
      BY <1>1, Zenon DEF FromRbSlice
    <2>2. FromRbSlice(len, tag, size, fam).err = "SliceTooShort"
      BY <2>1
    <2>3. QED
      BY <2>2, <1>p
  <1>2. CASE ~(len < DescSize) /\ tag \in DataTags /\ ~r.ok
    <2>1. FromRbSlice(len, tag, size, fam) = r
      BY <1>2, Zenon DEF FromRbSlice
    <2>2. r.err \in {"Fault", "Unknown", "SliceTooShort"}
      BY <1>0, <1>2, CodeErr
    <2>3. QED
      BY <2>1, <2>2, <1>p
  <1>3. CASE ~(len < DescSize) /\ tag \in DataTags /\ r.ok
    <2>1. r.size \in 0 .. avail
      BY <1>0, <1>3, CodeOk
    <2>2. r.size <= avail
      BY <2>1
    <2>3. FromRbSlice(len, tag, size, fam) = Event(r.size)
      BY <1>3, <2>2, Zenon DEF FromRbSlice
    <2>4. QED
      BY <2>3, <1>e, <1>p
  <1>4. CASE ~(len < DescSize) /\ tag \in AddrTags
    <2>1. fam \in {2, 10} /\ avail >= AddrOffset(tag) + SockaddrLen(fam)
      BY <1>4 DEF KernelChecked
    <2>2. AddressOf(tag, avail, fam) = "Addr"
      BY <1>0, <1>4, <2>1, AddressParses
    <2>3. tag \notin DataTags
      BY <1>4 DEF DataTags, AddrTags
    <2>4. FromRbSlice(len, tag, size, fam) = Event(0)
      BY <1>4, <2>2, <2>3, Zenon DEF FromRbSlice
    <2>5. QED
      BY <2>4, <1>e, <1>p
  <1>5. CASE ~(len < DescSize) /\ tag \notin DataTags \cup AddrTags
    <2>1. FromRbSlice(len, tag, size, fam) = Event(0)
      BY <1>5, Zenon DEF FromRbSlice
    <2>2. QED
      BY <2>1, <1>e, <1>p
  <1>6. QED
    BY <1>1, <1>2, <1>3, <1>4, <1>5

(* NoPanic is inductive: only ReadSlice changes last, and it takes a     *)
(* slice the BPF program hands over.                                     *)
THEOREM NoPanicThm == Spec => []NoPanic
  <1>1. Init => NoPanic
    <2> SUFFICES ASSUME Init PROVE last.err # Panic.err
      BY DEF NoPanic
    <2> QED
      BY DEF Init, Panic
  <1>2. NoPanic /\ [Next]_vars => NoPanic'
    <2> SUFFICES ASSUME NoPanic, [Next]_vars PROVE NoPanic'
      OBVIOUS
    <2>1. ASSUME NEW len \in SliceLens, NEW tag \in Tags, NEW size \in SizeFields,
                 NEW fam \in Families, ReadSlice(len, tag, size, fam)
          PROVE  NoPanic'
      <3>a. len \in Nat /\ size \in Int
        BY SliceLensAssumption, SizeFieldsAssumption
      <3>b. fam \in 0 .. (2^16 - 1)
        BY FamiliesAssumption
      <3>1. len \in Nat /\ size \in Int /\ fam \in Int
        BY <3>a, <3>b
      <3>2. FromRbSlice(len, tag, size, fam) # Panic
        BY <2>1, <3>1, FromRbSliceNoPanic DEF ReadSlice
      <3>3. QED
        BY <2>1, <3>2 DEF ReadSlice, NoPanic
    <2>2. ASSUME NEW c \in Commands, SendCommand(c) PROVE NoPanic'
      BY <2>2 DEF SendCommand, NoPanic
    <2>3. CASE ReadCommand
      BY <2>3 DEF ReadCommand, NoPanic
    <2>4. CASE UNCHANGED vars
      BY <2>4 DEF vars, NoPanic
    <2>5. QED
      BY <2>1, <2>2, <2>3, <2>4 DEF Next
  <1>3. QED
    BY <1>1, <1>2, PTL DEF Spec

-----------------------------------------------------------------------------
(* The command channel. *)

(* from_str inverts Display, one command kind at a time. *)
LEMMA WatchPortRoundTrip ==
  ASSUME NEW c \in [kind : {"WatchPort"}, port : Ports]
  PROVE  FromStr(Words(c)) = [ok |-> TRUE, cmd |-> c]
  <1>1. Words(c) = <<"watch_port", c.port>>
    BY Zenon DEF Words
  <1>2a. c.port \in 0 .. (2^16 - 1)
    BY PortsAssumption
  <1>2b. 2^16 = 65536
    OBVIOUS
  <1>2. c.port \in Nat /\ c.port < 2^16
    BY <1>2a, <1>2b
  <1>3. ParsesAs(c.port, 16)
    BY <1>2 DEF ParsesAs
  <1>4. FromStr(<<"watch_port", c.port>>)
          = [ok |-> TRUE, cmd |-> [kind |-> "WatchPort", port |-> c.port]]
    <2>1. Len(<<"watch_port", c.port>>) >= 2
      OBVIOUS
    <2>2. QED
      BY <1>3, <2>1, Zenon DEF FromStr
  <1>5. c = [kind |-> "WatchPort", port |-> c.port]
    OBVIOUS
  <1>6. QED
    BY <1>1, <1>4, <1>5

LEMMA IgnoreRoundTrip ==
  ASSUME NEW c \in [kind : {"IgnoreConnection"}, pid : Ids, fd : Ids]
  PROVE  FromStr(Words(c)) = [ok |-> TRUE, cmd |-> c]
  <1>1. Words(c) = <<"ignore_connection", c.pid, c.fd>>
    BY Zenon DEF Words
  <1>2. c.pid \in Nat /\ c.fd \in Nat
    BY IdsAssumption
  <1>3. ParsesAs(c.pid, 32) /\ ParsesAs(c.fd, 32)
    BY <1>2 DEF ParsesAs
  <1>4. FromStr(<<"ignore_connection", c.pid, c.fd>>)
          = [ok |-> TRUE, cmd |-> [kind |-> "IgnoreConnection", pid |-> c.pid, fd |-> c.fd]]
    <2>1. Len(<<"ignore_connection", c.pid, c.fd>>) >= 3
      OBVIOUS
    <2>2. QED
      BY <1>3, <2>1, Zenon DEF FromStr
  <1>5. c = [kind |-> "IgnoreConnection", pid |-> c.pid, fd |-> c.fd]
    OBVIOUS
  <1>6. QED
    BY <1>1, <1>4, <1>5

LEMMA FetchRoundTrip ==
  ASSUME NEW c \in [kind : {"FetchCounter"}]
  PROVE  FromStr(Words(c)) = [ok |-> TRUE, cmd |-> c]
  <1>1. Words(c) = <<"fetch_counter">>
    BY Zenon DEF Words
  <1>2. FromStr(<<"fetch_counter">>) = [ok |-> TRUE, cmd |-> [kind |-> "FetchCounter"]]
    BY Zenon DEF FromStr
  <1>3. c = [kind |-> "FetchCounter"]
    OBVIOUS
  <1>4. QED
    BY <1>1, <1>2, <1>3

LEMMA RoundTrip ==
  ASSUME NEW c \in Commands
  PROVE  FromStr(Words(c)) = [ok |-> TRUE, cmd |-> c]
  BY WatchPortRoundTrip, IgnoreRoundTrip, FetchRoundTrip DEF Commands

(* The lines Display writes, and the results from_str gives them. *)
Lines == {Words(c) : c \in Commands}

Results == {[ok |-> TRUE, cmd |-> c] : c \in Commands}

(* Inductive strengthening of CommandsRoundTrip: the lines in flight on  *)
(* the stream are, in order, the Display of the commands sent after the  *)
(* ones already read.                                                     *)
ChanInv ==
  /\ sent \in Seq(Commands)
  /\ chan \in Seq(Lines)
  /\ got \in Seq(Results)
  /\ Len(got) + Len(chan) = Len(sent)
  /\ \A i \in 1 .. Len(got) : got[i] = [ok |-> TRUE, cmd |-> sent[i]]
  /\ \A i \in 1 .. Len(chan) : chan[i] = Words(sent[Len(got) + i])

LEMMA InitChanInv == Init => ChanInv
  BY DEF Init, ChanInv

LEMMA SendChanInv ==
  ASSUME ChanInv, NEW c \in Commands, SendCommand(c)
  PROVE  ChanInv'
  <1>1. sent' \in Seq(Commands) /\ chan' \in Seq(Lines) /\ got' \in Seq(Results)
    BY DEF ChanInv, SendCommand, Lines
  <1>2. Len(sent') = Len(sent) + 1 /\ Len(chan') = Len(chan) + 1 /\ got' = got
    BY DEF ChanInv, SendCommand
  <1>3. Len(got') + Len(chan') = Len(sent')
    BY <1>2 DEF ChanInv
  <1>4. \A i \in 1 .. Len(sent) : sent'[i] = sent[i]
    BY DEF ChanInv, SendCommand
  <1>5. sent'[Len(sent) + 1] = c /\ chan'[Len(chan) + 1] = Words(c)
    BY DEF ChanInv, SendCommand
  <1>6. \A i \in 1 .. Len(chan) : chan'[i] = chan[i]
    BY DEF ChanInv, SendCommand
  <1>7. \A i \in 1 .. Len(got') : got'[i] = [ok |-> TRUE, cmd |-> sent'[i]]
    BY <1>2, <1>4 DEF ChanInv
  <1>8. \A i \in 1 .. Len(chan') : chan'[i] = Words(sent'[Len(got') + i])
    <2> SUFFICES ASSUME NEW i \in 1 .. Len(chan')
                 PROVE  chan'[i] = Words(sent'[Len(got') + i])
      OBVIOUS
    <2>1. CASE i <= Len(chan)
      BY <1>2, <1>4, <1>6, <2>1 DEF ChanInv
    <2>2. CASE i = Len(chan) + 1
      BY <1>2, <1>5, <2>2 DEF ChanInv
    <2>3. QED
      BY <1>2, <2>1, <2>2 DEF ChanInv
  <1>9. QED
    BY <1>1, <1>3, <1>7, <1>8 DEF ChanInv

LEMMA ReadChanInv ==
  ASSUME ChanInv, ReadCommand
  PROVE  ChanInv'
  <1> DEFINE k == Len(got) + 1
  <1>0. /\ got \in Seq(Results) /\ chan \in Seq(Lines) /\ sent \in Seq(Commands)
        /\ Len(got) + Len(chan) = Len(sent)
        /\ \A i \in 1 .. Len(got) : got[i] = [ok |-> TRUE, cmd |-> sent[i]]
    BY DEF ChanInv
  <1>1. Len(chan) >= 1 /\ Len(sent) >= k
    BY DEF ChanInv, ReadCommand
  <1>2. Head(chan) = Words(sent[k])
    BY <1>1 DEF ChanInv
  <1>3. sent[k] \in Commands
    BY <1>1 DEF ChanInv
  <1>4. FromStr(Head(chan)) = [ok |-> TRUE, cmd |-> sent[k]]
    BY <1>2, <1>3, RoundTrip
  <1>5. FromStr(Head(chan)) \in Results
    BY <1>3, <1>4 DEF Results
  <1>6. got' = Append(got, FromStr(Head(chan))) /\ chan' = Tail(chan) /\ sent' = sent
    BY DEF ReadCommand
  <1>7. sent' \in Seq(Commands) /\ chan' \in Seq(Lines) /\ got' \in Seq(Results)
    BY <1>1, <1>5, <1>6 DEF ChanInv
  <1>8. Len(got') = k /\ Len(chan') = Len(chan) - 1
    BY <1>1, <1>6 DEF ChanInv
  <1>9. Len(got') + Len(chan') = Len(sent')
    <2>1. Len(got) \in Nat /\ Len(chan) \in Nat /\ Len(sent) \in Nat
      BY <1>0
    <2>2. Len(sent') = Len(sent)
      BY <1>6
    <2>3. Len(got) + Len(chan) = Len(sent)
      BY <1>0
    <2>4. QED
      BY <1>8, <2>1, <2>2, <2>3
  <1>10. \A i \in 1 .. Len(got') : got'[i] = [ok |-> TRUE, cmd |-> sent'[i]]
    <2> SUFFICES ASSUME NEW i \in 1 .. Len(got')
                 PROVE  got'[i] = [ok |-> TRUE, cmd |-> sent'[i]]
      OBVIOUS
    <2>1. CASE i <= Len(got)
      <3>1. got'[i] = got[i]
        BY <1>0, <1>6, <1>8, <2>1
      <3>2. QED
        BY <1>0, <1>6, <1>8, <2>1, <3>1
    <2>2. CASE i = k
      <3>1. got'[i] = FromStr(Head(chan))
        BY <1>0, <1>6, <2>2
      <3>2. QED
        BY <1>4, <1>6, <2>2, <3>1
    <2>3. QED
      BY <1>0, <1>8, <2>1, <2>2
  <1>11. \A i \in 1 .. Len(chan') : chan'[i] = Words(sent'[Len(got') + i])
    <2> SUFFICES ASSUME NEW i \in 1 .. Len(chan')
                 PROVE  chan'[i] = Words(sent'[Len(got') + i])
      OBVIOUS
    <2>1. chan'[i] = chan[i + 1]
      BY <1>1, <1>6, <1>8 DEF ChanInv
    <2>2. i + 1 \in 1 .. Len(chan)
      BY <1>8 DEF ChanInv
    <2>3. QED
      BY <1>6, <1>8, <2>1, <2>2 DEF ChanInv
  <1>12. QED
    BY <1>7, <1>9, <1>10, <1>11 DEF ChanInv

LEMMA NextChanInv == ChanInv /\ [Next]_vars => ChanInv'
  <1> SUFFICES ASSUME ChanInv, [Next]_vars PROVE ChanInv'
    OBVIOUS
  <1>1. ASSUME NEW len \in SliceLens, NEW tag \in Tags, NEW size \in SizeFields,
               NEW fam \in Families, ReadSlice(len, tag, size, fam)
        PROVE  ChanInv'
    BY <1>1 DEF ReadSlice, ChanInv
  <1>2. ASSUME NEW c \in Commands, SendCommand(c) PROVE ChanInv'
    BY <1>2, SendChanInv
  <1>3. CASE ReadCommand
    BY <1>3, ReadChanInv
  <1>4. CASE UNCHANGED vars
    BY <1>4 DEF vars, ChanInv
  <1>5. QED
    BY <1>1, <1>2, <1>3, <1>4 DEF Next

(* Every line the BPF module reads from the unix stream parses back to   *)
(* the command send_command wrote in its place, in order, for every port, *)
(* pid and fd and any number of commands.                                 *)
THEOREM CommandsRoundTripThm == Spec => []CommandsRoundTrip
  <1>1. ChanInv => CommandsRoundTrip
    BY DEF ChanInv, CommandsRoundTrip
  <1>2. QED
    BY <1>1, InitChanInv, NextChanInv, PTL DEF Spec

=============================================================================
