-------------------------------- MODULE Facade --------------------------------
(***************************************************************************)
(* The recorder's side of the BPF module, src/bpf-common/src/facade.rs.    *)
(*                                                                         *)
(* Events: the kernel puts slices in a ring buffer; from_rb_slice reads a  *)
(* DataDescriptor (tag, id, size) off the head of a slice and, for Write,  *)
(* Read and Debug events, SnifferError::code decides from the size field   *)
(* and the length of the data after the descriptor whether the event      *)
(* carries data[..size].  Connect, Bind and Accept events carry a socket  *)
(* address that parse_socket_address reads and unwraps.  A slice is       *)
(* abstracted to its length, its tag, the i32 size field and the address  *)
(* family field; the other data bytes are left out.                       *)
(*                                                                         *)
(* Commands: BpfModuleClient::send_command writes Display of a Command     *)
(* and a newline on the unix stream, and the module reads a line back     *)
(* with Command::from_str.  A line is the sequence of words split(' ')    *)
(* yields, a number word is the number it spells; `parse` of a word into *)
(* u16 or u32 succeeds exactly on the numbers below 2^16 or 2^32.         *)
(***************************************************************************)
EXTENDS Integers, Sequences

CONSTANTS
    DescSize,      \* mem::size_of::<DataDescriptor>()
    SliceLens,     \* the slice lengths the ring buffer may hold
    SizeFields,    \* the values of the i32 size field
    Ports,         \* the ports a WatchPort command may carry
    Ids,           \* the pids and fds an IgnoreConnection may carry
    Families,      \* the values of the u16 address-family field
    MaxSent        \* bound on the commands sent in a run

ASSUME DescSizeAssumption == DescSize \in Nat
ASSUME SliceLensAssumption == SliceLens \subseteq Nat
ASSUME SizeFieldsAssumption == SizeFields \subseteq Int
ASSUME PortsAssumption == Ports \subseteq 0 .. (2^16 - 1)
ASSUME IdsAssumption == Ids \subseteq Nat
ASSUME FamiliesAssumption == Families \subseteq 0 .. (2^16 - 1)
ASSUME MaxSentAssumption == MaxSent \in Nat

VARIABLES
    last,      \* the result of the last from_rb_slice
    chan,      \* the lines written on the stream and not yet read
    sent,      \* the commands sent, in order
    got        \* the results of from_str on the lines read, in order

vars == <<last, chan, sent, got>>

Tags == {"Write", "Read", "Connect", "Bind", "Listen", "Accept", "Close", "Debug"}

(* The tags whose events carry data[..size]. *)
DataTags == {"Write", "Read", "Debug"}

(* The tags whose events carry a socket address. *)
AddrTags == {"Connect", "Bind", "Accept"}

-----------------------------------------------------------------------------
(* SnifferError::code without the slice-length test. *)
CodeNoLenCheck(code, actualLength) ==
    IF code = -14 THEN [ok |-> FALSE, err |-> "Fault"]
    ELSE IF code < 0 THEN [ok |-> FALSE, err |-> "Unknown"]
    ELSE [ok |-> TRUE, size |-> code]

(* SnifferError::code, its match arms in order: EFAULT, another negative *)
(* errno, a size larger than the data that came with it, or Ok(size).    *)
Code(code, actualLength) ==
    IF code = -14 THEN [ok |-> FALSE, err |-> "Fault"]
    ELSE IF code < 0 THEN [ok |-> FALSE, err |-> "Unknown"]
    ELSE IF actualLength < code THEN [ok |-> FALSE, err |-> "SliceTooShort"]
    ELSE [ok |-> TRUE, size |-> code]

Panic == [ok |-> FALSE, err |-> "Panic"]

(* The two arms of the family match swapped. *)
ParseSocketAddressSwapped(n, fam) ==
    IF n >= 4 /\ ((fam = 2 /\ n >= 24) \/ (fam = 10 /\ n >= 8))
    THEN "Addr" ELSE "Panic"

(* parse_socket_address(b).unwrap() on n bytes whose family field is fam:  *)
(* an address, or a panic: &b[0..2] or &b[2..4] on fewer than 4 bytes,    *)
(* &b[4..8] on a short AF_INET (2) address, &b[8..24] on a short AF_INET6 *)
(* (10) address, or the unwrap of Err(()) for any other family.           *)
ParseSocketAddress(n, fam) ==
    IF n >= 4 /\ ((fam = 2 /\ n >= 8) \/ (fam = 10 /\ n >= 24))
    THEN "Addr" ELSE "Panic"

(* Where the address starts in data: Accept's data begins with the u32    *)
(* listen_on_fd, read by &data[0..4] and unwrapped.                       *)
AddrOffset(tag) == IF tag = "Accept" THEN 4 ELSE 0

AddressOf(tag, n, fam) ==
    IF n < AddrOffset(tag) THEN "Panic"
    ELSE ParseSocketAddress(n - AddrOffset(tag), fam)

(* from_rb_slice of a slice of len bytes with tag tag, size field size    *)
(* and address family fam: DataDescriptor::try_from fails on a slice     *)
(* shorter than the descriptor; a data tag yields SnifferError::code's   *)
(* error or the event cutting data[..size]; an address tag yields the    *)
(* event or panics in parse_socket_address.                               *)
FromRbSlice(len, tag, size, fam) ==
    LET avail == len - DescSize
        r == Code(size, avail)
        Event(sz) == [ok |-> TRUE, tag |-> tag, size |-> sz, avail |-> avail]
    IN  IF len < DescSize THEN [ok |-> FALSE, err |-> "SliceTooShort"]
        ELSE IF tag \in DataTags
             THEN IF ~r.ok THEN r
                  ELSE IF r.size <= avail THEN Event(r.size) ELSE Panic
        ELSE IF tag \in AddrTags /\ AddressOf(tag, avail, fam) # "Addr"
             THEN Panic
        ELSE Event(0)

(* What the BPF program puts in the ring buffer, as the comments at the   *)
(* unwraps rely on: an address event carries a whole sockaddr_in (16      *)
(* bytes) or sockaddr_in6 (28 bytes), after Accept's listen fd.           *)
SockaddrLen(fam) == IF fam = 2 THEN 16 ELSE 28

KernelChecked(len, tag, fam) ==
    tag \in AddrTags =>
        /\ fam \in {2, 10}
        /\ len - DescSize >= AddrOffset(tag) + SockaddrLen(fam)

-----------------------------------------------------------------------------
Commands ==
    [kind : {"WatchPort"}, port : Ports]
    \cup [kind : {"IgnoreConnection"}, pid : Ids, fd : Ids]
    \cup [kind : {"FetchCounter"}]

(* Display writing ignore_connection's fd before its pid. *)
WordsSwapped(c) ==
    CASE c.kind = "WatchPort"        -> <<"watch_port", c.port>>
      [] c.kind = "IgnoreConnection" -> <<"ignore_connection", c.fd, c.pid>>
      [] OTHER                       -> <<"fetch_counter">>

(* fmt::Display for Command, split at the spaces. *)
Words(c) ==
    CASE c.kind = "WatchPort"        -> <<"watch_port", c.port>>
      [] c.kind = "IgnoreConnection" -> <<"ignore_connection", c.pid, c.fd>>
      [] OTHER                       -> <<"fetch_counter">>

(* `parse` of a word into an unsigned integer of the given width (16 or  *)
(* 32); every natural TLC represents is below 2^32.                      *)
ParsesAs(word, bits) == word \in Nat /\ (bits >= 32 \/ word < 2^bits)

Err == [ok |-> FALSE]

(* Command::from_str: the first word chooses the command; a missing word  *)
(* or one that does not parse is an error, and words after the ones the  *)
(* command takes are ignored.                                             *)
FromStr(w) ==
    CASE w[1] = "watch_port" ->
            IF Len(w) >= 2 /\ ParsesAs(w[2], 16)
            THEN [ok |-> TRUE, cmd |-> [kind |-> "WatchPort", port |-> w[2]]]
            ELSE Err
      [] w[1] = "ignore_connection" ->
            IF Len(w) >= 3 /\ ParsesAs(w[2], 32) /\ ParsesAs(w[3], 32)
            THEN [ok |-> TRUE, cmd |-> [kind |-> "IgnoreConnection",
                                        pid |-> w[2], fd |-> w[3]]]
            ELSE Err
      [] w[1] = "fetch_counter" -> [ok |-> TRUE, cmd |-> [kind |-> "FetchCounter"]]
      [] OTHER -> Err

-----------------------------------------------------------------------------
Init ==
    /\ last = [ok |-> FALSE, err |-> "None"]
    /\ chan = <<>>
    /\ sent = <<>>
    /\ got = <<>>

(* The consumer takes the next slice off the ring buffer. *)
ReadSlice(len, tag, size, fam) ==
    /\ KernelChecked(len, tag, fam)
    /\ last' = FromRbSlice(len, tag, size, fam)
    /\ UNCHANGED <<chan, sent, got>>

(* BpfModuleClient::send_command: one line on the stream. *)
SendCommand(c) ==
    /\ Len(sent) < MaxSent
    /\ chan' = Append(chan, Words(c))
    /\ sent' = Append(sent, c)
    /\ UNCHANGED <<last, got>>

(* The module reads the next line and parses it. *)
ReadCommand ==
    /\ chan # <<>>
    /\ got' = Append(got, FromStr(Head(chan)))
    /\ chan' = Tail(chan)
    /\ UNCHANGED <<last, sent>>

Next ==
    \/ \E len \in SliceLens, tag \in Tags, size \in SizeFields, fam \in Families :
          ReadSlice(len, tag, size, fam)
    \/ \E c \in Commands : SendCommand(c)
    \/ ReadCommand

Spec == Init /\ [][Next]_vars

-----------------------------------------------------------------------------
(* from_rb_slice never panics on a slice the BPF program hands over: the *)
(* data[..size] of a Write, Read or Debug event stays inside the data     *)
(* that came with it for every i32 in the size field, and the unwraps of  *)
(* listen_on_fd and parse_socket_address succeed on every address event. *)
NoPanic == last # Panic

(* Every line the module has read parses back to the command that was   *)
(* sent in its place: from_str inverts Display, in order, on the whole   *)
(* range of ports, pids and fds.                                          *)
CommandsRoundTrip ==
    /\ Len(got) <= Len(sent)
    /\ \A i \in 1 .. Len(got) : got[i] = [ok |-> TRUE, cmd |-> sent[i]]

=============================================================================
