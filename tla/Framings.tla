------------------------------ MODULE Framings ------------------------------
(***************************************************************************)
(* ADUs from one end of a link to the other (src/frame): PDUs are encoded  *)
(* one after another into a buffer, refused or not; a byte may change on   *)
(* the way; at the other end ADUs are cut apart and decoded.  Over UDP     *)
(* (src/transport/udp.rs) each ADU is a datagram of its own, and datagrams *)
(* overtake one another, come twice or not at all.                         *)
(***************************************************************************)
EXTENDS Rtu, Mbap, Ascii

CONSTANTS
  InUse,       \* the framings, of "Rtu", "RtuOverTcp", "Tcp", "Ascii"; "Udp" is Tcp in datagrams
  Header,      \* a transaction and a unit identifier
  Samples,     \* for each framing and direction, the PDUs a caller may build
  Followers,   \* PDUs that may be encoded after another
  Foreign,     \* for each framing and direction, PDUs of another make, as bytes
  Stray,       \* what a byte may turn into
  MaxStrayLen, \* bound: length of an ADU in which a byte changes
  MaxAttempts  \* bound: calls to encode, and datagrams received

ASSUME FramingsAssumption ==
  /\ InUse \subseteq {"Rtu", "RtuOverTcp", "Tcp", "Ascii", "Udp"}
  /\ Header.unit_id \in 0..255 /\ Header.transaction_id \in 0..65535
  /\ MaxAttempts \in Nat /\ MaxStrayLen \in Nat /\ Stray \subseteq 0..255

VARIABLES
  framing,   \* chosen once
  direction, \* Direction, chosen once
  attempts,  \* history: calls to encode
  wire,      \* the encoder's buffer, as far as the other end has not taken it
  sent,      \* history: the ADUs on the wire, what they mean and were encoded from
  received,  \* history: the ADUs cut, and what they decode to
  failed     \* the end of an ADU could not be told

vars == <<framing, direction, attempts, wire, sent, received, failed>>

-----------------------------------------------------------------------------
(* Framing.                                                                 *)

HeaderOf(f) == IF f \in {"Tcp", "Udp"} THEN Header ELSE [unit_id |-> Header.unit_id]

Wrap(header, pdu) ==
  CASE framing \in {"Tcp", "Udp"} -> MbapWrap(header, pdu)
    [] framing = "Ascii" -> AsciiWrap(header, pdu)
    [] OTHER -> RtuWrap(header, pdu)

Split(adu) ==
  CASE framing \in {"Tcp", "Udp"} -> MbapSplit(adu)
    [] framing = "Ascii" -> AsciiSplit(adu)
    [] OTHER -> RtuSplit(adu)

\* What is at most in the buffer when a PDU is refused: the header, the length of MBAP not yet
\* patched in, and what was written of the PDU.  ASCII has these in a buffer of their own.
Partial(out, written) ==
  CASE framing = "Ascii" -> out
    [] framing \in {"Tcp", "Udp"} ->
         out \o Word(Header.transaction_id) \o Word(PROTOCOL_MODBUS) \o Word(0)
             \o <<Header.unit_id>> \o written.bytes
    [] OTHER -> out \o <<Header.unit_id>> \o written.bytes

\* Mutant of EncodeInto: the buffer is not cut.
EncodeIntoLeaving(out, written) ==
  IF written.ok THEN out \o Wrap(HeaderOf(framing), written.bytes)
  ELSE Partial(out, written)

\* encode_request_into and encode_response_into: after a failure the buffer is cut to what it was.
EncodeInto(out, written) ==
  IF written.ok THEN out \o Wrap(HeaderOf(framing), written.bytes)
  ELSE SubSeq(Partial(out, written), 1, Len(out))

\* decode_request and decode_response.
DecodeAdu(adu) ==
  LET parts == Split(adu) IN
  IF ~parts.ok THEN Err ELSE
  LET decoded == Decode(direction, parts.value.pdu)
  IN  Checked(decoded.ok, [header |-> parts.value.header, pdu |-> decoded.value])

\* The boundary rule, on the first n bytes of the wire.
Extent(n) ==
  CASE Boundary(framing) = "Prefixed" -> PrefixedExtent(wire, n)
    [] Boundary(framing) = "ContentLength" -> DeriveExtent(direction, wire, n)
    [] Boundary(framing) = "Delimited" -> DelimitedExtent(wire, n)

-----------------------------------------------------------------------------
Init ==
  /\ framing \in InUse
  /\ direction \in {"Request", "Response"}
  /\ attempts = 0
  /\ wire = <<>>
  /\ sent = <<>>
  /\ received = <<>>
  /\ failed = FALSE

\* encode_request_into or encode_response_into, on the buffer as it is.
Encode(p) ==
  LET written == Write(direction, p)
      adu == EncodeInto(<<>>, written)
  IN
  /\ framing # "Udp" /\ attempts < MaxAttempts
  /\ attempts' = attempts + 1
  /\ wire' = EncodeInto(wire, written)
  /\ sent' = IF written.ok
             THEN Append(sent, [adu |-> adu, means |-> DecodeAdu(adu), from |-> <<p>>])
             ELSE sent
  /\ UNCHANGED <<framing, direction, received, failed>>

\* UdpTransport::send_request and send_response: what there is to send is encoded into a buffer
\* that was cleared, and is one datagram.
SendDatagram(p) ==
  LET written == Write(direction, p)
      datagram == EncodeInto(<<>>, written)
  IN
  /\ framing = "Udp" /\ attempts < MaxAttempts
  /\ attempts' = attempts + 1
  /\ sent' = IF written.ok
             THEN Append(sent, [adu |-> datagram, means |-> DecodeAdu(datagram), from |-> <<p>>])
             ELSE sent
  /\ UNCHANGED <<framing, direction, wire, received, failed>>

\* A device of another make sends an ADU; in ASCII it may use small letters, in a datagram it may
\* be followed by more.
OthersSend(pdu) ==
  LET adu == Wrap(HeaderOf(framing), pdu)
      Small(c) == IF c \in 65..70 THEN c + 32 ELSE c
  IN  \E bytes \in {adu} \cup {[i \in DOMAIN adu |-> Small(adu[i])] : f \in {framing} \cap {"Ascii"}}
                        \cup {Append(adu, 0) : f \in {framing} \cap {"Udp"}} :
        /\ attempts' = 1
        /\ wire' = IF framing = "Udp" THEN <<>> ELSE bytes
        /\ sent' = <<[adu |-> bytes, means |-> DecodeAdu(bytes), from |-> <<>>]>>
        /\ UNCHANGED <<framing, direction, received, failed>>

\* A byte of the first ADU changes on the way.
Change(i, byte) ==
  /\ wire[i] # byte
  /\ wire' = [wire EXCEPT ![i] = byte]
  /\ sent' = [sent EXCEPT ![1].adu = wire', ![1].from = <<>>]
  /\ UNCHANGED <<framing, direction, attempts, received, failed>>

Deliver(skip, len) ==
  LET adu == SubSeq(wire, skip + 1, skip + len) IN
  /\ wire' = After(wire, skip + len + 1)
  /\ received' = Append(received, [adu |-> adu, is |-> DecodeAdu(adu)])
  /\ UNCHANGED <<framing, direction, attempts, sent, failed>>

\* A datagram as far as a receive buffer of MAX_ADU_LEN bytes holds it.
Incoming(datagram) == SubSeq(datagram, 1, Min({Len(datagram), MBAP_MAX_ADU_LEN}))

\* UdpTransport::recv_request and recv_response, of any of the datagrams that were sent.
RecvDatagram ==
  /\ framing = "Udp" /\ Len(received) < MaxAttempts
  /\ \E i \in DOMAIN sent :
       received' = Append(received, [adu |-> Incoming(sent[i].adu),
                                     is |-> DecodeAdu(Incoming(sent[i].adu))])
  /\ UNCHANGED <<framing, direction, attempts, wire, sent, failed>>

\* read_until_silence: silence ends an ADU where the sender paused.
Silence ==
  /\ framing = "Rtu"
  /\ Len(received) < Len(sent)
  /\ Deliver(0, Len(sent[Len(received) + 1].adu))

\* read_prefixed, read_content_length, read_delimited: what the boundary rule says of however
\* many bytes have been read.
Cut ==
  /\ framing \notin {"Rtu", "Udp"} /\ ~failed
  /\ \E extent \in {Extent(n) : n \in DOMAIN wire} :
       \/ extent.is = "Complete" /\ Deliver(extent.skip, extent.len)
       \/ /\ extent.is = "Err"
          /\ failed' = TRUE
          /\ UNCHANGED <<framing, direction, attempts, wire, sent, received>>

Next ==
  \/ \E p \in IF attempts = 0 THEN Samples[framing][direction] ELSE Followers :
       Encode(p) \/ SendDatagram(p)
  \/ attempts = 0 /\ \E pdu \in Foreign[framing][direction] : OthersSend(pdu)
  \/ /\ Len(sent) = 1 /\ received = <<>> /\ sent[1].from # <<>>
     /\ Len(wire) <= MaxStrayLen
     /\ \E i \in DOMAIN wire, byte \in Stray : Change(i, byte)
  \/ Silence \/ Cut \/ RecvDatagram

Spec == Init /\ [][Next]_vars

-----------------------------------------------------------------------------
(* Properties.                                                              *)

\* A bit-read response says how many bytes it has and not how many bits: it reads back with the
\* padding of its last byte.
ReadsBackAs(p) ==
  IF direction = "Response" /\ p.code \in {1, 2}
  THEN [p EXCEPT !.coils = BitsFromBytes(PushBits(p.coils))]
  ELSE p

\* An ADU as this library would have written it: ASCII in capital letters.
Written(adu) ==
  IF framing = "Ascii" THEN [i \in DOMAIN adu |-> IF adu[i] >= 97 THEN adu[i] - 32 ELSE adu[i]]
  ELSE adu

\* Decode and encode are inverse to each other, for ADUs and the PDUs in them.  What decodes,
\* whoever sent it and whatever became of it on the way, is a value of its type that encodes to
\* the bytes it was decoded from: no ADU is taken that could not have been made, and no two mean
\* the same.  And what encode accepts comes out at the other end as it was.
RoundTrip ==
  \A i \in DOMAIN received :
    LET r == received[i] IN
    /\ r.is.ok =>
         /\ IsPdu(direction, r.is.value.pdu)
         /\ Write(direction, r.is.value.pdu).ok
         /\ Wrap(r.is.value.header, Write(direction, r.is.value.pdu).bytes) = Written(r.adu)
    /\ \A j \in DOMAIN sent : r.adu = sent[j].adu =>
         \A p \in ToSet(sent[j].from) :
           r.is = Ok([header |-> HeaderOf(framing), pdu |-> ReadsBackAs(p)])

\* One byte that changed on a serial line never makes another message of an ADU: the checksum is
\* verified before the PDU is looked at, and characters that stand for the same nibble are the
\* only ones that may take each other's place.
DamageIsNoticed ==
  framing \in {"Rtu", "Ascii"} =>
    \A i \in DOMAIN received \cap DOMAIN sent :
      received[i].adu = sent[i].adu /\ received[i].is.ok => received[i].is = sent[i].means

\* The functions whose length is not in the ADU (FR-R-148): Diagnostics, every MEI type but 14,
\* every custom code.
Determinate(pdu) ==
  \/ pdu[1] >= 128
  \/ pdu[1] \in NAMED \ {8} /\ (pdu[1] = 43 => pdu[2] = 14)

\* What the boundary rule needs of an ADU: nothing of silence, its delimiters of ASCII, its length
\* field of MBAP, and of RTU over a stream all the bytes it counts with.
Delimits(adu) ==
  CASE framing = "Rtu" -> TRUE
    [] framing = "Ascii" -> Head(adu) = START /\ After(adu, Len(adu) - 1) = TERMINATOR
    [] framing \in {"Tcp", "Udp"} -> U16(adu, 5) = Len(adu) - LENGTH_PREFIX_LEN
    [] framing = "RtuOverTcp" -> DecodeAdu(adu).ok /\ Determinate(Tail(adu))

\* As long as every ADU keeps what its boundary rule needs, ADUs are cut exactly where they were
\* put together, though nothing but their own bytes tells where: more is asked for until the last
\* byte of an ADU is there, however many bytes of the next follow, and an ADU that does not decode
\* costs nothing but itself.  A PDU that was refused in between leaves nothing on the wire.
CutWhereSent ==
  LET next == Len(received) + 1 IN
  (\A i \in DOMAIN sent : i <= next => Delimits(sent[i].adu)) =>
    /\ ~failed
    /\ \A i \in DOMAIN received :
         \E j \in DOMAIN sent : received[i].adu = sent[j].adu /\ (framing = "Udp" \/ i = j)
    /\ framing \notin {"Rtu", "Udp"} /\ next <= Len(sent) =>
         \A n \in DOMAIN wire :
           LET len == Len(sent[next].adu)
           IN  Extent(n) = IF n < len THEN NeedMore ELSE Complete(len)

-----------------------------------------------------------------------------
(* Statements of the repository that the code does not keep; README.md says *)
(* how each one fails.                                                      *)

\* FR-R-147 defines the length of an exception response, and of no request whose code has the
\* high bit set; "any function code or MEI type FR-R-147 does not define fails the derivation".
NothingUndefinedIsCut ==
  framing = "RtuOverTcp" /\ direction = "Request" =>
    \A i \in DOMAIN received : received[i].adu[2] < 128

\* framing.rs:91: with delimiters "the next boundary is found without reference to the frame that
\* failed, so one bad frame costs exactly one frame".
OneBadFrameCostsOne ==
  IsSelfLocating(Boundary(framing)) /\ wire = <<>> =>
    \A i \in DOMAIN sent : sent[i].from # <<>> => \E j \in DOMAIN received : received[j].adu = sent[i].adu

=============================================================================
