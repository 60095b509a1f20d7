-------------------------------- MODULE Mbap --------------------------------
(***************************************************************************)
(* TCP framing (src/frame/tcp.rs): a PDU behind its MBAP header.           *)
(***************************************************************************)
EXTENDS Extents

MBAP_MAX_ADU_LEN == 260
HEADER_LEN == 7
LENGTH_PREFIX_LEN == 6
PROTOCOL_MODBUS == 0

\* check_length: a unit identifier, and a PDU of at most 253 bytes.
CheckLength(length) == length \in 1..254

\* The length is patched in once the PDU is written.
MbapWrap(header, pdu) ==
  Word(header.transaction_id) \o Word(PROTOCOL_MODBUS) \o Word(Len(pdu) + 1)
    \o <<header.unit_id>> \o pdu

MbapSplit(adu) ==
  Checked(/\ Len(adu) \in (HEADER_LEN + 1)..MBAP_MAX_ADU_LEN
          /\ U16(adu, 3) = PROTOCOL_MODBUS
          /\ CheckLength(U16(adu, 5))
          /\ U16(adu, 5) = Len(adu) - HEADER_LEN + 1,
          [header |-> [transaction_id |-> U16(adu, 1), unit_id |-> adu[7]],
           pdu |-> After(adu, HEADER_LEN + 1)])

\* adu_len, on the first bytes of b.
AduLen(b) == Checked(CheckLength(U16(b, 5)), LENGTH_PREFIX_LEN + U16(b, 5))

\* read_prefixed, on the first n bytes of b.
PrefixedExtent(b, n) ==
  IF n < LENGTH_PREFIX_LEN THEN NeedMore
  ELSE IF ~AduLen(b).ok THEN Fails
  ELSE IF n < AduLen(b).value THEN NeedMore ELSE Complete(AduLen(b).value)

=============================================================================
