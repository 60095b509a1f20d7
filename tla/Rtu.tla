--------------------------------- MODULE Rtu ---------------------------------
(***************************************************************************)
(* RTU framing (src/frame/rtu.rs): a PDU between its address and its CRC.  *)
(* Over a serial line silence ends an ADU (Rtu); over a byte stream its    *)
(* own content tells its length (RtuOverTcp).                              *)
(***************************************************************************)
EXTENDS Extents

CONSTANT Crc16(_) \* the crc crate's CRC_16_MODBUS

RTU_MAX_ADU_LEN == 256

LittleEndian(v) == <<v % 256, v \div 256>>

RtuWrap(header, pdu) ==
  LET body == <<header.unit_id>> \o pdu IN body \o LittleEndian(Crc16(body))

\* The CRC is verified before the PDU is looked at.
RtuSplit(adu) ==
  LET body == SubSeq(adu, 1, Len(adu) - 2)
  IN  Checked(/\ Len(adu) \in 4..RTU_MAX_ADU_LEN
              /\ After(adu, Len(adu) - 1) = LittleEndian(Crc16(body)),
              [header |-> [unit_id |-> adu[1]], pdu |-> Tail(body)])

-----------------------------------------------------------------------------
(* derive_extent, on the first n bytes of b.                                *)

\* What the length of a PDU may be: a number, not known yet, or not to be told.
NotYet == 0
Indeterminate == 1000000

RequestLen(b, n) ==
  LET fc == b[2] IN
  CASE fc \in 1..6 -> 5
    [] fc \in {7, 11, 12, 17} -> 1
    [] fc = 22 -> 7
    [] fc = 24 -> 3
    [] fc \in {15, 16} -> IF n < 8 THEN NotYet ELSE 6 + b[7]
    [] fc \in {20, 21} -> 2 + b[3]
    [] fc = 23 -> IF n < 11 THEN NotYet ELSE 10 + b[11]
    [] fc = 43 /\ b[3] = 14 -> 4
    [] OTHER -> Indeterminate

\* derive_fc43_mei14_response_length: from object to object.
ObjectsLen(b, n) ==
  LET walk[at \in Nat, left \in Nat] ==
        IF left = 0 THEN at
        ELSE IF at + 3 > n THEN NotYet ELSE walk[at + 2 + b[at + 3], left - 1]
  IN  IF n < 10 THEN NotYet ELSE walk[7, b[8]]

ResponseLen(b, n) ==
  LET fc == b[2] IN
  CASE fc \in {5, 6, 15, 16, 11} -> 5
    [] fc = 7 -> 2
    [] fc = 22 -> 7
    [] fc \in {1, 2, 3, 4, 12, 17, 20, 21, 23} -> 2 + b[3]
    [] fc = 24 -> IF n < 5 THEN NotYet ELSE 3 + U16(b, 3)
    [] fc = 43 /\ b[3] = 14 -> ObjectsLen(b, n)
    [] OTHER -> Indeterminate

DeriveExtent(direction, b, n) ==
  IF n < 4 THEN NeedMore ELSE
  LET pdu_len == IF b[2] >= 128 THEN 2
                 ELSE IF direction = "Request" THEN RequestLen(b, n) ELSE ResponseLen(b, n)
  IN  CASE pdu_len = NotYet -> NeedMore
        [] pdu_len # NotYet /\ pdu_len + 3 > RTU_MAX_ADU_LEN -> Fails
        [] OTHER -> IF n < pdu_len + 3 THEN NeedMore ELSE Complete(pdu_len + 3)

=============================================================================
