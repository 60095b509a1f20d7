-------------------------------- MODULE Ascii --------------------------------
(***************************************************************************)
(* ASCII framing (src/frame/ascii.rs): address, PDU and LRC as hexadecimal *)
(* characters between a colon and CR LF.                                   *)
(***************************************************************************)
EXTENDS Extents

ASCII_MAX_ADU_LEN == 513
START == 58
TERMINATOR == <<13, 10>>

\* The two's complement of the 8-bit sum, added up by halves.
Lrc(bytes) ==
  LET sum[i \in Nat, j \in Nat] ==
        IF i = j THEN bytes[i] ELSE (sum[i, (i + j) \div 2] + sum[(i + j) \div 2 + 1, j]) % 256
  IN  (256 - sum[1, Len(bytes)]) % 256

HexDigit(nibble) == IF nibble <= 9 THEN 48 + nibble ELSE 65 + nibble - 10

EncodeHex(bytes) ==
  [i \in 1..2 * Len(bytes) |->
     LET byte == bytes[(i + 1) \div 2]
     IN  HexDigit(IF i % 2 = 1 THEN byte \div 16 ELSE byte % 16)]

\* nibble: either case.
IsHexDigit(c) == c \in (48..57) \cup (65..70) \cup (97..102)
Nibble(c) == IF c <= 57 THEN c - 48 ELSE IF c <= 70 THEN c - 55 ELSE c - 87

DecodeHex(chars) ==
  Checked(\A i \in DOMAIN chars : IsHexDigit(chars[i]),
          [i \in 1..Len(chars) \div 2 |-> 16 * Nibble(chars[2 * i - 1]) + Nibble(chars[2 * i])])

AsciiWrap(header, pdu) ==
  LET covered == <<header.unit_id>> \o pdu
  IN  <<START>> \o EncodeHex(Append(covered, Lrc(covered))) \o TERMINATOR

\* Mutant of AsciiSplit: the LRC is not verified.
AsciiSplitUnverified(adu) ==
  IF Len(adu) \notin 9..ASCII_MAX_ADU_LEN \/ Len(adu) % 2 = 0 THEN Err ELSE
  LET decoded == DecodeHex(SubSeq(adu, 2, Len(adu) - 2))
  IN  IF Head(adu) # START \/ After(adu, Len(adu) - 1) # TERMINATOR \/ ~decoded.ok THEN Err
      ELSE Ok([header |-> [unit_id |-> decoded.value[1]], pdu |-> Tail(Front(decoded.value))])

\* The LRC is verified before the PDU is looked at.
AsciiSplit(adu) ==
  IF Len(adu) \notin 9..ASCII_MAX_ADU_LEN \/ Len(adu) % 2 = 0 THEN Err ELSE
  LET decoded == DecodeHex(SubSeq(adu, 2, Len(adu) - 2))
  IN  IF Head(adu) # START \/ After(adu, Len(adu) - 1) # TERMINATOR \/ ~decoded.ok THEN Err
      ELSE Checked(Lrc(Front(decoded.value)) = Last(decoded.value),
                   [header |-> [unit_id |-> decoded.value[1]], pdu |-> Tail(Front(decoded.value))])

\* read_delimited, on the first n bytes of b: from the first start byte to the first terminator
\* after it.
DelimitedExtent(b, n) ==
  LET starts == {i \in 1..n : b[i] = START}
      ends == {i \in 2..n : b[i - 1] = TERMINATOR[1] /\ b[i] = TERMINATOR[2]}
  IN  IF starts = {} THEN NeedMore
      ELSE LET closing == {i \in ends : i > Min(starts)}
           IN  IF closing = {} THEN NeedMore
               ELSE [is |-> "Complete", skip |-> Min(starts) - 1,
                     len |-> Min(closing) - Min(starts) + 1]

=============================================================================
