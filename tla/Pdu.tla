--------------------------------- MODULE Pdu ---------------------------------
(***************************************************************************)
(* The PDU codec (src/frame): what RequestPdu and ResponsePdu write and    *)
(* read back, byte by byte.                                                *)
(*                                                                         *)
(* A PDU is a record.  Its variant is its function code: code, 128 for     *)
(* Exception, with custom for Custom; the other fields carry the names of  *)
(* the source, but that a coil is on, and that inputs are coils.  Other(x) *)
(* of a sub-function, an exception code or an MEI type is told from the    *)
(* named variants by other.  Which error a failure reports is left out.    *)
(***************************************************************************)
EXTENDS Naturals, SequencesExt, FiniteSetsExt

MAX_PDU_LEN == 253
MAX_READ_BITS == 2000
MAX_READ_REGISTERS == 125
MAX_WRITE_BITS == 1968
MAX_WRITE_REGISTERS == 123
MAX_RW_WRITE_REGISTERS == 121
MAX_FIFO_COUNT == 31
EVENT_LOG_FIXED_BYTES == 6
MAX_EVENT_BYTES == 64
REFERENCE_TYPE == 6

Ok(v) == [ok |-> TRUE, value |-> v]
Err == [ok |-> FALSE]
Checked(condition, v) == IF condition THEN Ok(v) ELSE Err

-----------------------------------------------------------------------------
(* Words and bits.                                                          *)

U16(b, i) == 256 * b[i] + b[i + 1]
Word(v) == <<v \div 256, v % 256>>
After(b, i) == SubSeq(b, i, Len(b))

PushRegisters(registers) ==
  [i \in 1..2 * Len(registers) |-> Word(registers[(i + 1) \div 2])[2 - (i % 2)]]

RegistersFromBytes(data) == [i \in 1..Len(data) \div 2 |-> U16(data, 2 * i - 1)]

BitWidth(quantity) == (quantity + 7) \div 8
RegisterWidth(quantity) == 2 * quantity

\* Least significant bit first; the bits above the last are zero.
PushBits(bits) ==
  [i \in 1..BitWidth(Len(bits)) |->
     MapThenSumSet(LAMBDA k : IF 8 * (i - 1) + k < Len(bits) /\ bits[8 * (i - 1) + k + 1]
                              THEN 2^k ELSE 0, 0..7)]

BitsFromBytes(data) ==
  [i \in 1..8 * Len(data) |-> (data[(i + 7) \div 8] \div 2^((i - 1) % 8)) % 2 = 1]

\* Mutant of PackedBits: what stands in the padding is dropped.
PackedBitsAny(data, quantity) == Ok(SubSeq(BitsFromBytes(data), 1, quantity))

\* packed_bits: padding must be zero.
PackedBits(data, quantity) ==
  LET bits == BitsFromBytes(data)
  IN  Checked(\A i \in (quantity + 1)..Len(bits) : ~bits[i], SubSeq(bits, 1, quantity))

-----------------------------------------------------------------------------
(* Codes that have a name, and codes that are carried as they are.          *)

NAMED == {1, 2, 3, 4, 5, 6, 7, 8, 11, 12, 15, 16, 17, 20, 21, 22, 23, 24, 43}
SubFunctions == (0..4) \cup (10..18) \cup {20}
ExceptionCodes == (1..6) \cup {8, 10, 11}

FunctionCodeDecode(byte) == Checked(byte \in 1..127, [custom |-> byte \notin NAMED, code |-> byte])

FunctionCodeEncode(f) == Checked(f.custom => f.code \in (1..127) \ NAMED, f.code)

\* DiagnosticSubFunction and ExceptionCode.
NameDecode(names, raw) == [other |-> raw \notin names, raw |-> raw]
NameEncode(names, c) == Checked(c.other => c.raw \notin names, c.raw)

-----------------------------------------------------------------------------
(* Encoding.  A failure leaves behind what had been written.                *)

Refuse(written) == [ok |-> FALSE, bytes |-> written]

Finish(bytes) == [ok |-> Len(bytes) <= MAX_PDU_LEN, bytes |-> bytes]

EncodeRead(p, max) ==
  IF p.quantity \in 1..max THEN Finish(<<p.code>> \o Word(p.address) \o Word(p.quantity))
  ELSE Refuse(<<>>)

EncodeSingle(code, address, value) == Finish(<<code>> \o Word(address) \o Word(value))

EncodeMask(p) ==
  Finish(<<p.code>> \o Word(p.address) \o Word(p.and_mask) \o Word(p.or_mask))

\* encode_quantified, for the quantity of a collection (quantity_of).
EncodeQuantified(head, quantity, max, data) ==
  IF quantity \in 1..max
  THEN Finish(head \o Word(quantity) \o <<Len(data)>> \o data)
  ELSE Refuse(<<>>)

EncodeCounted(code, data) ==
  IF Len(data) <= 255 THEN Finish(<<code, Len(data)>> \o data) ELSE Refuse(<<>>)

EncodeDiagnostics(p) ==
  LET sub == NameEncode(SubFunctions, p.sub_function)
  IN  IF sub.ok THEN Finish(<<p.code>> \o Word(sub.value) \o PushRegisters(p.data))
      ELSE Refuse(<<p.code>>)

EncodeEventLog(p) ==
  IF Len(p.events) <= MAX_EVENT_BYTES
  THEN Finish(<<p.code, EVENT_LOG_FIXED_BYTES + Len(p.events)>> \o Word(p.status)
                \o Word(p.event_count) \o Word(p.message_count) \o p.events)
  ELSE Refuse(<<>>)

EncodeFifo(p) ==
  LET count == Len(p.values)
  IN  IF count <= MAX_FIFO_COUNT
      THEN Finish(<<p.code>> \o Word(2 * count + 2) \o Word(count) \o PushRegisters(p.values))
      ELSE Refuse(<<>>)

EncodeCustom(p) ==
  LET code == FunctionCodeEncode(p)
  IN  IF code.ok THEN Finish(<<code.value>> \o p.data) ELSE Refuse(<<>>)

EncodeException(p) ==
  LET function == FunctionCodeEncode(p.function)
      exception == NameEncode(ExceptionCodes, p.exception)
  IN  IF function.ok /\ exception.ok
      THEN Finish(<<function.value + 128, exception.value>>)
      ELSE Refuse(<<>>)

\* What is written one after another, put together by halves.
InOrder(seqs) ==
  LET cat[i \in Nat, j \in Nat] ==
        IF i = j THEN seqs[i] ELSE cat[i, (i + j) \div 2] \o cat[(i + j) \div 2 + 1, j]
  IN  IF seqs = <<>> THEN <<>> ELSE cat[1, Len(seqs)]

\* file.rs, body: a length is patched in once the records are written.
\* bytes holds what each record encodes to, refused is the first that does not (0: none).
EncodeRecords(p, refused, bytes, min, max) ==
  LET written == InOrder(IF refused = 0 THEN bytes ELSE SubSeq(bytes, 1, refused - 1))
  IN  IF refused = 0 /\ Len(written) \in min..max
      THEN Finish(<<p.code, Len(written)>> \o written)
      ELSE Refuse(<<p.code, 0>> \o written)

CheckNumbers(file_number, record_number) ==
  file_number \in 1..65535 /\ record_number \in 0..9999

Numbered(r) == CheckNumbers(r.file_number, r.record_number)

FileRecordReadBytes(r) ==
  <<REFERENCE_TYPE>> \o Word(r.file_number) \o Word(r.record_number) \o Word(r.record_length)

FileRecordReadResponseBytes(r) ==
  <<2 * Len(r.values) + 1, REFERENCE_TYPE>> \o PushRegisters(r.values)

FileRecordWriteBytes(r) ==
  <<REFERENCE_TYPE>> \o Word(r.file_number) \o Word(r.record_number) \o Word(Len(r.values))
    \o PushRegisters(r.values)

\* A byte count must fit one byte.
Fits(r) == 2 * Len(r.values) + 1 <= 255

EncodeReadRequests(p) ==
  EncodeRecords(p, SelectInSeq(p.records, LAMBDA r : ~Numbered(r)),
                [i \in DOMAIN p.records |-> FileRecordReadBytes(p.records[i])], 7, 245)

EncodeReadResponses(p) ==
  EncodeRecords(p, SelectInSeq(p.records, LAMBDA r : ~Fits(r)),
                [i \in DOMAIN p.records |-> FileRecordReadResponseBytes(p.records[i])], 7, 245)

EncodeWriteRecords(p) ==
  EncodeRecords(p, SelectInSeq(p.records, LAMBDA r : ~Numbered(r)),
                [i \in DOMAIN p.records |-> FileRecordWriteBytes(p.records[i])], 9, 251)

\* mei.rs, opaque_body_into: MEI 13, and any type without a name.
EncodeOpaque(p) == Finish(<<p.code, p.mei_type>> \o p.data)

IsReadDeviceId(p) == p.mei_type = 14 /\ ~p.other

EncodeMeiRequest(p) ==
  IF IsReadDeviceId(p) THEN Finish(<<p.code, 14, p.read_device_id_code, p.object_id>>)
  ELSE EncodeOpaque(p)

EncodeMeiResponse(p) ==
  IF ~IsReadDeviceId(p) THEN EncodeOpaque(p)
  ELSE LET long == SelectInSeq(p.objects, LAMBDA o : Len(o.value) > 255)
           head == <<p.code, 14, p.read_device_id_code, p.conformity_level,
                     IF p.more_follows THEN 255 ELSE 0, p.next_object_id, Len(p.objects)>>
           written == InOrder([i \in 1..(IF long = 0 THEN Len(p.objects) ELSE long - 1) |->
                        <<p.objects[i].id, Len(p.objects[i].value)>> \o p.objects[i].value])
       IN  CASE Len(p.objects) > 255 -> Refuse(<<p.code>>)
             [] Len(p.objects) <= 255 /\ long # 0 -> Refuse(head \o written)
             [] OTHER -> Finish(head \o written)

Coil(p) == IF p.on THEN 65280 ELSE 0

\* RequestPdu::write.
WriteRequest(p) ==
  IF p.custom THEN EncodeCustom(p) ELSE
  CASE p.code \in {1, 2} -> EncodeRead(p, MAX_READ_BITS)
    [] p.code \in {3, 4} -> EncodeRead(p, MAX_READ_REGISTERS)
    [] p.code = 5 -> EncodeSingle(5, p.address, Coil(p))
    [] p.code = 6 -> EncodeSingle(6, p.address, p.value)
    [] p.code \in {7, 11, 12, 17} -> Finish(<<p.code>>)
    [] p.code = 8 -> EncodeDiagnostics(p)
    [] p.code = 15 -> EncodeQuantified(<<15>> \o Word(p.address), Len(p.coils), MAX_WRITE_BITS,
                                       PushBits(p.coils))
    [] p.code = 16 -> EncodeQuantified(<<16>> \o Word(p.address), Len(p.registers),
                                       MAX_WRITE_REGISTERS, PushRegisters(p.registers))
    [] p.code = 20 -> EncodeReadRequests(p)
    [] p.code = 21 -> EncodeWriteRecords(p)
    [] p.code = 22 -> EncodeMask(p)
    [] p.code = 23 ->
         IF p.read_quantity \notin 1..MAX_READ_REGISTERS THEN Refuse(<<>>)
         ELSE EncodeQuantified(<<23>> \o Word(p.read_address) \o Word(p.read_quantity)
                                 \o Word(p.write_address),
                               Len(p.registers), MAX_RW_WRITE_REGISTERS,
                               PushRegisters(p.registers))
    [] p.code = 24 -> Finish(<<24>> \o Word(p.address))
    [] p.code = 43 -> EncodeMeiRequest(p)

\* ResponsePdu::write.
WriteResponse(p) ==
  IF p.custom THEN EncodeCustom(p) ELSE
  CASE p.code = 128 -> EncodeException(p)
    [] p.code \in {1, 2} -> EncodeCounted(p.code, PushBits(p.coils))
    [] p.code \in {3, 4, 23} -> EncodeCounted(p.code, PushRegisters(p.registers))
    [] p.code = 5 -> EncodeSingle(5, p.address, Coil(p))
    [] p.code = 6 -> EncodeSingle(6, p.address, p.value)
    [] p.code = 7 -> Finish(<<7, p.status>>)
    [] p.code = 8 -> EncodeDiagnostics(p)
    [] p.code = 11 -> Finish(<<11>> \o Word(p.status) \o Word(p.event_count))
    [] p.code = 12 -> EncodeEventLog(p)
    [] p.code \in {15, 16} -> EncodeSingle(p.code, p.address, p.quantity)
    [] p.code = 17 -> EncodeCounted(17, p.data)
    [] p.code = 20 -> EncodeReadResponses(p)
    [] p.code = 21 -> EncodeWriteRecords(p)
    [] p.code = 22 -> EncodeMask(p)
    [] p.code = 24 -> EncodeFifo(p)
    [] p.code = 43 -> EncodeMeiResponse(p)

Write(direction, p) == IF direction = "Request" THEN WriteRequest(p) ELSE WriteResponse(p)

-----------------------------------------------------------------------------
(* Decoding: the whole of a PDU, its function code first.                   *)

Named(b, fields) == [code |-> b[1], custom |-> FALSE] @@ fields
Opaque(b) == Ok([code |-> b[1], custom |-> TRUE, data |-> Tail(b)])

ReadRequest(b, max) ==
  Checked(Len(b) = 5 /\ U16(b, 4) \in 1..max,
          Named(b, [address |-> U16(b, 2), quantity |-> U16(b, 4)]))

SingleCoil(b) ==
  Checked(Len(b) = 5 /\ U16(b, 4) \in {0, 65280},
          Named(b, [address |-> U16(b, 2), on |-> U16(b, 4) = 65280]))

MaskWrite(b) ==
  Checked(Len(b) = 7,
          Named(b, [address |-> U16(b, 2), and_mask |-> U16(b, 4), or_mask |-> U16(b, 6)]))

\* counted_bytes: the byte count is what remains.
CountedBytes(b) == Len(b) >= 2 /\ Len(b) = 2 + b[2]

\* quantified_bytes: a quantity, the byte count it makes, and that many bytes.
QuantifiedBytes(b, at, max, width) ==
  /\ Len(b) >= at + 2
  /\ U16(b, at) \in 1..max
  /\ b[at + 2] = width
  /\ Len(b) = at + 2 + b[at + 2]

WriteCoils(b) ==
  LET coils == PackedBits(After(b, 7), U16(b, 4))
  IN  IF QuantifiedBytes(b, 4, MAX_WRITE_BITS, BitWidth(U16(b, 4)))
      THEN Checked(coils.ok, Named(b, [address |-> U16(b, 2), coils |-> coils.value]))
      ELSE Err

WriteRegisters(b) ==
  Checked(QuantifiedBytes(b, 4, MAX_WRITE_REGISTERS, RegisterWidth(U16(b, 4))),
          Named(b, [address |-> U16(b, 2), registers |-> RegistersFromBytes(After(b, 7))]))

ReadWriteRegisters(b) ==
  Checked(/\ Len(b) >= 5 /\ U16(b, 4) \in 1..MAX_READ_REGISTERS
          /\ QuantifiedBytes(b, 8, MAX_RW_WRITE_REGISTERS, RegisterWidth(U16(b, 8))),
          Named(b, [read_address |-> U16(b, 2), read_quantity |-> U16(b, 4),
                    write_address |-> U16(b, 6), registers |-> RegistersFromBytes(After(b, 11))]))

Registers(b) ==
  Checked(CountedBytes(b) /\ b[2] % 2 = 0,
          Named(b, [registers |-> RegistersFromBytes(After(b, 3))]))

DiagnosticBody(b) ==
  Checked(Len(b) >= 3 /\ Len(b) % 2 = 1,
          Named(b, [sub_function |-> NameDecode(SubFunctions, U16(b, 2)),
                    data |-> RegistersFromBytes(After(b, 4))]))

EventLog(b) ==
  Checked(/\ CountedBytes(b)
          /\ b[2] \in EVENT_LOG_FIXED_BYTES..(EVENT_LOG_FIXED_BYTES + MAX_EVENT_BYTES),
          Named(b, [status |-> U16(b, 3), event_count |-> U16(b, 5), message_count |-> U16(b, 7),
                    events |-> After(b, 9)]))

FifoValues(b) ==
  Checked(/\ Len(b) >= 5
          /\ U16(b, 4) <= MAX_FIFO_COUNT
          /\ U16(b, 2) = 2 * U16(b, 4) + 2
          /\ Len(b) = 5 + 2 * U16(b, 4),
          Named(b, [values |-> RegistersFromBytes(After(b, 6))]))

\* parse.rs, run_all: items one after another until the region is used up.  items[at] is
\* what the item's parser makes of the region from at on: an item, and the place after it.
RunAll(items) ==
  LET run[at \in Nat, n \in Nat] == \* at most n items from at on, found by halves
        IF at > Len(items) THEN Ok([next |-> at, found |-> <<>>])
        ELSE IF ~items[at].ok THEN Err
        ELSE IF n = 1 THEN Ok([next |-> items[at].value.next, found |-> <<items[at].value.item>>])
        ELSE LET first == run[at, n \div 2]
                 others == run[first.value.next, n - n \div 2]
             IN  IF ~first.ok \/ ~others.ok THEN Err
                 ELSE Ok([next |-> others.value.next, found |-> first.value.found \o others.value.found])
      all == run[1, Len(items)]
  IN  Checked(all.ok, all.value.found)

FileRecordRead(r, at) ==
  Checked(/\ at + 6 <= Len(r) /\ r[at] = REFERENCE_TYPE
          /\ CheckNumbers(U16(r, at + 1), U16(r, at + 3)),
          [next |-> at + 7,
           item |-> [file_number |-> U16(r, at + 1), record_number |-> U16(r, at + 3),
                     record_length |-> U16(r, at + 5)]])

FileRecordReadResponse(r, at) ==
  Checked(/\ at + 1 <= Len(r) /\ r[at] % 2 = 1 /\ r[at + 1] = REFERENCE_TYPE
          /\ at + r[at] <= Len(r),
          [next |-> at + r[at] + 1,
           item |-> [values |-> RegistersFromBytes(SubSeq(r, at + 2, at + r[at]))]])

FileRecordWrite(r, at) ==
  Checked(/\ at + 6 <= Len(r) /\ r[at] = REFERENCE_TYPE
          /\ CheckNumbers(U16(r, at + 1), U16(r, at + 3))
          /\ at + 6 + 2 * U16(r, at + 5) <= Len(r),
          LET next == at + 7 + 2 * U16(r, at + 5)
          IN  [next |-> next,
               item |-> [file_number |-> U16(r, at + 1), record_number |-> U16(r, at + 3),
                         values |-> RegistersFromBytes(SubSeq(r, at + 7, next - 1))]])

\* The region of bytes a length announces, within its bounds, and the records it holds.
Records(b, min, max, items) ==
  IF CountedBytes(b) /\ b[2] \in min..max
  THEN LET records == RunAll(items)
       IN  Checked(records.ok, Named(b, [records |-> records.value]))
  ELSE Err

\* A byte count that is no multiple of seven leaves a record short.
DecodeReadRequests(b) ==
  LET r == After(b, 3)
  IN  Records(b, 7, 245, [at \in DOMAIN r |-> FileRecordRead(r, at)])

DecodeReadResponses(b) ==
  LET r == After(b, 3)
  IN  Records(b, 7, 245, [at \in DOMAIN r |-> FileRecordReadResponse(r, at)])

DecodeWriteRecords(b) ==
  LET r == After(b, 3)
  IN  Records(b, 9, 251, [at \in DOMAIN r |-> FileRecordWrite(r, at)])

DeviceIdObject(r, at) ==
  Checked(at + 1 <= Len(r) /\ at + 1 + r[at + 1] <= Len(r),
          LET next == at + 2 + r[at + 1]
          IN  [next |-> next, item |-> [id |-> r[at], value |-> SubSeq(r, at + 2, next - 1)]])

DecodeDeviceIdentification(b) ==
  LET r == After(b, 8)
      objects == RunAll([at \in DOMAIN r |-> DeviceIdObject(r, at)])
  IN  IF Len(b) >= 7 /\ b[3] \in 1..4 /\ b[5] \in {0, 255}
      THEN Checked(objects.ok /\ Len(objects.value) = b[7],
                   Named(b, [mei_type |-> 14, other |-> FALSE, read_device_id_code |-> b[3],
                             conformity_level |-> b[4], more_follows |-> b[5] = 255,
                             next_object_id |-> b[6], objects |-> objects.value]))
      ELSE Err

\* MEI 13, and any type without a name, are carried whole.
OpaqueMei(b) ==
  Checked(Len(b) >= 2,
          Named(b, [mei_type |-> b[2], other |-> b[2] \notin {13, 14}, data |-> After(b, 3)]))

MeiRequest(b) ==
  IF Len(b) >= 2 /\ b[2] = 14
  THEN Checked(Len(b) = 4 /\ b[3] \in 1..4,
               Named(b, [mei_type |-> 14, other |-> FALSE, read_device_id_code |-> b[3],
                         object_id |-> b[4]]))
  ELSE OpaqueMei(b)

MeiResponse(b) ==
  IF Len(b) >= 2 /\ b[2] = 14 THEN DecodeDeviceIdentification(b) ELSE OpaqueMei(b)

ExceptionResponse(b) ==
  LET function == FunctionCodeDecode(b[1] - 128)
  IN  Checked(Len(b) = 2 /\ function.ok,
              [code |-> 128, custom |-> FALSE, function |-> function.value,
               exception |-> NameDecode(ExceptionCodes, b[2])])

WriteSingle(b) == Checked(Len(b) = 5, Named(b, [address |-> U16(b, 2), value |-> U16(b, 4)]))
EchoQuantity(b) == Checked(Len(b) = 5, Named(b, [address |-> U16(b, 2), quantity |-> U16(b, 4)]))

\* RequestPdu::decode.
DecodeRequest(b) ==
  IF Len(b) \notin 1..MAX_PDU_LEN \/ ~FunctionCodeDecode(b[1]).ok THEN Err ELSE
  CASE b[1] \in {1, 2} -> ReadRequest(b, MAX_READ_BITS)
    [] b[1] \in {3, 4} -> ReadRequest(b, MAX_READ_REGISTERS)
    [] b[1] = 5 -> SingleCoil(b)
    [] b[1] = 6 -> WriteSingle(b)
    [] b[1] \in {7, 11, 12, 17} -> Checked(Len(b) = 1, [code |-> b[1], custom |-> FALSE])
    [] b[1] = 8 -> DiagnosticBody(b)
    [] b[1] = 15 -> WriteCoils(b)
    [] b[1] = 16 -> WriteRegisters(b)
    [] b[1] = 20 -> DecodeReadRequests(b)
    [] b[1] = 21 -> DecodeWriteRecords(b)
    [] b[1] = 22 -> MaskWrite(b)
    [] b[1] = 23 -> ReadWriteRegisters(b)
    [] b[1] = 24 -> Checked(Len(b) = 3, Named(b, [address |-> U16(b, 2)]))
    [] b[1] = 43 -> MeiRequest(b)
    [] OTHER -> Opaque(b)

\* ResponsePdu::decode.
DecodeResponse(b) ==
  IF Len(b) \notin 1..MAX_PDU_LEN THEN Err
  ELSE IF b[1] >= 128 THEN ExceptionResponse(b)
  ELSE IF ~FunctionCodeDecode(b[1]).ok THEN Err ELSE
  CASE b[1] \in {1, 2} ->
         Checked(CountedBytes(b), Named(b, [coils |-> BitsFromBytes(After(b, 3))]))
    [] b[1] \in {3, 4, 23} -> Registers(b)
    [] b[1] = 5 -> SingleCoil(b)
    [] b[1] = 6 -> WriteSingle(b)
    [] b[1] = 7 -> Checked(Len(b) = 2, Named(b, [status |-> b[2]]))
    [] b[1] = 8 -> DiagnosticBody(b)
    [] b[1] = 11 -> Checked(Len(b) = 5, Named(b, [status |-> U16(b, 2), event_count |-> U16(b, 4)]))
    [] b[1] = 12 -> EventLog(b)
    [] b[1] \in {15, 16} -> EchoQuantity(b)
    [] b[1] = 17 -> Checked(CountedBytes(b), Named(b, [data |-> After(b, 3)]))
    [] b[1] = 20 -> DecodeReadResponses(b)
    [] b[1] = 21 -> DecodeWriteRecords(b)
    [] b[1] = 22 -> MaskWrite(b)
    [] b[1] = 24 -> FifoValues(b)
    [] b[1] = 43 -> MeiResponse(b)
    [] OTHER -> Opaque(b)

Decode(direction, b) == IF direction = "Request" THEN DecodeRequest(b) ELSE DecodeResponse(b)

-----------------------------------------------------------------------------
(* The types: for each variant its fields, and the values of each.          *)

U8s == 0..255
U16s == 0..65535
Address == U16s
Quantity == U16s
RegisterValue == U16s

FunctionCode == [custom : BOOLEAN, code : U8s]
DiagnosticSubFunction == [other : BOOLEAN, raw : U16s]
ExceptionCode == [other : BOOLEAN, raw : U8s]

FileRecordReads == [file_number : U16s, record_number : U16s, record_length : Quantity]
FileRecordReadResponses == [values : Seq(RegisterValue)]
FileRecordWrites == [file_number : U16s, record_number : U16s, values : Seq(RegisterValue)]

ReadDeviceIdCode == 1..4
DeviceIdObjects == [id : U8s, value : Seq(U8s)]
OpaqueMeiFields == [mei_type |-> U8s, other |-> BOOLEAN, data |-> Seq(U8s)]

MeiRequestFields ==
  [mei_type |-> {14}, other |-> {FALSE}, read_device_id_code |-> ReadDeviceIdCode,
   object_id |-> U8s]

MeiResponseFields ==
  [mei_type |-> {14}, other |-> {FALSE}, read_device_id_code |-> ReadDeviceIdCode,
   conformity_level |-> U8s, more_follows |-> BOOLEAN, next_object_id |-> U8s,
   objects |-> Seq(DeviceIdObjects)]

RequestPdu(p) ==
  CASE p.custom -> [data |-> Seq(U8s)]
    [] ~p.custom /\ p.code \in 1..4 -> [address |-> Address, quantity |-> Quantity]
    [] ~p.custom /\ p.code = 5 -> [address |-> Address, on |-> BOOLEAN]
    [] ~p.custom /\ p.code = 6 -> [address |-> Address, value |-> RegisterValue]
    [] ~p.custom /\ p.code \in {7, 11, 12, 17} -> <<>>
    [] ~p.custom /\ p.code = 8 -> [sub_function |-> DiagnosticSubFunction, data |-> Seq(U16s)]
    [] ~p.custom /\ p.code = 15 -> [address |-> Address, coils |-> Seq(BOOLEAN)]
    [] ~p.custom /\ p.code = 16 -> [address |-> Address, registers |-> Seq(RegisterValue)]
    [] ~p.custom /\ p.code = 20 -> [records |-> Seq(FileRecordReads)]
    [] ~p.custom /\ p.code = 21 -> [records |-> Seq(FileRecordWrites)]
    [] ~p.custom /\ p.code = 22 -> [address |-> Address, and_mask |-> U16s, or_mask |-> U16s]
    [] ~p.custom /\ p.code = 23 ->
         [read_address |-> Address, read_quantity |-> Quantity, write_address |-> Address,
          registers |-> Seq(RegisterValue)]
    [] ~p.custom /\ p.code = 24 -> [address |-> Address]
    [] ~p.custom /\ p.code = 43 -> IF IsReadDeviceId(p) THEN MeiRequestFields ELSE OpaqueMeiFields

ResponsePdu(p) ==
  CASE p.custom -> [data |-> Seq(U8s)]
    [] ~p.custom /\ p.code \in {1, 2} -> [coils |-> Seq(BOOLEAN)]
    [] ~p.custom /\ p.code \in {3, 4, 23} -> [registers |-> Seq(RegisterValue)]
    [] ~p.custom /\ p.code = 5 -> [address |-> Address, on |-> BOOLEAN]
    [] ~p.custom /\ p.code = 6 -> [address |-> Address, value |-> RegisterValue]
    [] ~p.custom /\ p.code = 7 -> [status |-> U8s]
    [] ~p.custom /\ p.code = 8 -> [sub_function |-> DiagnosticSubFunction, data |-> Seq(U16s)]
    [] ~p.custom /\ p.code = 11 -> [status |-> U16s, event_count |-> U16s]
    [] ~p.custom /\ p.code = 12 ->
         [status |-> U16s, event_count |-> U16s, message_count |-> U16s, events |-> Seq(U8s)]
    [] ~p.custom /\ p.code \in {15, 16} -> [address |-> Address, quantity |-> Quantity]
    [] ~p.custom /\ p.code = 17 -> [data |-> Seq(U8s)]
    [] ~p.custom /\ p.code = 20 -> [records |-> Seq(FileRecordReadResponses)]
    [] ~p.custom /\ p.code = 21 -> [records |-> Seq(FileRecordWrites)]
    [] ~p.custom /\ p.code = 22 -> [address |-> Address, and_mask |-> U16s, or_mask |-> U16s]
    [] ~p.custom /\ p.code = 24 -> [values |-> Seq(RegisterValue)]
    [] ~p.custom /\ p.code = 43 -> IF IsReadDeviceId(p) THEN MeiResponseFields ELSE OpaqueMeiFields
    [] ~p.custom /\ p.code = 128 -> [function |-> FunctionCode, exception |-> ExceptionCode]

IsPdu(direction, p) ==
  LET fields == IF direction = "Request" THEN RequestPdu(p) ELSE ResponsePdu(p)
  IN  /\ DOMAIN p = {"code", "custom"} \cup DOMAIN fields
      /\ \A f \in DOMAIN fields : p[f] \in fields[f]

=============================================================================
