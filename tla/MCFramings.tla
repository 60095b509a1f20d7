----------------------------- MODULE MCFramings -----------------------------
(* Small instances of the PDU codec and of the framings for model          *)
(* checking: every variant, with each of its fields on both sides of its   *)
(* limits.                                                                 *)
EXTENDS Framings

\* In decimal, 1 2 and 17: each byte of the header another one.
MCHeader == [transaction_id |-> 258, unit_id |-> 17]

\* Stands for the CRC: a number of 16 bits that depends on every byte and its place.
SumCheck(b) ==
  LET sum[i \in Nat, j \in Nat] ==
        IF i = j THEN (i * b[i]) % 65536
        ELSE (sum[i, (i + j) \div 2] + sum[(i + j) \div 2 + 1, j]) % 65536
  IN  sum[1, Len(b)]

Registers16(n) == [i \in 1..n |-> (i * 259) % 65536]
Bits(n) == [i \in 1..n |-> i % 3 = 1]
Bytes(n) == [i \in 1..n |-> (i * 37) % 256]

PDU(code, fields) == {[code |-> code, custom |-> FALSE] @@ f : f \in fields}
Subs == {[other |-> FALSE, raw |-> 0], [other |-> FALSE, raw |-> 20], [other |-> TRUE, raw |-> 5],
         [other |-> TRUE, raw |-> 10]}

RecordRead(file, record) == [file_number |-> file, record_number |-> record, record_length |-> 300]
RecordWrite(file, record, n) ==
  [file_number |-> file, record_number |-> record, values |-> Registers16(n)]

SingleWrites ==
  PDU(5, [address : {258}, on : BOOLEAN]) \cup PDU(6, [address : {65535}, value : {0, 65280}])
    \cup PDU(22, [address : {1}, and_mask : {65535}, or_mask : {255}])
Diagnostics == PDU(8, [sub_function : Subs, data : {Registers16(n) : n \in {0, 1, 125, 126}}])
RecordWrites ==
  PDU(21, [records : {<<>>, <<RecordWrite(1, 9999, 1)>>, <<RecordWrite(1, 0, 122)>>,
                      <<RecordWrite(1, 0, 123)>>, <<RecordWrite(7, 1, 0), RecordWrite(8, 2, 2)>>,
                      <<RecordWrite(1, 1, 1), RecordWrite(0, 1, 1)>>,
                      <<RecordWrite(1, 10000, 1)>>}])
Customs == [code : {0, 3, 9, 100, 127, 128}, custom : {TRUE}, data : {Bytes(n) : n \in {0, 2, 252, 253}}]

\* Other holding 13 or 14, which encodes like the named MEI types, is left out.
OpaqueMeis ==
  PDU(43, [mei_type : {13}, other : {FALSE}, data : {Bytes(0), Bytes(251), Bytes(252)}]
            \cup [mei_type : {0, 12, 15, 255}, other : {TRUE}, data : {Bytes(2)}])

Requests ==
  SingleWrites \cup Diagnostics \cup RecordWrites \cup Customs \cup OpaqueMeis
    \cup UNION {PDU(c, [address : {65535}, quantity : {0, 1, 125, 126, 2000, 2001}]) : c \in 1..4}
    \cup {[code |-> c, custom |-> FALSE] : c \in {7, 11, 12, 17}}
    \cup PDU(15, [address : {19}, coils : {Bits(n) : n \in {0, 1, 8, 10, 1968, 1969}}])
    \cup PDU(16, [address : {1}, registers : {Registers16(n) : n \in {0, 1, 123, 124}}])
    \cup PDU(20, [records : {[i \in 1..n |-> RecordRead(i, 9)] : n \in {0, 1, 35, 36}}
                    \cup {<<RecordRead(1, 9999), RecordRead(0, 1)>>, <<RecordRead(1, 10000)>>}])
    \cup PDU(23, [read_address : {3}, read_quantity : {0, 1, 125, 126}, write_address : {14},
                  registers : {Registers16(n) : n \in {0, 1, 121, 122}}])
    \cup PDU(24, [address : {1246}])
    \cup PDU(43, [mei_type : {14}, other : {FALSE}, read_device_id_code : 1..4, object_id : {0}])

Objects(lens) == [i \in DOMAIN lens |-> [id |-> i, value |-> Bytes(lens[i])]]

Responses ==
  SingleWrites \cup Diagnostics \cup RecordWrites \cup Customs \cup OpaqueMeis
    \cup UNION {PDU(c, [coils : {Bits(n) : n \in {0, 1, 8, 19, 2008, 2009, 2041}}]) : c \in 1..2}
    \cup UNION {PDU(c, [registers : {Registers16(n) : n \in {0, 2, 125, 126, 128}}]) : c \in {3, 4, 23}}
    \cup UNION {PDU(c, [address : {1}, quantity : {0, 65535}]) : c \in {15, 16}}
    \cup PDU(7, [status : {109}])
    \cup PDU(11, [status : {65535}, event_count : {264}])
    \cup PDU(12, [status : {0}, event_count : {264}, message_count : {289},
                  events : {Bytes(n) : n \in {0, 2, 64, 65}}])
    \cup PDU(17, [data : {Bytes(n) : n \in {0, 3, 251, 252, 256}}])
    \cup PDU(20, [records : {<<>>, <<[values |-> Registers16(2)]>>, <<[values |-> Registers16(121)]>>,
                             <<[values |-> Registers16(122)]>>, <<[values |-> Registers16(128)]>>,
                             <<[values |-> <<>>], [values |-> Registers16(3)]>>}])
    \cup PDU(24, [values : {Registers16(n) : n \in {0, 2, 31, 32}}])
    \cup PDU(43, [mei_type : {14}, other : {FALSE}, read_device_id_code : {1, 4},
                  conformity_level : {1}, more_follows : BOOLEAN, next_object_id : {5},
                  objects : {Objects(l) : l \in {<<>>, <<3>>, <<0, 0>>, <<2, 0, 5>>, <<244>>, <<245>>,
                                                 <<120, 122>>, <<1, 256>>}}])
    \cup PDU(128, [function : {[custom |-> FALSE, code |-> 3], [custom |-> TRUE, code |-> 100],
                               [custom |-> TRUE, code |-> 3], [custom |-> TRUE, code |-> 0]},
                   exception : {[other |-> FALSE, raw |-> 2], [other |-> TRUE, raw |-> 7],
                                [other |-> TRUE, raw |-> 1]}])

Directions == [Request |-> Requests, Response |-> Responses]

\* With a general MEI value that holds the number of a named type.
WithNamedMei ==
  LET general == PDU(43, [mei_type : {13}, other : {TRUE}, data : {Bytes(2)}])
  IN  [f \in InUse |-> [Request |-> Requests \cup general, Response |-> Responses \cup general]]

Short(b) == Len(b) <= 12

\* In ASCII, where every byte is looked at many times: the short ones, and the longest.
ShortOrLongest(d, pdus) == {p \in pdus : p.custom \/ Short(Write(d, p).bytes)}

EveryVariant ==
  LET some == [Request |-> ShortOrLongest("Request", Requests),
               Response |-> ShortOrLongest("Response", Responses)]
  IN  [Rtu |-> Directions, RtuOverTcp |-> Directions, Tcp |-> Directions, Ascii |-> some, Udp |-> some]

\* One that is accepted and one that is refused half way.
AFew ==
  PDU(6, [address : {65535}, value : {0}])
    \cup PDU(21, [records : {<<RecordWrite(1, 1, 1), RecordWrite(0, 1, 1)>>}])

\* Encoded PDUs with one byte changed, the last one missing, or one too many.
Changed(b) ==
  {[b EXCEPT ![i] = v] : i \in {i \in DOMAIN b : i <= 11 \/ i = Len(b)},
                         v \in {0, 1, 2, 7, 14, 128, 246, 255}}
    \cup {Front(b), Append(b, 0)}

ChangedOf(d, pdus) ==
  {b \in UNION {Changed(Write(d, p).bytes) : p \in {p \in pdus : Write(d, p).ok}} :
     Len(b) \in 1..MAX_PDU_LEN}

OneByteOff ==
  LET off == [Request |-> ChangedOf("Request", Requests),
              Response |-> ChangedOf("Response", Responses)]
      Few(pdus) == {b \in pdus : Short(b) /\ Len(b) % 4 = 1}
      few == [Request |-> Few(off.Request), Response |-> Few(off.Response)]
      longest == [Request |-> {<<100>> \o Bytes(252)}, Response |-> {<<100>> \o Bytes(252)}]
      more == [d \in {"Request", "Response"} |-> few[d] \cup longest[d]]
  IN  [Rtu |-> off, RtuOverTcp |-> off, Tcp |-> few, Ascii |-> few, Udp |-> more]

=============================================================================
