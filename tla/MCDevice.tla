------------------------------ MODULE MCDevice ------------------------------
(* Small instances of the device and its clients for model checking.       *)
EXTENDS Device

CONSTANTS c1, c2

PDU(code, fields) == {[code |-> code, custom |-> FALSE] @@ f : f \in fields}
Call(how, unit, pdus) == [how : {how}, unit : {unit}, typed : {TRUE}, p : pdus]

\* A writer: two registers at once, inside the table and past its end, and coils.
Writes ==
  Call("async", 1, PDU(16, [address : {0}, registers : {<<7, 8>>}])
                     \cup PDU(16, [address : {2}, registers : {<<9, 9>>}])
                     \cup PDU(15, [address : {0}, coils : {<<TRUE, FALSE, TRUE>>}])
                     \cup PDU(16, [address : {0}, registers : {<<>>}]))
    \cup Call("blocking", 1, PDU(6, [address : {1}, value : {65280}]) \cup PDU(5, [address : {1}, on : {TRUE}]))
    \cup Call("async", 0, PDU(16, [address : {1}, registers : {<<5, 6>>}]))

\* A reader: whole tables, past the end and around it, nothing; by another unit; inside a runtime.
Reads ==
  Call("async", 1, PDU(3, [address : {0}, quantity : {3}]) \cup PDU(1, [address : {0}, quantity : {3}])
                     \cup PDU(3, [address : {65535}, quantity : {2}]))
    \cup Call("blocking", 1, PDU(2, [address : {0}, quantity : {2}]) \cup PDU(4, [address : {1}, quantity : {2}])
                               \cup PDU(3, [address : {0}, quantity : {0, 126}]) \cup {NoCall.p})
    \cup Call("blocking inside a runtime", 1, PDU(6, [address : {1}, value : {9}]))
    \cup Call("async", 0, PDU(1, [address : {0}, quantity : {2}]))
    \cup Call("async", 9, PDU(3, [address : {0}, quantity : {2}]))
    \cup {[how |-> "async", unit |-> 1, typed |-> FALSE, p |-> [code |-> 100, custom |-> TRUE, data |-> <<1>>]]}

OneEach == (c1 :> Writes) @@ (c2 :> Reads)

=============================================================================
