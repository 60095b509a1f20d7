----------------------------- MODULE MCTransport -----------------------------
(* Small instances of the ADU reader for model checking.                   *)
EXTENDS Transport

\* Short and longest legal frames, one too long by more than a read, and, where the
\* frame tells its length, one from which it cannot be told.
LegalAndNot ==
  [b \in Boundaries |->
     {[len |-> 3, good |-> TRUE], [len |-> 4, good |-> TRUE], [len |-> 11, good |-> TRUE]}
       \cup (IF b \in {"Prefixed", "ContentLength"} THEN {[len |-> 3, good |-> FALSE]} ELSE {})]

Longest == [b \in Boundaries |-> {[len |-> 4, good |-> TRUE]}]

\* A serial line picks up bytes; a carriage return means something only to ASCII.
SerialNoise ==
  [b \in Boundaries |-> CASE b = "Delimited" -> {"data", "cr"}
                         [] b = "Silence" -> {"data"}
                         [] OTHER -> {}]

=============================================================================
