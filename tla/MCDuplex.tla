------------------------------ MODULE MCDuplex ------------------------------
(* Instance of Duplex for TLC. *)
EXTENDS Duplex

\* Every call addresses the same device.
OneUnit == [c \in Calls |-> CHOOSE u \in Units : TRUE]

=============================================================================
