------------------------------ MODULE MCClient ------------------------------
(* Small instances of the client for model checking.                       *)
EXTENDS Client

\* Frames under a transaction id that is never allocated (CL-R-011), and of a unit this
\* client does not address.
Others == {[tid |-> 0, unit |-> 1], [tid |-> 0, unit |-> 2]}

=============================================================================
