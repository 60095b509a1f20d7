------------------------------ MODULE MCServer ------------------------------
(* Small instances of the server for model checking.                       *)
EXTENDS Server

\* A TCP listener that answers for one unit, a TLS listener that leaves the unit to its
\* service, and two kinds of bus.
EveryKind ==
  {[mode |-> "listener", framing |-> "Tcp", unit |-> 1, units |-> {1, 2}],
   [mode |-> "tls", framing |-> "Tcp", unit |-> AnyUnit, units |-> {1}],
   [mode |-> "link", framing |-> "Rtu", unit |-> 1, units |-> {0, 1, 2}],
   [mode |-> "link", framing |-> "Ascii", unit |-> AnyUnit, units |-> {0, 1}]}

=============================================================================
