------------------------------ MODULE MCConnect ------------------------------
(***************************************************************************)
(* Two TLS clients with certificates of their own, and a third that speaks *)
(* plain TCP to the same listener; or three that open what needs no peer.  *)
(***************************************************************************)
EXTENDS Connect

MCAttempts == {"a", "b", "c"}

Tls(identity, verify, signs) ==
  [how |-> "tls", from |-> "task", verify |-> verify, roots |-> {"ca"}, identity |-> identity,
   keyFits |-> TRUE, signs |-> signs]

Plain(how, from) == [how |-> how, from |-> from]

Line(baud, bits, parity, stops, rs485) ==
  [how |-> "serial", from |-> "thread",
   config |-> [baud_rate |-> baud, data_bits |-> bits, parity |-> parity, stop_bits |-> stops,
               rs485 |-> rs485]]

Rs485(rts, secs, nanos) ==
  [is |-> "Some", rts_on_send |-> rts, delay_before_send |-> [secs |-> secs, nanos |-> nanos],
   delay_after_send |-> [secs |-> 1, nanos |-> 999999]]

\* Two TLS clients, the first with a certificate the listener does not trust, perhaps not its own;
\* and one that has it wait.
Peers ==
  {[a |-> a, b |-> b, c |-> Plain("tcp", "thread")] :
     a \in {Tls("cert a", TRUE, TRUE), Tls("cert a", FALSE, FALSE)},
     b \in {Tls("cert b", TRUE, TRUE), Tls(NoCert, FALSE, TRUE),
            [Tls("cert b", TRUE, TRUE) EXCEPT !.roots = {"cert a"}]}}

\* What needs no peer.  4294967.295999999 s fits a u32 of milliseconds, 4294967.296 s does not.
Local ==
  {[a |-> Line(baud, 8, "Even", 1, NoRs485), b |-> Line(9600, 7, "None", 2, rs485), c |-> c] :
     baud \in {0, 19200, 19201},
     rs485 \in {Rs485("High", 4294967, 295999999), Rs485("Low", 4294967, 296000000),
               Rs485("Low", 0, 0)},
     c \in {Plain("udp", "task"), Plain("tcp", "runtime_thread"),
           [Tls("cert a", TRUE, TRUE) EXCEPT !.keyFits = FALSE]}}

MCSettings == Peers \cup Local

MCListeners ==
  {[policy |-> "Require", roots |-> {"cert b"}], [policy |-> "Require", roots |-> {}],
   [policy |-> "AllowAny", roots |-> {}], [policy |-> "None", roots |-> {}]}

=============================================================================
