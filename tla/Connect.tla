------------------------------- MODULE Connect -------------------------------
(***************************************************************************)
(* Coming to hold a transport: connect_tcp, connect_tls, connect_udp and   *)
(* open_serial with the blocking client's connect and open on one side,    *)
(* the TLS listener with one task for each handshake on the other          *)
(* (src/transport/{tcp,tls,udp,rtu}.rs, src/client/sync.rs).               *)
(*                                                                         *)
(* A TLS connection goes through these stages: 0 nothing was said, 1 the   *)
(* client's hello, 2 the server's certificate, 3 the client's answer, with *)
(* its certificate if one was asked for, 4 the server has read it.  The    *)
(* client is done when it has answered.  A plain TCP client that connects  *)
(* to the listener says nothing.                                           *)
(***************************************************************************)
EXTENDS Serial, Sequences, FiniteSets

CONSTANTS
  Attempts,   \* the attempts to connect; one connection to the listener each
  Settings,   \* the settings the attempts may have been given
  Listeners,  \* the TlsServerConfigs the listener may have been given
  ServerCert  \* the certificate of the listener

ASSUME ConnectAssumption ==
  \A given \in Settings : DOMAIN given = Attempts /\ \A c \in Attempts :
    /\ given[c].how \in {"tcp", "tls", "udp", "serial"}
    /\ given[c].from \in {"task", "thread", "runtime_thread"}
    /\ given[c].how = "serial" => given[c].config \in SerialConfig

VARIABLES
  settings, \* settings[c]
  attempt,  \* attempt[c]: "idle", "connecting", "handshaking" or "over"
  outcome,  \* outcome[c]: what the call returned
  touched,  \* touched[c], history: a socket or port was opened for it
  port,     \* port[c]: what the kernel was told about the serial port
  config,   \* the TlsServerConfig
  listener, \* "unbound", "bound" or "failed"
  link,     \* link[c]: whether the connection is up, its stage, and the certificate answered with
  task,     \* task[c]: where the server's task for the connection is
  cell,     \* REJECTED_CLIENT_CERT, one for each task
  accepted  \* accepted[c]: what handshake_framed returned

vars == <<settings, attempt, outcome, touched, port, config, listener, link, task, cell, accepted>>
client == <<settings, attempt, outcome, touched, port>>
server == <<config, listener, task, cell, accepted>>

NoCert == "no_certificate"
Pending == [is |-> "pending"]
Err(error) == [is |-> error]

Init ==
  /\ settings \in Settings
  /\ attempt = [c \in Attempts |-> "idle"]
  /\ outcome = [c \in Attempts |-> Pending]
  /\ touched = [c \in Attempts |-> FALSE]
  /\ port = [c \in Attempts |-> NoRs485]
  /\ config \in Listeners
  /\ listener = "unbound"
  /\ link = [c \in Attempts |-> [up |-> FALSE, stage |-> 0, offered |-> NoCert]]
  /\ task = [c \in Attempts |-> "none"]
  /\ cell = [c \in Attempts |-> NoCert]
  /\ accepted = [c \in Attempts |-> Pending]

-----------------------------------------------------------------------------
(* A client.                                                                *)

\* The call returns.  Whatever was opened and not returned is closed as it is dropped.
Return(c, result) ==
  /\ attempt' = [attempt EXCEPT ![c] = "over"]
  /\ outcome' = [outcome EXCEPT ![c] = result]

\* refuse_inside_a_runtime, then build_runtime, which may fail.
RuntimeErrors(s) ==
  CASE s.from = "runtime_thread" -> {"BlockingInAsyncContext"}
    [] s.from = "thread" -> {"None", "Io"}
    [] OTHER -> {"None"}

\* What is refused before any I/O, in the order of the code: connect, open, client_config,
\* from_serial.
Refused(s, runtime) ==
  IF runtime # "None" THEN runtime
  ELSE IF s.how = "tls" /\ ~s.keyFits THEN "TlsHandshake"
  ELSE IF s.how = "serial" /\ s.config.baud_rate = 0 THEN "Configuration"
  ELSE "None"

Refuse(c) ==
  /\ attempt[c] = "idle"
  /\ \E runtime \in RuntimeErrors(settings[c]) :
       /\ Refused(settings[c], runtime) # "None"
       /\ Return(c, Err(Refused(settings[c], runtime)))
  /\ UNCHANGED <<settings, touched, port, link, server>>

Allowed(c) ==
  /\ attempt[c] = "idle"
  /\ \E runtime \in RuntimeErrors(settings[c]) : Refused(settings[c], runtime) = "None"

\* The errors of the ioctl, and what issue_ioctl makes of them.
IoctlErrors == {"ENOTTY", "EINVAL", "ENOSYS", "EIO"}
Rs485Error(errno) == IF errno \in {"ENOTTY", "EINVAL", "ENOSYS"} THEN "Rs485Unsupported" ELSE "Io"

\* Mutant of OpenSerial: an ioctl that failed is ignored.
OpenSerialHeedless(c) ==
  LET serial == settings[c].config IN
  /\ Allowed(c) /\ settings[c].how = "serial"
  /\ touched' = [touched EXCEPT ![c] = TRUE]
  /\ Return(c, [is |-> "Ok", transport |-> TransportFromSerial(serial)])
  /\ \E applied \in BOOLEAN :
       port' = IF applied /\ serial.rs485 # NoRs485
               THEN [port EXCEPT ![c] = KernelRs485(serial.rs485)] ELSE port
  /\ UNCHANGED <<settings, link, server>>

\* open_serial once the timing is derived: the port is opened, then rs485::apply.
OpenSerial(c) ==
  LET serial == settings[c].config
      rs485 == serial.rs485
      Opened == [is |-> "Ok", transport |-> TransportFromSerial(serial)]
  IN
  /\ Allowed(c) /\ settings[c].how = "serial"
  /\ touched' = [touched EXCEPT ![c] = TRUE]
  /\ \/ Return(c, Err("Io")) /\ UNCHANGED port
     \/ rs485 = NoRs485 /\ Return(c, Opened) /\ UNCHANGED port
     \/ /\ rs485 # NoRs485
        /\ ~(FitsU32(rs485.delay_before_send) /\ FitsU32(rs485.delay_after_send))
        /\ Return(c, Err("Configuration")) /\ UNCHANGED port
     \/ /\ rs485 # NoRs485
        /\ FitsU32(rs485.delay_before_send) /\ FitsU32(rs485.delay_after_send)
        /\ \/ \E errno \in IoctlErrors : Return(c, Err(Rs485Error(errno))) /\ UNCHANGED port
           \/ Return(c, Opened) /\ port' = [port EXCEPT ![c] = KernelRs485(rs485)]
  /\ UNCHANGED <<settings, link, server>>

\* connect_udp: bind, then connect, which sends nothing.
ConnectUdp(c) ==
  /\ Allowed(c) /\ settings[c].how = "udp"
  /\ touched' = [touched EXCEPT ![c] = TRUE]
  /\ \E result \in {Err("Io"), [is |-> "Ok", transport |-> TransportDefault]} : Return(c, result)
  /\ UNCHANGED <<settings, port, link, server>>

\* TcpStream::connect is under way, and the connect timeout runs.
StartTcp(c) ==
  /\ Allowed(c) /\ settings[c].how \in {"tcp", "tls"}
  /\ attempt' = [attempt EXCEPT ![c] = "connecting"]
  /\ touched' = [touched EXCEPT ![c] = TRUE]
  /\ UNCHANGED <<settings, outcome, port, link, server>>

\* It fails, as it does while nothing listens, or set_nodelay does.
TcpFails(c) ==
  /\ attempt[c] = "connecting"
  /\ Return(c, Err("Io"))
  /\ UNCHANGED <<settings, touched, port, link, server>>

\* The connection is in the listener's backlog.
TcpConnected(c) ==
  /\ attempt[c] = "connecting" /\ listener = "bound"
  /\ link' = [link EXCEPT ![c] =
       [up |-> TRUE, stage |-> IF settings[c].how = "tls" THEN 1 ELSE 0, offered |-> NoCert]]
  /\ task' = [task EXCEPT ![c] = "backlog"]
  /\ IF settings[c].how = "tls"
     THEN attempt' = [attempt EXCEPT ![c] = "handshaking"] /\ UNCHANGED outcome
     ELSE Return(c, [is |-> "Ok", transport |-> TransportDefault])
  /\ UNCHANGED <<settings, touched, port, config, listener, cell, accepted>>

\* Mutant of Trusts: the two verifiers of client_config are swapped.
TrustsSwapped(s) == ~s.verify \/ ServerCert \notin s.roots

\* The verifier client_config installed: the roots, or NoServerCertVerification.
Trusts(s) == ~s.verify \/ ServerCert \in s.roots

\* The server's certificate has come: the client rejects it, or answers it and is done.
VerifyServer(c) ==
  /\ attempt[c] = "handshaking" /\ link[c].up /\ link[c].stage = 2
  /\ IF Trusts(settings[c])
     THEN /\ link' = [link EXCEPT ![c].stage = 3,
                        ![c].offered = IF config.policy = "None" THEN NoCert ELSE settings[c].identity]
          /\ Return(c, [is |-> "Ok", transport |-> TransportDefault])
     ELSE link' = [link EXCEPT ![c].up = FALSE] /\ Return(c, Err("TlsHandshake"))
  /\ UNCHANGED <<settings, touched, port, server>>

\* The connection broke under the handshake.
HandshakeBroken(c) ==
  /\ attempt[c] = "handshaking" /\ ~link[c].up
  /\ Return(c, Err("TlsHandshake"))
  /\ UNCHANGED <<settings, touched, port, link, server>>

\* Mutant of Expire: the timeout covers the TCP connection alone.
ExpireTcpAlone(c) ==
  /\ attempt[c] = "connecting"
  /\ Return(c, Err("Timeout"))
  /\ link' = [link EXCEPT ![c].up = FALSE]
  /\ UNCHANGED <<settings, touched, port, server>>

\* connect_timeout, over the TCP connection and the handshake together.
Expire(c) ==
  /\ attempt[c] \in {"connecting", "handshaking"}
  /\ Return(c, Err("Timeout"))
  /\ link' = [link EXCEPT ![c].up = FALSE]
  /\ UNCHANGED <<settings, touched, port, server>>

\* The caller drops the future.
Abandon(c) ==
  /\ attempt[c] \in {"connecting", "handshaking"}
  /\ Return(c, Err("abandoned"))
  /\ link' = [link EXCEPT ![c].up = FALSE]
  /\ UNCHANGED <<settings, touched, port, server>>

\* The network, or the peer once it holds a transport, ends the connection.
Break(c) ==
  /\ link[c].up
  /\ link' = [link EXCEPT ![c].up = FALSE]
  /\ UNCHANGED <<client, server>>

-----------------------------------------------------------------------------
(* The TLS listener.                                                        *)

\* TlsListener::bind: server_config, which refuses a store without roots, then the socket.
Bind ==
  /\ listener = "unbound"
  /\ listener' \in IF config.policy = "Require" /\ config.roots = {} THEN {"failed"}
                   ELSE {"bound", "failed"}
  /\ UNCHANGED <<client, config, link, task, cell, accepted>>

\* accept_tcp_only, and the task that serve_tls spawns; a cell of its own is scoped to it.  The
\* accept loop may have ended, or end, with connections in the backlog.
Accept(c) ==
  /\ task[c] = "backlog"
  /\ task' = [task EXCEPT ![c] = "handshake"]
  /\ UNCHANGED <<client, config, listener, link, cell, accepted>>

\* The hello was read: the server's certificate goes out.
Reply(c) ==
  /\ task[c] = "handshake" /\ link[c].stage = 1
  /\ link' = [link EXCEPT ![c].stage = 2]
  /\ UNCHANGED <<client, server>>

\* Mutant of CellOf: one cell for all handshakes.
CellOfAll(c) == CHOOSE d \in Attempts : TRUE

\* The cell verify_client_cert finds, and handshake_framed takes.
CellOf(c) == c

\* What the verifier server_config installed says of the client's certificate.
Verifies(offered) ==
  CASE config.policy = "Require" -> offered # NoCert /\ offered \in config.roots
    [] config.policy = "AllowAny" -> offered # NoCert
    [] OTHER -> TRUE

\* The client's answer was read: verify_client_cert keeps a certificate that is rejected; one that
\* is not offered never reaches it.  A signature that does not match the certificate is found next.
VerifyClient(c) ==
  /\ task[c] = "handshake" /\ link[c].stage = 3
  /\ link' = [link EXCEPT ![c].stage = 4]
  /\ cell' = [cell EXCEPT ![CellOf(c)] =
       IF config.policy = "Require" /\ link[c].offered \notin config.roots \cup {NoCert}
       THEN link[c].offered ELSE @]
  /\ task' = [task EXCEPT ![c] =
       IF Verifies(link[c].offered) /\ (link[c].offered # NoCert => settings[c].signs)
       THEN "passed" ELSE "rejected"]
  /\ UNCHANGED <<client, config, listener, accepted>>

\* The connection ended with nothing more to read, or was reset with the hello or the answer unread.
HandshakeEof(c) ==
  /\ task[c] = "handshake" /\ ~link[c].up
  /\ task' = [task EXCEPT ![c] = "rejected"]
  /\ UNCHANGED <<client, config, listener, link, cell, accepted>>

\* The acceptor is done; the rest of handshake_framed.
HandshakeFramed(c) ==
  /\ task[c] \in {"passed", "rejected"}
  /\ accepted' = [accepted EXCEPT ![c] =
       IF task[c] = "passed" THEN [is |-> "Ok", cert |-> link[c].offered]
       ELSE [is |-> "TlsHandshake", cert |-> cell[CellOf(c)]]]
  /\ cell' = [cell EXCEPT ![CellOf(c)] = NoCert]
  /\ link' = IF task[c] = "passed" THEN link ELSE [link EXCEPT ![c].up = FALSE]
  /\ task' = [task EXCEPT ![c] = "over"]
  /\ UNCHANGED <<client, config, listener>>

-----------------------------------------------------------------------------
Next ==
  \/ Bind
  \/ \E c \in Attempts :
       \/ Refuse(c) \/ OpenSerial(c) \/ ConnectUdp(c) \/ StartTcp(c) \/ TcpFails(c)
       \/ TcpConnected(c) \/ VerifyServer(c) \/ HandshakeBroken(c) \/ Expire(c) \/ Abandon(c)
       \/ Break(c)
       \/ Accept(c) \/ Reply(c) \/ VerifyClient(c) \/ HandshakeEof(c) \/ HandshakeFramed(c)

Spec == Init /\ [][Next]_vars

\* A timer that is due fires; nothing is assumed of the network, the peer, the accept loop or the
\* handshakes.
FairSpec == Spec /\ \A c \in Attempts : WF_vars(Expire(c))

-----------------------------------------------------------------------------
(* Properties.                                                              *)

\* TR-R-069: a handshake that failed names the certificate it rejected, its own peer's and only
\* under Require, whatever the other handshakes are doing; one that failed for another reason, an
\* absent certificate, a bad signature or a connection lost before the answer was read, names none.
OwnCertificate ==
  \A c \in Attempts :
    accepted[c].is = "TlsHandshake" =>
      accepted[c].cert =
        IF config.policy = "Require" /\ link[c].stage = 4 /\ link[c].offered \notin config.roots
        THEN link[c].offered ELSE NoCert

\* TR-R-065, TR-R-066: whoever holds a transport has verified the other side as configured.  The
\* server has, even if the client was done before the server looked at its certificate.
AuthenticatedAsConfigured ==
  \A c \in Attempts :
    /\ settings[c].how = "tls" /\ outcome[c].is = "Ok" =>
         ~settings[c].verify \/ ServerCert \in settings[c].roots
    /\ accepted[c].is = "Ok" =>
         /\ config.policy = "Require" =>
              accepted[c].cert \in config.roots /\ accepted[c].cert = settings[c].identity
         /\ config.policy = "AllowAny" => accepted[c].cert # NoCert
         /\ accepted[c].cert # NoCert => settings[c].signs

\* A delay in milliseconds that fits the kernel's u32 is the one asked for, but for less than one.
DelayAsAsked(told, asked) ==
  /\ told.secs = asked.secs
  /\ told.millis * 1000000 <= asked.nanos /\ asked.nanos < (told.millis + 1) * 1000000
  /\ told.secs < 4294967 \/ (told.secs = 4294967 /\ told.millis <= 295)

\* Whole microseconds of three and a half characters of the line, or 1750 above 19200 baud.
SilenceOfLine(interval, line) ==
  LET bits == line.data_bits + line.stop_bits + (IF line.parity = "None" THEN 1 ELSE 2) IN
  IF line.baud_rate > 19200 THEN interval = 1750
  ELSE /\ 2 * (interval * line.baud_rate) <= 7000000 * bits
       /\ 7000000 * bits < 2 * ((interval + 1) * line.baud_rate)

\* TR-R-011, TR-R-053, TR-R-057: a serial transport waits for the silence of the line it was opened
\* with; if it asked for RS-485, its port's driver was told to release the line after sending, by
\* the opposite level, with the delays asked for; if it did not, the port was left alone.
DirectionControlled ==
  \A c \in Attempts :
    settings[c].how = "serial" /\ outcome[c].is = "Ok" =>
      LET rs485 == settings[c].config.rs485 IN
      /\ SilenceOfLine(outcome[c].transport.inter_frame_interval, settings[c].config)
      /\ rs485 = NoRs485 => port[c] = NoRs485
      /\ rs485 # NoRs485 =>
           /\ port[c] # NoRs485 /\ "ENABLED" \in port[c].flags
           /\ ("RTS_ON_SEND" \in port[c].flags) = (rs485.rts_on_send = "High")
           /\ ("RTS_AFTER_SEND" \in port[c].flags) = (rs485.rts_on_send = "Low")
           /\ DelayAsAsked(port[c].before, rs485.delay_before_send)
           /\ DelayAsAsked(port[c].after, rs485.delay_after_send)

\* TR-R-021: an attempt that began ends, however the peer behaves, by the one connect timeout over
\* the TCP connection and the handshake.
EveryAttemptEnds ==
  \A c \in Attempts : attempt[c] # "idle" ~> attempt[c] = "over"

-----------------------------------------------------------------------------
(* Statements of the repository that the code does not keep; README.md says *)
(* how each one fails.                                                      *)

\* rtu.rs:40: "an unusable configuration is rejected without a side effect".
RejectedUntouched ==
  \A c \in Attempts : outcome[c].is \in {"Configuration", "BlockingInAsyncContext"} => ~touched[c]

=============================================================================
