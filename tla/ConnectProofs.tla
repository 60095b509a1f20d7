---------------------------- MODULE ConnectProofs ----------------------------
(***************************************************************************)
(* Who holds a transport has been verified, and who was refused is told of *)
(* its own certificate, for any number of attempts, any settings and any   *)
(* listener.                                                               *)
(***************************************************************************)
EXTENDS Connect, TLAPS

\* A leaf that names no prover is for Zenon, or else for the SMT solver.
USE ZenonT(5), SMTT(30)

-----------------------------------------------------------------------------
(* The inductive invariant.                                                 *)

\* What a client may answer with.
Offers ==
  {NoCert} \cup
    UNION {{given[c].identity : c \in {d \in Attempts : given[d].how = "tls"}} : given \in Settings}

Links == [up : BOOLEAN, stage : 0..4, offered : Offers]

\* The state of the attempts and of their connections is well typed.
TypeOK ==
  /\ settings \in Settings
  /\ attempt \in [Attempts -> {"idle", "connecting", "handshaking", "over"}]
  /\ task \in [Attempts -> {"none", "backlog", "handshake", "passed", "rejected", "over"}]
  /\ link \in [Attempts -> Links]
  /\ DOMAIN outcome = Attempts /\ DOMAIN port = Attempts
  /\ DOMAIN cell = Attempts /\ DOMAIN accepted = Attempts

\* A serial transport that was returned, and its port.
SerialOpened(line, result, told) ==
  /\ line.baud_rate # 0 /\ result.transport = TransportFromSerial(line)
  /\ line.rs485 = NoRs485 => told = NoRs485
  /\ line.rs485 # NoRs485 =>
       /\ told = KernelRs485(line.rs485)
       /\ FitsU32(line.rs485.delay_before_send) /\ FitsU32(line.rs485.delay_after_send)

\* What the client's side knows when the call returns.
ClientKept(c) ==
  /\ attempt[c] # "over" => outcome[c] = Pending
  /\ attempt[c] = "idle" => port[c] = NoRs485
  /\ attempt[c] = "connecting" => settings[c].how \in {"tcp", "tls"}
  /\ attempt[c] = "handshaking" => settings[c].how = "tls"
  /\ settings[c].how = "tls" /\ outcome[c].is = "Ok" => Trusts(settings[c])
  /\ settings[c].how = "serial" /\ outcome[c].is = "Ok" =>
       SerialOpened(settings[c].config, outcome[c], port[c])

\* The certificate a failed handshake has to name.
Named(c) ==
  IF config.policy = "Require" /\ link[c].stage = 4 /\ link[c].offered \notin config.roots
  THEN link[c].offered ELSE NoCert

\* The client's answer was read, is as the server asked for it, and passes.
Passes(c) ==
  /\ link[c].stage = 4 /\ Verifies(link[c].offered)
  /\ link[c].offered # NoCert => settings[c].signs

\* The handshake's stage is final: the answer was read, or the connection is gone for good.
Final(c) == link[c].stage = 4 \/ ~link[c].up

\* What the task of a connection knows, step by step; its cell holds nothing before the verifier
\* looks and nothing of anybody else's.
TaskKept(c) ==
  /\ attempt[c] \in {"idle", "connecting"} => task[c] = "none"
  /\ link[c].stage \in {3, 4} =>
       link[c].offered = IF config.policy = "None" THEN NoCert ELSE settings[c].identity
  /\ task[c] # "over" => accepted[c] = Pending
  /\ task[c] \in {"none", "backlog", "handshake"} => cell[c] = NoCert /\ link[c].stage # 4
  /\ task[c] = "passed" => Passes(c)
  /\ task[c] = "rejected" => Final(c) /\ cell[c] = Named(c)
  /\ task[c] = "over" /\ accepted[c].is = "Ok" => Passes(c) /\ accepted[c].cert = link[c].offered
  /\ task[c] = "over" /\ accepted[c].is = "TlsHandshake" => Final(c) /\ accepted[c].cert = Named(c)

IInv == TypeOK /\ \A c \in Attempts : ClientKept(c) /\ TaskKept(c)

-----------------------------------------------------------------------------
(* What a step leaves alone.                                                *)

Same(d) ==
  /\ attempt'[d] = attempt[d] /\ outcome'[d] = outcome[d] /\ port'[d] = port[d]
  /\ link'[d] = link[d] /\ task'[d] = task[d] /\ cell'[d] = cell[d] /\ accepted'[d] = accepted[d]

\* A step of attempt c, or of its connection, that keeps the invariant.
Keeps(c) ==
  /\ TypeOK' /\ settings' = settings /\ config' = config
  /\ \A d \in Attempts \ {c} : Same(d)
  /\ ClientKept(c)' /\ TaskKept(c)'

LEMMA OthersKept ==
  ASSUME NEW d \in Attempts, ClientKept(d), TaskKept(d), Same(d), settings' = settings,
         config' = config
  PROVE  ClientKept(d)' /\ TaskKept(d)'
<1>1. ClientKept(d)'
  BY DEF ClientKept, Same, Trusts
<1>2. TaskKept(d)'
  BY ZenonT(30) DEF TaskKept, Same, Passes, Final, Named, Verifies
<1> QED
  BY <1>1, <1>2

LEMMA StepKeeps ==
  ASSUME IInv, NEW c \in Attempts, Keeps(c)
  PROVE  IInv'
<1>1. ASSUME NEW d \in Attempts PROVE ClientKept(d)' /\ TaskKept(d)'
  <2>1. CASE d = c
    BY <2>1 DEF Keeps
  <2>2. CASE d # c
    BY <2>2, OthersKept DEF Keeps, IInv
  <2> QED
    BY <2>1, <2>2
<1> QED
  BY <1>1 DEF Keeps, IInv

\* A call that returns.
LEMMA ReturnFacts ==
  ASSUME TypeOK, NEW c \in Attempts, NEW result, Return(c, result)
  PROVE  /\ attempt' \in [Attempts -> {"idle", "connecting", "handshaking", "over"}]
         /\ DOMAIN outcome' = Attempts
         /\ attempt'[c] = "over" /\ outcome'[c] = result
         /\ \A d \in Attempts \ {c} : attempt'[d] = attempt[d] /\ outcome'[d] = outcome[d]
<1>1. /\ attempt' = [attempt EXCEPT ![c] = "over"]
      /\ attempt \in [Attempts -> {"idle", "connecting", "handshaking", "over"}]
      /\ outcome' = [outcome EXCEPT ![c] = result] /\ DOMAIN outcome = Attempts
  BY DEF Return, TypeOK
<1> QED
  BY <1>1

\* A connection that goes down.
LEMMA DownFacts ==
  ASSUME TypeOK, NEW c \in Attempts, link' = [link EXCEPT ![c].up = FALSE]
  PROVE  /\ link' \in [Attempts -> Links]
         /\ ~link'[c].up /\ link'[c].stage = link[c].stage /\ link'[c].offered = link[c].offered
         /\ \A d \in Attempts \ {c} : link'[d] = link[d]
BY DEF TypeOK, Links

\* The task's part is indifferent to the client's return and to the loss of the connection.
LEMMA TaskStays ==
  ASSUME NEW c \in Attempts, TaskKept(c), settings' = settings, config' = config,
         attempt'[c] \notin {"idle", "connecting"} \/ attempt'[c] = attempt[c]
           \/ attempt[c] \in {"idle", "connecting"},
         link'[c].stage = link[c].stage, link'[c].offered = link[c].offered,
         link'[c].up => link[c].up,
         task'[c] = task[c], cell'[c] = cell[c], accepted'[c] = accepted[c]
  PROVE  TaskKept(c)'
BY DEF TaskKept, Passes, Final, Named, Verifies

\* A call that returns an error.
LEMMA ErrorKeeps ==
  ASSUME IInv, NEW c \in Attempts, NEW error, error # "Ok", Return(c, Err(error)),
         link' = link \/ link' = [link EXCEPT ![c].up = FALSE],
         UNCHANGED <<settings, port, config, task, cell, accepted>>
  PROVE  Keeps(c)
<1>1. TypeOK /\ ClientKept(c) /\ TaskKept(c)
  BY DEF IInv
<1>2. /\ attempt' \in [Attempts -> {"idle", "connecting", "handshaking", "over"}]
      /\ DOMAIN outcome' = Attempts
      /\ attempt'[c] = "over" /\ outcome'[c] = Err(error)
      /\ \A d \in Attempts \ {c} : attempt'[d] = attempt[d] /\ outcome'[d] = outcome[d]
  BY <1>1, ReturnFacts
<1>3. /\ link' \in [Attempts -> Links]
      /\ link'[c].stage = link[c].stage /\ link'[c].offered = link[c].offered
      /\ link'[c].up => link[c].up
      /\ \A d \in Attempts \ {c} : link'[d] = link[d]
  <2>1. CASE link' = link
    BY <1>1, <2>1 DEF TypeOK
  <2>2. CASE link' = [link EXCEPT ![c].up = FALSE]
    BY <1>1, <2>2, DownFacts
  <2> QED
    BY <2>1, <2>2
<1>4. TypeOK'
  BY <1>1, <1>2, <1>3 DEF TypeOK
<1>5. ClientKept(c)'
  BY SMTT(30), <1>2 DEF ClientKept, Err
<1>6. TaskKept(c)'
  BY <1>1, <1>2, <1>3, TaskStays
<1> QED
  BY <1>2, <1>3, <1>4, <1>5, <1>6 DEF Keeps, Same

\* A call that returns a transport, the task and the link untouched.
LEMMA ReturnKeeps ==
  ASSUME IInv, NEW c \in Attempts, NEW result, Return(c, result), DOMAIN port' = Attempts,
         \A d \in Attempts \ {c} : port'[d] = port[d],
         settings[c].how = "tls" => result.is # "Ok",
         settings[c].how = "serial" /\ result.is = "Ok" =>
           SerialOpened(settings[c].config, result, port'[c]),
         UNCHANGED <<settings, link, config, task, cell, accepted>>
  PROVE  Keeps(c)
<1>1. TypeOK /\ TaskKept(c)
  BY DEF IInv
<1>2. /\ attempt' \in [Attempts -> {"idle", "connecting", "handshaking", "over"}]
      /\ DOMAIN outcome' = Attempts
      /\ attempt'[c] = "over" /\ outcome'[c] = result
      /\ \A d \in Attempts \ {c} : attempt'[d] = attempt[d] /\ outcome'[d] = outcome[d]
  BY <1>1, ReturnFacts
<1>3. TypeOK'
  BY <1>1, <1>2 DEF TypeOK
<1>4. ClientKept(c)'
  BY <1>2 DEF ClientKept
<1>5. TaskKept(c)'
  BY <1>1, <1>2, TaskStays
<1> QED
  BY <1>2, <1>3, <1>4, <1>5 DEF Keeps, Same

-----------------------------------------------------------------------------
(* The steps of a client.                                                   *)

LEMMA RefuseKeeps ==
  ASSUME IInv, NEW c \in Attempts, Refuse(c)
  PROVE  Keeps(c)
<1>1. PICK runtime \in RuntimeErrors(settings[c]) : Return(c, Err(Refused(settings[c], runtime)))
  BY DEF Refuse
<1>2. runtime \in {"None", "Io", "BlockingInAsyncContext"}
  BY DEF RuntimeErrors
<1>3. Refused(settings[c], runtime) # "Ok"
  BY <1>2 DEF Refused
<1>4. UNCHANGED <<settings, port, link, config, task, cell, accepted>>
  BY DEF Refuse, server
<1> QED
  BY <1>1, <1>3, <1>4, ErrorKeeps

LEMMA OpenSerialKeeps ==
  ASSUME IInv, NEW c \in Attempts, OpenSerial(c)
  PROVE  Keeps(c)
<1> DEFINE rs485 == settings[c].config.rs485
           Opened == [is |-> "Ok", transport |-> TransportFromSerial(settings[c].config)]
<1>1. /\ attempt[c] = "idle" /\ settings[c].how = "serial"
      /\ UNCHANGED <<settings, link, config, task, cell, accepted>>
  BY DEF OpenSerial, Allowed, server
<1>2. port[c] = NoRs485 /\ DOMAIN port = Attempts
  BY <1>1 DEF IInv, ClientKept, TypeOK
<1>3. \/ \E error \in {"Io", "Configuration", "Rs485Unsupported"} : Return(c, Err(error)) /\ port' = port
      \/ rs485 = NoRs485 /\ Return(c, Opened) /\ port' = port
      \/ /\ rs485 # NoRs485 /\ Return(c, Opened) /\ port' = [port EXCEPT ![c] = KernelRs485(rs485)]
         /\ FitsU32(rs485.delay_before_send) /\ FitsU32(rs485.delay_after_send)
  BY DEF OpenSerial, IoctlErrors, Rs485Error
<1>4. ASSUME NEW error \in {"Io", "Configuration", "Rs485Unsupported"}, Return(c, Err(error)),
             port' = port
      PROVE  Keeps(c)
  BY <1>1, <1>4, ErrorKeeps
<1>5. /\ settings[c].config.baud_rate # 0
      /\ Opened.transport = TransportFromSerial(settings[c].config)
  <2>1. PICK runtime \in RuntimeErrors(settings[c]) : Refused(settings[c], runtime) = "None"
    BY DEF OpenSerial, Allowed
  <2> QED
    BY <1>1, <2>1 DEF Refused
<1>6. CASE rs485 = NoRs485 /\ Return(c, Opened) /\ port' = port
  <2>1. SerialOpened(settings[c].config, Opened, port'[c])
    BY <1>2, <1>5, <1>6 DEF SerialOpened
  <2> QED
    BY <1>1, <1>2, <1>6, <2>1, ReturnKeeps
<1>7. CASE /\ rs485 # NoRs485 /\ Return(c, Opened) /\ port' = [port EXCEPT ![c] = KernelRs485(rs485)]
           /\ FitsU32(rs485.delay_before_send) /\ FitsU32(rs485.delay_after_send)
  <2>1. /\ DOMAIN port' = Attempts /\ port'[c] = KernelRs485(rs485)
        /\ \A d \in Attempts \ {c} : port'[d] = port[d]
    BY <1>2, <1>7
  <2>2. SerialOpened(settings[c].config, Opened, port'[c])
    BY <1>5, <1>7, <2>1 DEF SerialOpened
  <2> QED
    BY <1>1, <1>7, <2>1, <2>2, ReturnKeeps
<1> QED
  BY <1>3, <1>4, <1>6, <1>7

LEMMA ConnectUdpKeeps ==
  ASSUME IInv, NEW c \in Attempts, ConnectUdp(c)
  PROVE  Keeps(c)
<1>1. /\ settings[c].how = "udp" /\ UNCHANGED <<settings, port, link, config, task, cell, accepted>>
      /\ \E result \in {Err("Io"), [is |-> "Ok", transport |-> TransportDefault]} : Return(c, result)
  BY DEF ConnectUdp, server
<1>2. DOMAIN port = Attempts
  BY DEF IInv, TypeOK
<1> QED
  BY <1>1, <1>2, ReturnKeeps

LEMMA StartTcpKeeps ==
  ASSUME IInv, NEW c \in Attempts, StartTcp(c)
  PROVE  Keeps(c)
<1>1. /\ attempt[c] = "idle" /\ settings[c].how \in {"tcp", "tls"}
      /\ attempt' = [attempt EXCEPT ![c] = "connecting"]
      /\ UNCHANGED <<settings, outcome, port, link, config, task, cell, accepted>>
  BY DEF StartTcp, Allowed, server
<1>2. TypeOK /\ ClientKept(c) /\ TaskKept(c)
  BY DEF IInv
<1>3. /\ attempt' \in [Attempts -> {"idle", "connecting", "handshaking", "over"}]
      /\ attempt'[c] = "connecting" /\ \A d \in Attempts \ {c} : attempt'[d] = attempt[d]
  BY <1>1, <1>2 DEF TypeOK
<1>4. TypeOK'
  BY <1>1, <1>2, <1>3 DEF TypeOK
<1>5. ClientKept(c)'
  BY <1>1, <1>2, <1>3 DEF ClientKept, Trusts
<1>6. TaskKept(c)'
  BY <1>1, <1>2, <1>3, TaskStays
<1> QED
  BY <1>1, <1>3, <1>4, <1>5, <1>6 DEF Keeps, Same

\* What ends an attempt with an error: TcpFails, HandshakeBroken, Expire and Abandon.
LEMMA GivingUpKeeps ==
  ASSUME IInv, NEW c \in Attempts,
         TcpFails(c) \/ HandshakeBroken(c) \/ Expire(c) \/ Abandon(c)
  PROVE  Keeps(c)
<1>1. \E error \in {"Io", "TlsHandshake", "Timeout", "abandoned"} : Return(c, Err(error))
  BY DEF TcpFails, HandshakeBroken, Expire, Abandon
<1>2. link' = link \/ link' = [link EXCEPT ![c].up = FALSE]
  BY DEF TcpFails, HandshakeBroken, Expire, Abandon
<1>3. UNCHANGED <<settings, port, config, task, cell, accepted>>
  BY DEF TcpFails, HandshakeBroken, Expire, Abandon, server
<1> QED
  BY <1>1, <1>2, <1>3, ErrorKeeps

LEMMA TcpConnectedKeeps ==
  ASSUME IInv, NEW c \in Attempts, TcpConnected(c)
  PROVE  Keeps(c)
<1> DEFINE Fresh == [up |-> TRUE, stage |-> IF settings[c].how = "tls" THEN 1 ELSE 0,
                     offered |-> NoCert]
<1>1. /\ attempt[c] = "connecting" /\ link' = [link EXCEPT ![c] = Fresh]
      /\ task' = [task EXCEPT ![c] = "backlog"]
      /\ UNCHANGED <<settings, port, config, cell, accepted>>
  BY DEF TcpConnected
<1>2. TypeOK /\ ClientKept(c) /\ TaskKept(c)
  BY DEF IInv
<1>3. Fresh \in Links
  BY DEF Links, Offers
<1>4. /\ link' \in [Attempts -> Links] /\ link'[c] = Fresh
      /\ \A d \in Attempts \ {c} : link'[d] = link[d]
  BY <1>1, <1>2, <1>3 DEF TypeOK
<1>5. /\ task' \in [Attempts -> {"none", "backlog", "handshake", "passed", "rejected", "over"}]
      /\ task'[c] = "backlog" /\ \A d \in Attempts \ {c} : task'[d] = task[d]
  BY <1>1, <1>2 DEF TypeOK
<1>6. /\ attempt' \in [Attempts -> {"idle", "connecting", "handshaking", "over"}]
      /\ DOMAIN outcome' = Attempts
      /\ \A d \in Attempts \ {c} : attempt'[d] = attempt[d] /\ outcome'[d] = outcome[d]
      /\ settings[c].how = "tls" => attempt'[c] = "handshaking" /\ outcome'[c] = outcome[c]
      /\ settings[c].how # "tls" => attempt'[c] = "over"
  <2>1. CASE settings[c].how = "tls"
    <3>1. attempt' = [attempt EXCEPT ![c] = "handshaking"] /\ outcome' = outcome
      BY <2>1 DEF TcpConnected
    <3> QED
      BY <1>2, <2>1, <3>1 DEF TypeOK
  <2>2. CASE settings[c].how # "tls"
    <3>1. Return(c, [is |-> "Ok", transport |-> TransportDefault])
      BY <2>2 DEF TcpConnected
    <3> QED
      BY <1>2, <2>2, <3>1, ReturnFacts
  <2> QED
    BY <2>1, <2>2
<1>7. TypeOK'
  BY <1>1, <1>2, <1>4, <1>5, <1>6 DEF TypeOK
<1>8. ClientKept(c)'
  BY <1>1, <1>2, <1>6 DEF ClientKept, Pending
<1>9. TaskKept(c)'
  <2>1. task[c] = "none" /\ accepted[c] = Pending /\ cell[c] = NoCert
    BY <1>1, <1>2 DEF TaskKept
  <2>2. link'[c].stage \notin {3, 4} /\ attempt'[c] \notin {"idle", "connecting"}
    BY SMTT(30), <1>4, <1>6
  <2> QED
    BY <1>1, <1>5, <2>1, <2>2 DEF TaskKept
<1> QED
  BY <1>1, <1>4, <1>5, <1>6, <1>7, <1>8, <1>9 DEF Keeps, Same

LEMMA VerifyServerKeeps ==
  ASSUME IInv, NEW c \in Attempts, VerifyServer(c)
  PROVE  Keeps(c)
<1> DEFINE answer == IF config.policy = "None" THEN NoCert ELSE settings[c].identity
<1>1. /\ attempt[c] = "handshaking" /\ link[c].up /\ link[c].stage = 2
      /\ UNCHANGED <<settings, port, config, task, cell, accepted>>
  BY DEF VerifyServer, server
<1>2. TypeOK /\ ClientKept(c) /\ TaskKept(c)
  BY DEF IInv
<1>3. CASE ~Trusts(settings[c])
  <2>1. link' = [link EXCEPT ![c].up = FALSE] /\ Return(c, Err("TlsHandshake"))
    BY <1>3 DEF VerifyServer
  <2> QED
    BY <1>1, <2>1, ErrorKeeps
<1>4. CASE Trusts(settings[c])
  <2>1. /\ link' = [link EXCEPT ![c].stage = 3, ![c].offered = answer]
        /\ Return(c, [is |-> "Ok", transport |-> TransportDefault])
    BY <1>4 DEF VerifyServer
  <2>2. settings \in Settings /\ settings[c].how = "tls"
    BY <1>1, <1>2 DEF TypeOK, ClientKept
  <2>3. answer \in Offers
    BY SMTT(30), <2>2 DEF Offers
  <2>4. /\ link' \in [Attempts -> Links] /\ link'[c].stage = 3 /\ link'[c].offered = answer
        /\ \A d \in Attempts \ {c} : link'[d] = link[d]
    <3>1. PICK a : a = answer
      OBVIOUS
    <3>2. link \in [Attempts -> Links] /\ a \in Offers
      BY <1>2, <2>3, <3>1 DEF TypeOK
    <3>3. link' = [link EXCEPT ![c].stage = 3, ![c].offered = a]
      BY <2>1, <3>1
    <3> HIDE DEF answer
    <3>4. PICK was : was = [link EXCEPT ![c].stage = 3]
      OBVIOUS
    <3>5. /\ was \in [Attempts -> Links] /\ was[c].stage = 3
          /\ \A d \in Attempts \ {c} : was[d] = link[d]
      BY SMTT(30), <3>2, <3>4 DEF Links
    <3>6. link' = [was EXCEPT ![c].offered = a]
      BY <3>3, <3>4, Zenon
    <3> QED
      BY SMTT(30), <3>1, <3>2, <3>5, <3>6 DEF Links
  <2>5. /\ attempt' \in [Attempts -> {"idle", "connecting", "handshaking", "over"}]
        /\ DOMAIN outcome' = Attempts /\ attempt'[c] = "over"
        /\ \A d \in Attempts \ {c} : attempt'[d] = attempt[d] /\ outcome'[d] = outcome[d]
    BY <1>2, <2>1, ReturnFacts
  <2>6. TypeOK'
    BY <1>1, <1>2, <2>4, <2>5 DEF TypeOK
  <2>7. ClientKept(c)'
    BY <1>1, <1>4, <2>2, <2>5 DEF ClientKept, Trusts
  <2>8. TaskKept(c)'
    <3>1. /\ task[c] \notin {"passed", "rejected"}
          /\ task[c] = "over" => accepted[c].is \notin {"Ok", "TlsHandshake"}
      BY <1>1, <1>2 DEF TaskKept, Passes, Final
    <3> QED
      BY <1>1, <1>2, <2>4, <2>5, <3>1 DEF TaskKept
  <2> QED
    BY <1>1, <2>4, <2>5, <2>6, <2>7, <2>8 DEF Keeps, Same
<1> QED
  BY <1>3, <1>4

LEMMA BreakKeeps ==
  ASSUME IInv, NEW c \in Attempts, Break(c)
  PROVE  Keeps(c)
<1>1. /\ link' = [link EXCEPT ![c].up = FALSE]
      /\ UNCHANGED <<settings, attempt, outcome, port, config, task, cell, accepted>>
  BY DEF Break, client, server
<1>2. TypeOK /\ ClientKept(c) /\ TaskKept(c)
  BY DEF IInv
<1>3. /\ link' \in [Attempts -> Links]
      /\ ~link'[c].up /\ link'[c].stage = link[c].stage /\ link'[c].offered = link[c].offered
      /\ \A d \in Attempts \ {c} : link'[d] = link[d]
  BY <1>1, <1>2, DownFacts
<1>4. TypeOK'
  BY <1>1, <1>2, <1>3 DEF TypeOK
<1>5. ClientKept(c)'
  BY <1>1, <1>2 DEF ClientKept, Trusts
<1>6. TaskKept(c)'
  BY <1>1, <1>2, <1>3, TaskStays
<1> QED
  BY <1>1, <1>3, <1>4, <1>5, <1>6 DEF Keeps, Same

-----------------------------------------------------------------------------
(* The steps of a task.                                                     *)

\* The client's part is indifferent to the server's steps.
LEMMA ClientStays ==
  ASSUME NEW c \in Attempts, ClientKept(c), UNCHANGED client
  PROVE  ClientKept(c)'
BY DEF ClientKept, Trusts, client

\* A task that moves on to a step of its own.
LEMMA TaskMoves ==
  ASSUME TypeOK, NEW c \in Attempts,
         NEW to \in {"none", "backlog", "handshake", "passed", "rejected", "over"},
         task' = [task EXCEPT ![c] = to]
  PROVE  /\ task' \in [Attempts -> {"none", "backlog", "handshake", "passed", "rejected", "over"}]
         /\ task'[c] = to /\ \A d \in Attempts \ {c} : task'[d] = task[d]
BY DEF TypeOK

LEMMA AcceptKeeps ==
  ASSUME IInv, NEW c \in Attempts, Accept(c)
  PROVE  Keeps(c)
<1>1. /\ task[c] = "backlog" /\ task' = [task EXCEPT ![c] = "handshake"]
      /\ UNCHANGED client /\ UNCHANGED <<config, link, cell, accepted>>
  BY DEF Accept
<1>2. TypeOK /\ ClientKept(c) /\ TaskKept(c)
  BY DEF IInv
<1>3. /\ task' \in [Attempts -> {"none", "backlog", "handshake", "passed", "rejected", "over"}]
      /\ task'[c] = "handshake" /\ \A d \in Attempts \ {c} : task'[d] = task[d]
  BY <1>1, <1>2, TaskMoves
<1>4. TypeOK'
  BY <1>1, <1>2, <1>3 DEF TypeOK, client
<1>5. TaskKept(c)'
  BY <1>1, <1>2, <1>3 DEF TaskKept, client
<1> QED
  BY <1>1, <1>2, <1>3, <1>4, <1>5, ClientStays DEF Keeps, Same, client

LEMMA ReplyKeeps ==
  ASSUME IInv, NEW c \in Attempts, Reply(c)
  PROVE  Keeps(c)
<1>1. /\ task[c] = "handshake" /\ link' = [link EXCEPT ![c].stage = 2]
      /\ UNCHANGED client /\ UNCHANGED <<config, task, cell, accepted>>
  BY DEF Reply, server
<1>2. TypeOK /\ ClientKept(c) /\ TaskKept(c)
  BY DEF IInv
<1>3. /\ link' \in [Attempts -> Links] /\ link'[c].stage = 2
      /\ \A d \in Attempts \ {c} : link'[d] = link[d]
  BY SMTT(30), <1>1, <1>2 DEF TypeOK, Links
<1>4. TypeOK'
  BY <1>1, <1>2, <1>3 DEF TypeOK, client
<1>5. TaskKept(c)'
  BY SMTT(30), <1>1, <1>2, <1>3 DEF TaskKept, client
<1> QED
  BY <1>1, <1>2, <1>3, <1>4, <1>5, ClientStays DEF Keeps, Same, client

LEMMA VerifyClientKeeps ==
  ASSUME IInv, NEW c \in Attempts, VerifyClient(c)
  PROVE  Keeps(c)
<1> DEFINE offered == link[c].offered
<1>1. /\ task[c] = "handshake" /\ link[c].stage = 3
      /\ cell' = [cell EXCEPT ![c] =
           IF config.policy = "Require" /\ offered \notin config.roots \cup {NoCert}
           THEN offered ELSE @]
      /\ link' = [link EXCEPT ![c].stage = 4]
      /\ UNCHANGED client /\ UNCHANGED <<config, accepted>>
  BY DEF VerifyClient, CellOf
<1>2. TypeOK /\ ClientKept(c) /\ TaskKept(c)
  BY DEF IInv
<1>3. PICK to \in {"passed", "rejected"} :
        /\ task' = [task EXCEPT ![c] = to]
        /\ to = "passed" => Verifies(offered) /\ (offered # NoCert => settings[c].signs)
  BY DEF VerifyClient
<1>4. /\ task' \in [Attempts -> {"none", "backlog", "handshake", "passed", "rejected", "over"}]
      /\ task'[c] = to /\ \A d \in Attempts \ {c} : task'[d] = task[d]
  BY <1>2, <1>3, TaskMoves
<1>5. DOMAIN cell' = Attempts /\ \A d \in Attempts \ {c} : cell'[d] = cell[d]
  BY <1>1, <1>2 DEF TypeOK
<1>6. cell[c] = NoCert
  BY <1>1, <1>2 DEF TaskKept
<1>7. cell'[c] = IF config.policy = "Require" /\ offered \notin config.roots \cup {NoCert}
                 THEN offered ELSE NoCert
  BY <1>1, <1>2, <1>6 DEF TypeOK
<1>8. /\ link' \in [Attempts -> Links] /\ link'[c].stage = 4 /\ link'[c].offered = offered
      /\ \A d \in Attempts \ {c} : link'[d] = link[d]
  BY SMTT(30), <1>1, <1>2 DEF TypeOK, Links
<1>9. TypeOK'
  BY <1>1, <1>2, <1>4, <1>5, <1>8 DEF TypeOK, client
<1>10. cell'[c] = Named(c)'
  BY <1>1, <1>7, <1>8 DEF Named
<1>11. to = "passed" => Passes(c)'
  BY <1>1, <1>3, <1>8 DEF Passes, Verifies, client
<1>12. TaskKept(c)'
  BY <1>1, <1>2, <1>4, <1>8, <1>10, <1>11 DEF TaskKept, Final, client
<1> QED
  BY <1>1, <1>2, <1>4, <1>5, <1>8, <1>9, <1>12, ClientStays DEF Keeps, Same, client

LEMMA HandshakeEofKeeps ==
  ASSUME IInv, NEW c \in Attempts, HandshakeEof(c)
  PROVE  Keeps(c)
<1>1. /\ task[c] = "handshake" /\ ~link[c].up
      /\ task' = [task EXCEPT ![c] = "rejected"]
      /\ UNCHANGED client /\ UNCHANGED <<config, link, cell, accepted>>
  BY DEF HandshakeEof
<1>2. TypeOK /\ ClientKept(c) /\ TaskKept(c)
  BY DEF IInv
<1>3. /\ task' \in [Attempts -> {"none", "backlog", "handshake", "passed", "rejected", "over"}]
      /\ task'[c] = "rejected" /\ \A d \in Attempts \ {c} : task'[d] = task[d]
  BY <1>1, <1>2, TaskMoves
<1>4. TypeOK'
  BY <1>1, <1>2, <1>3 DEF TypeOK, client
<1>5. Final(c)' /\ cell'[c] = Named(c)'
  BY SMTT(30), <1>1, <1>2 DEF TaskKept, Final, Named
<1>6. TaskKept(c)'
  BY <1>1, <1>2, <1>3, <1>5 DEF TaskKept, client
<1> QED
  BY <1>1, <1>2, <1>3, <1>4, <1>6, ClientStays DEF Keeps, Same, client

LEMMA HandshakeFramedKeeps ==
  ASSUME IInv, NEW c \in Attempts, HandshakeFramed(c)
  PROVE  Keeps(c)
<1> DEFINE result == IF task[c] = "passed" THEN [is |-> "Ok", cert |-> link[c].offered]
                     ELSE [is |-> "TlsHandshake", cert |-> cell[c]]
<1>1. /\ task[c] \in {"passed", "rejected"} /\ task' = [task EXCEPT ![c] = "over"]
      /\ accepted' = [accepted EXCEPT ![c] = result]
      /\ cell' = [cell EXCEPT ![c] = NoCert]
      /\ UNCHANGED client /\ config' = config
  BY DEF HandshakeFramed, CellOf
<1>2. TypeOK /\ ClientKept(c) /\ TaskKept(c)
  BY DEF IInv
<1>3. /\ task' \in [Attempts -> {"none", "backlog", "handshake", "passed", "rejected", "over"}]
      /\ task'[c] = "over" /\ \A d \in Attempts \ {c} : task'[d] = task[d]
  BY <1>1, <1>2, TaskMoves
<1>4. /\ DOMAIN accepted' = Attempts /\ DOMAIN cell' = Attempts
      /\ accepted'[c] = result
      /\ \A d \in Attempts \ {c} : accepted'[d] = accepted[d] /\ cell'[d] = cell[d]
  BY <1>1, <1>2 DEF TypeOK
<1>5. /\ link' \in [Attempts -> Links]
      /\ link'[c].stage = link[c].stage /\ link'[c].offered = link[c].offered
      /\ link'[c].up => link[c].up
      /\ \A d \in Attempts \ {c} : link'[d] = link[d]
  <2>1. link' = link \/ link' = [link EXCEPT ![c].up = FALSE]
    BY DEF HandshakeFramed
  <2>2. link \in [Attempts -> Links]
    BY <1>2 DEF TypeOK
  <2> QED
    BY <1>2, <2>1, <2>2, DownFacts
<1>6. TypeOK'
  BY <1>1, <1>2, <1>3, <1>4, <1>5 DEF TypeOK, client
<1>7. Named(c)' = Named(c) /\ (Passes(c) => Passes(c)') /\ (Final(c) => Final(c)')
  BY <1>1, <1>5 DEF Named, Passes, Final, Verifies, client
<1>8. /\ result.is = "Ok" => Passes(c) /\ result.cert = link[c].offered
      /\ result.is = "TlsHandshake" => Final(c) /\ result.cert = Named(c)
  BY <1>1, <1>2 DEF TaskKept
<1>9. TaskKept(c)'
  <2>1. /\ link'[c].stage \in {3, 4} =>
             link'[c].offered = IF config'.policy = "None" THEN NoCert ELSE settings'[c].identity
        /\ attempt'[c] \notin {"idle", "connecting"}
    BY <1>1, <1>2, <1>5 DEF TaskKept, client
  <2> QED
    BY <1>3, <1>4, <1>5, <1>7, <1>8, <2>1 DEF TaskKept
<1> QED
  BY <1>1, <1>2, <1>3, <1>4, <1>5, <1>6, <1>9, ClientStays DEF Keeps, Same, client

-----------------------------------------------------------------------------
LEMMA InitOK == Init => IInv
<1> SUFFICES ASSUME Init PROVE IInv
  OBVIOUS
<1>1. NoCert \in Offers
  BY DEF Offers
<1>2. TypeOK
  BY <1>1 DEF Init, TypeOK, Links
<1>3. ASSUME NEW c \in Attempts PROVE ClientKept(c) /\ TaskKept(c)
  BY DEF Init, ClientKept, TaskKept, Pending
<1> QED
  BY <1>2, <1>3 DEF IInv

LEMMA NextKeeps ==
  ASSUME IInv, [Next]_vars
  PROVE  IInv'
<1>1. ASSUME NEW c \in Attempts,
             \/ Refuse(c) \/ OpenSerial(c) \/ ConnectUdp(c) \/ StartTcp(c) \/ TcpFails(c)
             \/ TcpConnected(c) \/ VerifyServer(c) \/ HandshakeBroken(c) \/ Expire(c) \/ Abandon(c)
             \/ Break(c)
             \/ Accept(c) \/ Reply(c) \/ VerifyClient(c) \/ HandshakeEof(c) \/ HandshakeFramed(c)
      PROVE  IInv'
  <2>1. Keeps(c)
    BY <1>1, RefuseKeeps, OpenSerialKeeps, ConnectUdpKeeps, StartTcpKeeps, GivingUpKeeps,
       TcpConnectedKeeps, VerifyServerKeeps, BreakKeeps, AcceptKeeps, ReplyKeeps,
       VerifyClientKeeps, HandshakeEofKeeps, HandshakeFramedKeeps
  <2> QED
    BY <2>1, StepKeeps
<1>2. ASSUME UNCHANGED <<settings, attempt, outcome, port, config, link, task, cell, accepted>>
      PROVE  IInv'
  <2>1. TypeOK'
    BY <1>2 DEF IInv, TypeOK
  <2>2. ASSUME NEW c \in Attempts PROVE ClientKept(c)' /\ TaskKept(c)'
    BY <1>2, OthersKept DEF IInv, Same
  <2> QED
    BY <2>1, <2>2 DEF IInv
<1>3. Bind \/ UNCHANGED vars =>
        UNCHANGED <<settings, attempt, outcome, port, config, link, task, cell, accepted>>
  BY DEF Bind, client, vars
<1> QED
  BY <1>1, <1>2, <1>3 DEF Next

LEMMA Invariance == Spec => []IInv
<1>1. IInv /\ [Next]_vars => IInv'
  BY NextKeeps
<1> QED
  BY <1>1, InitOK, PTL DEF Spec

\* The attempts and their connections stay well typed.
THEOREM ConnectTypeCorrect == Spec => []TypeOK
<1>1. IInv => TypeOK
  BY DEF IInv
<1> QED
  BY <1>1, Invariance, PTL

\* A failed handshake names the certificate that was rejected in it, and no other handshake's,
\* however many run at a time: the cell verify_client_cert writes is the task's own (TR-R-069).
THEOREM CertificatesAreOwn == Spec => []OwnCertificate
<1>1. IInv => OwnCertificate
  <2> SUFFICES ASSUME IInv, NEW c \in Attempts, accepted[c].is = "TlsHandshake"
               PROVE  accepted[c].cert = Named(c)
    BY DEF OwnCertificate, Named
  <2> QED
    BY SMTT(30) DEF IInv, TaskKept, Pending
<1> QED
  BY <1>1, Invariance, PTL

\* Whoever holds a transport has verified the other side as configured (TR-R-065, TR-R-066),
\* whatever breaks, expires or is dropped between the steps of the handshake.
THEOREM TransportsAreAuthenticated == Spec => []AuthenticatedAsConfigured
<1>1. IInv => AuthenticatedAsConfigured
  <2> SUFFICES ASSUME IInv, NEW c \in Attempts
               PROVE  /\ settings[c].how = "tls" /\ outcome[c].is = "Ok" => Trusts(settings[c])
                      /\ accepted[c].is = "Ok" =>
                           /\ config.policy = "Require" =>
                                /\ accepted[c].cert \in config.roots
                                /\ accepted[c].cert = settings[c].identity
                           /\ config.policy = "AllowAny" => accepted[c].cert # NoCert
                           /\ accepted[c].cert # NoCert => settings[c].signs
    BY DEF AuthenticatedAsConfigured, Trusts
  <2>1. settings[c].how = "tls" /\ outcome[c].is = "Ok" => Trusts(settings[c])
    BY DEF IInv, ClientKept
  <2>2. ASSUME accepted[c].is = "Ok"
        PROVE  /\ Passes(c) /\ accepted[c].cert = link[c].offered
               /\ link[c].offered =
                    IF config.policy = "None" THEN NoCert ELSE settings[c].identity
    BY SMTT(30), <2>2 DEF IInv, TaskKept, Passes, Pending
  <2> QED
    BY <2>1, <2>2 DEF Passes, Verifies
<1> QED
  BY <1>1, Invariance, PTL

\* truncate_to_millis loses less than a millisecond, and nothing of a delay that passes its check.
LEMMA MillisAreAsAsked ==
  ASSUME NEW delay \in Duration, FitsU32(delay)
  PROVE  DelayAsAsked(Millis(delay), delay)
<1>1. PICK n \in Nat : n = delay.nanos
  <2>1. delay.nanos \in Nat
    BY SMTT(30) DEF Duration
  <2> QED
    BY <2>1
<1>2. (n \div 1000000) * 1000000 <= n /\ n < ((n \div 1000000) + 1) * 1000000
  BY SMTT(30)
<1>3. Millis(delay).secs = delay.secs /\ Millis(delay).millis = n \div 1000000
  BY SMTT(30), <1>1 DEF Millis
<1> QED
  BY SMTT(30), <1>1, <1>2, <1>3 DEF DelayAsAsked, FitsU32

\* What a whole division leaves.
LEMMA DivisionFacts ==
  ASSUME NEW m \in Nat, NEW n \in Nat \ {0}
  PROVE  /\ m \div n \in Int
         /\ (m \div n) * n <= m /\ m < ((m \div n) + 1) * n
BY SMTT(30)

\* inter_frame_interval is the silence of every line that has a character time.
LEMMA IntervalIsSilence ==
  ASSUME NEW line \in SerialConfig, line.baud_rate # 0
  PROVE  SilenceOfLine(InterFrameInterval(line), line)
<1>1. PICK baud \in Nat \ {0}, bits \in Nat :
        /\ baud = line.baud_rate /\ bits = BitsPerCharacter(line)
        /\ bits = line.data_bits + line.stop_bits + (IF line.parity = "None" THEN 1 ELSE 2)
  <2>1. /\ line.baud_rate \in Nat \ {0} /\ line.data_bits \in 5..8 /\ line.stop_bits \in 1..2
    BY SMTT(30) DEF SerialConfig
  <2>2. PICK data \in 5..8, stop \in 1..2 : data = line.data_bits /\ stop = line.stop_bits
    BY SMTT(30), <2>1
  <2>3. /\ BitsPerCharacter(line) = 1 + data + (IF line.parity = "None" THEN 0 ELSE 1) + stop
        /\ 1 + data + (IF line.parity = "None" THEN 0 ELSE 1) + stop =
             data + stop + (IF line.parity = "None" THEN 1 ELSE 2)
        /\ data + stop + (IF line.parity = "None" THEN 1 ELSE 2) \in Nat
    BY SMTT(30), <2>2 DEF BitsPerCharacter
  <2> QED
    BY SMTT(30), <2>1, <2>2, <2>3
<1>2. CASE baud > 19200
  BY SMTT(30), <1>1, <1>2 DEF SilenceOfLine, InterFrameInterval, FIXED_INTERVAL_ABOVE_BAUD, FIXED_INTERVAL
<1>3. CASE ~(baud > 19200)
  <2>1. PICK t \in Int : t = (bits * 3500000) \div baud /\ t = InterFrameInterval(line)
    BY SMTT(30), <1>1, <1>3, DivisionFacts DEF InterFrameInterval, FIXED_INTERVAL_ABOVE_BAUD
  <2>2. bits * 3500000 \in Nat
    BY SMTT(30)
  <2>3. t * baud <= bits * 3500000 /\ bits * 3500000 < (t + 1) * baud
    BY SMTT(30), <2>1, <2>2, DivisionFacts
  <2>4. 2 * (t * baud) <= 7000000 * bits /\ 7000000 * bits < 2 * ((t + 1) * baud)
    <3>1. PICK low \in Int, high \in Int : low = t * baud /\ high = (t + 1) * baud
      BY SMTT(30)
    <3> QED
      BY SMTT(30), <2>3, <3>1
  <2> QED
    BY SMTT(30), <1>1, <1>3, <2>1, <2>4 DEF SilenceOfLine
<1> QED
  BY SMTT(30), <1>2, <1>3

\* A serial transport waits for the silence of its line; one that asked for RS-485 is on a port
\* whose driver drives the direction as asked; one that did not is on a port that was left alone
\* (TR-R-011, TR-R-053, TR-R-057).
THEOREM DirectionIsControlled == Spec => []DirectionControlled
<1>1. IInv => DirectionControlled
  <2> SUFFICES ASSUME IInv, NEW c \in Attempts, settings[c].how = "serial", outcome[c].is = "Ok",
                      NEW line, line = settings[c].config, NEW rs485, rs485 = line.rs485
               PROVE  /\ SilenceOfLine(outcome[c].transport.inter_frame_interval, line)
                      /\ rs485 = NoRs485 => port[c] = NoRs485
                      /\ rs485 # NoRs485 =>
                           /\ port[c] # NoRs485 /\ "ENABLED" \in port[c].flags
                           /\ ("RTS_ON_SEND" \in port[c].flags) = (rs485.rts_on_send = "High")
                           /\ ("RTS_AFTER_SEND" \in port[c].flags) = (rs485.rts_on_send = "Low")
                           /\ DelayAsAsked(port[c].before, rs485.delay_before_send)
                           /\ DelayAsAsked(port[c].after, rs485.delay_after_send)
    BY SMTT(30) DEF DirectionControlled
  <2>1. SerialOpened(line, outcome[c], port[c])
    BY DEF IInv, ClientKept
  <2>2. line \in SerialConfig /\ rs485 \in Rs485Config
    <3>1. settings \in Settings
      BY DEF IInv, TypeOK
    <3>2. line \in SerialConfig
      BY <3>1, ConnectAssumption
    <3> QED
      BY <3>2 DEF SerialConfig
  <2>3. SilenceOfLine(outcome[c].transport.inter_frame_interval, line)
    <3>1. outcome[c].transport.inter_frame_interval = InterFrameInterval(line)
      BY <2>1 DEF SerialOpened, TransportFromSerial
    <3> QED
      BY <2>1, <2>2, <3>1, IntervalIsSilence DEF SerialOpened
  <2>4. CASE rs485 # NoRs485
    <3>1. /\ rs485.rts_on_send \in {"High", "Low"}
          /\ rs485.delay_before_send \in Duration /\ rs485.delay_after_send \in Duration
      BY <2>2, <2>4 DEF Rs485Config
    <3>2. /\ port[c] = KernelRs485(rs485)
          /\ FitsU32(rs485.delay_before_send) /\ FitsU32(rs485.delay_after_send)
      BY <2>1, <2>4 DEF SerialOpened
    <3>3. port[c] # NoRs485
      <4>1. "flags" \in DOMAIN KernelRs485(rs485) /\ "flags" \notin DOMAIN NoRs485
        BY DEF KernelRs485, NoRs485
      <4> QED
        BY <3>2, <4>1
    <3>4. /\ port[c].flags = {"ENABLED", IF rs485.rts_on_send = "High" THEN "RTS_ON_SEND"
                                          ELSE "RTS_AFTER_SEND"}
          /\ port[c].before = Millis(rs485.delay_before_send)
          /\ port[c].after = Millis(rs485.delay_after_send)
      BY <3>2 DEF KernelRs485
    <3>5. "ENABLED" \in port[c].flags
      BY <3>4
    <3>6. ("RTS_ON_SEND" \in port[c].flags) = (rs485.rts_on_send = "High")
      BY <3>4
    <3>7. ("RTS_AFTER_SEND" \in port[c].flags) = (rs485.rts_on_send = "Low")
      BY SMTT(30), <3>1, <3>4
    <3>8. /\ DelayAsAsked(port[c].before, rs485.delay_before_send)
          /\ DelayAsAsked(port[c].after, rs485.delay_after_send)
      BY <3>1, <3>2, <3>4, MillisAreAsAsked
    <3> QED
      BY <2>3, <2>4, <3>3, <3>5, <3>6, <3>7, <3>8
  <2>5. CASE rs485 = NoRs485
    BY <2>1, <2>3, <2>5 DEF SerialOpened
  <2> QED
    BY <2>4, <2>5
<1> QED
  BY <1>1, Invariance, PTL

=============================================================================
