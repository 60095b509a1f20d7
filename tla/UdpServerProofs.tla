--------------------------- MODULE UdpServerProofs ---------------------------
(***************************************************************************)
(* The safety of serving a UDP socket, for any number of datagrams, any    *)
(* size of the socket's buffer and any errors of its receives.             *)
(***************************************************************************)
EXTENDS UdpServer, TLAPS

\* A leaf that names no prover is for Zenon, or else for the SMT solver.
USE ZenonT(5), SMTT(30)

-----------------------------------------------------------------------------
(* The inductive invariant.                                                 *)

\* The loop's receiver of the shutdown signal lives as long as the loop, and the tasks live no
\* longer, unless a dropped loop has left them behind: the one fact by which a closed channel
\* means that nothing else is handled.
ReceiverOutlivesTasks ==
  /\ subscribed = (serving \notin {"created", "returned", "dropped"})
  /\ serving # "dropped" => orphans = {}
  /\ InFlight \subseteq orphans \/ subscribed

\* A completed shutdown leaves nothing in flight; a loop that starts after it looks at
\* the flag before it receives, and so never takes a datagram up.
ShutdownIsLasting ==
  /\ waiter # "none" => shutdown
  /\ waiter = "returned" =>
       /\ InFlight \subseteq orphans
       /\ serving \in {"created", "receiving", "draining", "returned", "dropped"}

\* What a receive of this target fails with, the datagram that does not fit included.
ReceiveErrors ==
  SocketErrors[target] \cup (IF target = "windows" THEN {"WSAEMSGSIZE"} ELSE {})

\* The loop stops for a shutdown, or for an error of its own receive that the default
\* answer takes for fatal.
StopsAreFatal ==
  /\ serving \in {"on_receive_error", "hook"} => error \in ReceiveErrors
  /\ serving \in {"draining", "returned"} /\ ~overrides =>
       \/ shutdown
       \/ result = "err" /\ error \in ReceiveErrors /\ ListenerFailure(error, target) = "Fatal"

IInv == TypeOK /\ ReceiverOutlivesTasks /\ ShutdownIsLasting /\ StopsAreFatal

-----------------------------------------------------------------------------
(* Each kind of step preserves it.                                          *)

LEMMA InitOK == Init => IInv
<1> SUFFICES ASSUME Init PROVE IInv
  OBVIOUS
<1>1. TypeOK
  <2>1. error = "none" /\ errors \in 0..MaxErrors /\ Len(socket) <= SocketBuffer
    BY UdpServerAssumption DEF Init
  <2>2. socket \in Seq(Datagrams)
    BY DEF Init
  <2>3. stage \in [Datagrams -> Stages] /\ kind \in [Datagrams -> DatagramKinds \cup {"none"}]
    BY DEF Init, Stages
  <2> QED
    BY <2>1, <2>2, <2>3 DEF Init, TypeOK
<1>2. InFlight = {}
  BY DEF Init, InFlight, Running
<1> QED
  BY <1>1, <1>2 DEF Init, IInv, ReceiverOutlivesTasks, ShutdownIsLasting, StopsAreFatal

\* Only a Windows receive fails because a datagram does not fit.
LEMMA OnlyWindowsRefuses ==
  ASSUME TypeOK, NEW d \in Datagrams, Received(d) = {}
  PROVE  target = "windows"
<1>1. target \in {"unix", "windows"}
  BY UdpServerAssumption DEF TypeOK
<1>2. "own" \in DatagramKinds \ {"oversized"}
  BY DEF DatagramKinds
<1> QED
  BY <1>1, <1>2 DEF Received

\* Head and tail of what the operating system holds.
LEMMA SocketFacts ==
  ASSUME TypeOK, socket # <<>>
  PROVE  /\ Head(socket) \in Datagrams /\ Tail(socket) \in Seq(Datagrams)
         /\ Len(Tail(socket)) <= SocketBuffer
<1>1. socket \in Seq(Datagrams) /\ Len(socket) <= SocketBuffer /\ SocketBuffer \in Nat
  BY UdpServerAssumption DEF TypeOK
<1> QED
  BY <1>1

\* A step that gives a datagram a stage outside the tasks' starts no task.
LEMMA NoNewTask ==
  ASSUME TypeOK, NEW d \in Datagrams, NEW s \in Stages \ Running,
         stage' = [stage EXCEPT ![d] = s]
  PROVE  InFlight' \subseteq InFlight /\ stage' \in [Datagrams -> Stages]
BY DEF TypeOK, InFlight, Stages

\* The calls and the network.
LEMMA OutsideKeeps ==
  ASSUME IInv, \/ RequestShutdown \/ ShutdownReturns \/ \E d \in Datagrams : Arrive(d)
  PROVE  IInv'
<1>1. CASE RequestShutdown
  BY <1>1 DEF IInv, RequestShutdown, loopVars, TypeOK, ReceiverOutlivesTasks, ShutdownIsLasting,
              StopsAreFatal, ReceiveErrors, InFlight
<1>2. CASE ShutdownReturns
  BY <1>2 DEF IInv, ShutdownReturns, loopVars, TypeOK, ReceiverOutlivesTasks, ShutdownIsLasting,
              StopsAreFatal, ReceiveErrors, InFlight
<1>3. ASSUME NEW d \in Datagrams, Arrive(d) PROVE IInv'
  <2>1. PICK s \in {"queued", "dropped"} : stage' = [stage EXCEPT ![d] = s]
    BY <1>3 DEF Arrive
  <2>2. InFlight' \subseteq InFlight /\ stage' \in [Datagrams -> Stages]
    BY <2>1, NoNewTask DEF IInv, Stages, Running
  <2>3. TypeOK'
    <3>1. TypeOK /\ UNCHANGED <<loopVars, callVars, orphans>> /\ Kinds \subseteq DatagramKinds
      BY <1>3, UdpServerAssumption DEF IInv, Arrive
    <3>2. socket' \in Seq(Datagrams) /\ Len(socket') <= SocketBuffer
      <4>1. socket \in Seq(Datagrams) /\ Len(socket) <= SocketBuffer /\ SocketBuffer \in Nat
        BY <3>1, UdpServerAssumption DEF TypeOK
      <4>2. \/ Len(socket) < SocketBuffer /\ socket' = Append(socket, d)
            \/ socket' = socket
        BY <1>3 DEF Arrive
      <4> QED
        BY <4>1, <4>2
    <3>3. kind' \in [Datagrams -> DatagramKinds \cup {"none"}]
      BY <1>3, <3>1 DEF Arrive, TypeOK
    <3>4. /\ shutdown' = shutdown /\ subscribed' = subscribed /\ waiter' = waiter
          /\ serving' = serving /\ result' = result /\ target' = target
          /\ overrides' = overrides /\ errors' = errors /\ error' = error
          /\ orphans' = orphans
      BY <3>1 DEF loopVars, callVars
    <3> QED
      BY <2>2, <3>1, <3>2, <3>3, <3>4, ZenonT(30) DEF TypeOK
  <2> QED
    BY <1>3, <2>2, <2>3 DEF IInv, Arrive, loopVars, callVars, ReceiverOutlivesTasks,
                            ShutdownIsLasting, StopsAreFatal, ReceiveErrors
<1> QED
  BY <1>1, <1>2, <1>3

\* The loop, but for what it receives.
LEMMA LoopKeeps ==
  ASSUME IInv, \/ ServeUdp \/ Poll \/ Pending \/ DecodeErrorReported \/ HookAnswers \/ Drained
  PROVE  IInv'
<1> USE DEF IInv, TypeOK, ReceiverOutlivesTasks, ShutdownIsLasting, StopsAreFatal, ReceiveErrors,
            InFlight, serviceVars, callVars
<1>1. CASE ServeUdp
  BY <1>1 DEF ServeUdp
<1>2. CASE Poll
  BY <1>2 DEF Poll
<1>3. CASE Pending
  BY <1>3 DEF Pending
<1>4. CASE DecodeErrorReported
  BY <1>4 DEF DecodeErrorReported
<1>5. CASE HookAnswers
  BY <1>5 DEF HookAnswers, AcceptErrorAction, OnReceiveError, ListenerFailure, Classify
<1>6. CASE Drained
  BY <1>6 DEF Drained
<1> QED
  BY <1>1, <1>2, <1>3, <1>4, <1>5, <1>6

LEMMA ReceiveKeeps ==
  ASSUME IInv, Receive
  PROVE  IInv'
<1>1. PICK d \in Datagrams : d = Head(socket) /\ socket' = Tail(socket)
  BY SocketFacts DEF IInv, Receive
<1>2. socket' \in Seq(Datagrams) /\ Len(socket') <= SocketBuffer
  BY <1>1, SocketFacts DEF IInv, Receive
<1>3. PICK k \in Received(d) :
        /\ kind' = [kind EXCEPT ![d] = k]
        /\ \/ serving' = "receiving" /\ stage' = [stage EXCEPT ![d] = "filtering"]
           \/ serving' = "on_error" /\ stage' = [stage EXCEPT ![d] = "refused"]
  BY <1>1, Zenon DEF Receive
<1>4. k \in DatagramKinds \cup {"none"}
  BY <1>3 DEF Received, IInv, TypeOK
<1>5. stage' \in [Datagrams -> Stages]
  BY <1>3 DEF IInv, TypeOK, Stages, Running
<1>6. TypeOK'
  BY ZenonT(30), <1>2, <1>3, <1>4, <1>5 DEF IInv, TypeOK, Receive, serviceVars, callVars
<1>7. subscribed /\ subscribed' /\ waiter' # "returned"
  BY DEF IInv, TypeOK, Receive, callVars, ReceiverOutlivesTasks, ShutdownIsLasting
<1> QED
  BY <1>3, <1>6, <1>7 DEF IInv, Receive, serviceVars, callVars, ReceiverOutlivesTasks,
                          ShutdownIsLasting, StopsAreFatal

LEMMA FailReceiveKeeps ==
  ASSUME IInv, FailReceive
  PROVE  IInv'
<1>1. /\ error' \in ReceiveErrors'
      /\ error' \in {"none", "WSAEMSGSIZE"} \cup UNION {SocketErrors[t] : t \in Targets}
  <2>1. target' = target /\ target \in Targets
    BY DEF IInv, TypeOK, FailReceive, serviceVars
  <2>2. CASE error' \in SocketErrors[target]
    BY <2>1, <2>2 DEF ReceiveErrors
  <2>3. CASE error' = "WSAEMSGSIZE" /\ socket # <<>> /\ Received(Head(socket)) = {}
    BY <2>1, <2>3, SocketFacts, OnlyWindowsRefuses DEF IInv, ReceiveErrors
  <2> QED
    BY <2>2, <2>3 DEF FailReceive
<1>2. /\ InFlight' \subseteq InFlight /\ stage' \in [Datagrams -> Stages]
      /\ socket' \in Seq(Datagrams) /\ Len(socket') <= SocketBuffer
  <2>1. CASE UNCHANGED <<socket, stage>>
    BY <2>1 DEF IInv, TypeOK, InFlight
  <2>2. CASE /\ socket # <<>> /\ socket' = Tail(socket)
             /\ stage' = [stage EXCEPT ![Head(socket)] = "refused"]
    BY <2>2, SocketFacts, NoNewTask DEF IInv, Stages, Running
  <2> QED
    BY <2>1, <2>2 DEF FailReceive
<1>3. errors' \in 0..MaxErrors
  BY SMTT(30), UdpServerAssumption DEF IInv, TypeOK, FailReceive
<1>4. TypeOK'
  BY <1>1, <1>2, <1>3 DEF IInv, TypeOK, FailReceive, serviceVars, callVars
<1> QED
  BY <1>1, <1>2, <1>4 DEF IInv, TypeOK, FailReceive, serviceVars, callVars, ReceiverOutlivesTasks,
                          ShutdownIsLasting, StopsAreFatal

LEMMA ServeDatagramKeeps ==
  ASSUME IInv, NEW d \in Datagrams, ServeDatagram(d)
  PROVE  IInv'
<1>1. stage[d] \in Running
  BY DEF ServeDatagram, Running
<1>2. PICK to \in Stages : stage' = [stage EXCEPT ![d] = to]
  BY DEF ServeDatagram, ResponseSent, Stages, Running
<1>3. stage' \in [Datagrams -> Stages] /\ d \in InFlight /\ InFlight' \subseteq InFlight
  BY <1>1, <1>2 DEF IInv, TypeOK, InFlight
<1>4. TypeOK'
  BY SMTT(30), <1>3 DEF IInv, TypeOK, ServeDatagram, loopVars, callVars
<1> QED
  BY <1>3, <1>4 DEF IInv, ServeDatagram, loopVars, callVars, ReceiverOutlivesTasks,
                    ShutdownIsLasting, StopsAreFatal, ReceiveErrors

\* A task that a panic or an abort ends.
LEMMA TornTaskKeeps ==
  ASSUME IInv, NEW d \in Datagrams, HandlerPanics(d) \/ Aborted(d)
  PROVE  IInv'
<1>1. /\ stage' = [stage EXCEPT ![d] = "done"]
      /\ UNCHANGED <<loopVars, callVars, socket, kind, orphans>>
  BY DEF HandlerPanics, Aborted
<1>2. InFlight' \subseteq InFlight /\ stage' \in [Datagrams -> Stages]
  BY <1>1, NoNewTask DEF IInv, Stages, Running
<1>3. TypeOK'
  BY SMTT(30), <1>1, <1>2 DEF IInv, TypeOK, loopVars, callVars
<1> QED
  BY <1>1, <1>2, <1>3 DEF IInv, loopVars, callVars, ReceiverOutlivesTasks, ShutdownIsLasting,
                          StopsAreFatal, ReceiveErrors

LEMMA DropServingKeeps ==
  ASSUME IInv, DropServing
  PROVE  IInv'
<1>1. InFlight' = InFlight /\ orphans' = InFlight /\ InFlight \subseteq Datagrams
  BY DEF DropServing, InFlight
<1>2. TypeOK'
  BY <1>1 DEF IInv, TypeOK, DropServing, serviceVars, callVars
<1> QED
  BY <1>1, <1>2 DEF IInv, DropServing, serviceVars, callVars, ReceiverOutlivesTasks,
                    ShutdownIsLasting, StopsAreFatal

LEMMA Stutter ==
  ASSUME IInv, UNCHANGED vars
  PROVE  IInv'
BY SMTT(30) DEF IInv, vars, loopVars, callVars, TypeOK, ReceiverOutlivesTasks, ShutdownIsLasting,
       StopsAreFatal, ReceiveErrors, InFlight

LEMMA Invariance == Spec => []IInv
<1>1. IInv /\ [Next]_vars => IInv'
  BY OutsideKeeps, LoopKeeps, ReceiveKeeps, FailReceiveKeeps, ServeDatagramKeeps, TornTaskKeeps,
     DropServingKeeps, Stutter
  DEF Next, LoopStep
<1> QED
  BY <1>1, InitOK, PTL DEF Spec

-----------------------------------------------------------------------------
\* The state of the UDP server stays well typed: serving returns only by draining.
THEOREM UdpTypeCorrect == Spec => []TypeOK
<1>1. IInv => TypeOK
  BY DEF IInv
<1> QED
  BY <1>1, Invariance, PTL

\* When shutdown() or serve_udp has returned, the loop reports nothing and no task of a datagram
\* runs (SV-R-044, SV-R-078, SV-R-079), except those that a dropped serving future left behind:
\* the tasks hold no receiver of their own, but the loop, which does, waits for them.
THEOREM UdpShutdownIsQuiet == Spec => []ShutdownMeansQuiet
<1>1. IInv => ShutdownMeansQuiet
  BY DEF IInv, ReceiverOutlivesTasks, ShutdownIsLasting, ShutdownMeansQuiet
<1> QED
  BY <1>1, Invariance, PTL

\* Whatever the receives may fail with, a serving that the service has not told otherwise returns
\* only for a shutdown or with a failure that no peer has caused (SV-R-051, SV-R-058, SV-R-074):
\* what a peer causes is in the table of the target.
THEOREM UdpServesOn == Spec => []NoPeerStopsServing
<1>1. IInv => NoPeerStopsServing
  <2> SUFFICES ASSUME IInv, serving \in {"draining", "returned"}, ~overrides, ~shutdown
               PROVE  result = "err" /\ error \notin PeerErrors(target) \cup {"none"}
    BY DEF NoPeerStopsServing
  <2>1. /\ result = "err" /\ error \in ReceiveErrors /\ error \notin TransientOn(target)
        /\ target \in Targets
    BY DEF IInv, TypeOK, StopsAreFatal, ListenerFailure, Classify
  <2>2. error # "none"
    BY <2>1, UdpServerAssumption DEF ReceiveErrors
  <2>3. PeerErrors(target) \subseteq TransientOn(target)
    BY <2>1, UdpServerAssumption
    DEF PeerErrors, TransientOn, WINDOWS_TRANSIENT, UNIX_TRANSIENT
  <2> QED
    BY <2>1, <2>2, <2>3
<1> QED
  BY <1>1, Invariance, PTL

=============================================================================
