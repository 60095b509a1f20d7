---------------------------- MODULE ServerProofs ----------------------------
(***************************************************************************)
(* The safety of serving connections, for any number of connections and    *)
(* requests, every kind of server and every configured unit.               *)
(***************************************************************************)
EXTENDS Server, TLAPS

\* A leaf that names no prover is for Zenon, or else for the SMT solver.
USE ZenonT(5), SMTT(30)

-----------------------------------------------------------------------------
(* The inductive invariant: what holds of each connection ...               *)

\* Before the service hears of a connection, and while the connection is open.
Unannounced == {"absent", "handshake", "on_tls_handshake_failed"}
Open == {"on_connect", "reading", "polling", "on_request", "sending", "on_error", "on_error_fatal"}

\* Identifiers are given out in order, and the notifications follow the stages.
Announced(c) ==
  /\ stage[c] = "absent" <=> next_connection <= c
  /\ stage[c] \in Unannounced => connects[c] = 0 /\ disconnects[c] = 0
  /\ stage[c] \in Open => connects[c] = 1 /\ disconnects[c] = 0
  /\ stage[c] = "on_disconnect" => connects[c] = 1 /\ disconnects[c] = 1
  /\ stage[c] = "gone" => disconnects[c] <= connects[c]
  /\ stage[c] = "gone" /\ c \notin torn => disconnects[c] = connects[c]
  /\ reason[c] # "none" => stage[c] \in {"on_disconnect", "gone"}

\* A task holds a receiver of the shutdown signal to its end.
Subscribed(c) == Live(c) => c \in receivers

\* A task has a request in hand only from its receipt to its answer, and the service sees
\* it only if it is for it.
InHand(c) ==
  /\ stage[c] \in {"absent", "handshake", "on_connect", "reading", "polling"} =>
       request[c] = NoRequest
  /\ stage[c] \in {"on_request", "sending"} => Dispatched(request[c].unit)
  /\ stage[c] = "sending" => ~IsBroadcast(request[c].unit)

\* A receive that crossed the shutdown was the last one: the flag is looked at first.
CrossedOnce(c) ==
  /\ late[c] <= 1
  /\ late[c] # 0 => shutdown /\ stage[c] # "polling"
  /\ reason[c] = "ShuttingDown" => request[c] = NoRequest

(* ... and of the serving future.                                           *)

Quiet == \A c \in Conns : ~Live(c)

\* The loop of a listener holds its receiver while it runs.
LoopKept ==
  /\ serving # "link"
  /\ serving \in {"accepting", "polling", "on_accept_error", "hook", "draining"} => Loop \in receivers
  /\ waiter = "returned" => Quiet /\ serving \in {"created", "accepting", "draining", "returned", "dropped"}

\* A link has one connection, which is served by the serving future itself.
LinkKept ==
  /\ serving \in {"created", "link", "returned", "dropped"}
  /\ serving # "created" => next_connection = 2
  /\ serving = "dropped" => Quiet
  /\ serving = "returned" => (result = "err" <=> reason[1] = "Failed")

ServingKept ==
  /\ waiter # "none" => shutdown
  /\ serving = "created" => next_connection = 1
  /\ serving = "returned" => Quiet
  /\ IF Mode = "link" THEN LinkKept ELSE LoopKept

ConnKept(c) == Announced(c) /\ Subscribed(c) /\ InHand(c) /\ CrossedOnce(c)

IInv == TypeOK /\ ServingKept /\ \A c \in Conns : ConnKept(c)

-----------------------------------------------------------------------------
LEMMA Bounds == MaxConns \in Nat /\ MaxErrors \in Nat
BY ServerAssumption, Zenon

LEMMA InitOK == Init => IInv
<1> SUFFICES ASSUME Init PROVE IInv
  OBVIOUS
<1>1. TypeOK
  <2>1. "absent" \in Stages
    BY DEF Stages
  <2>2. arrivals \in [Conns -> Seq(Arrivals)]
    BY DEF Init
  <2>3. next_connection \in 1..(MaxConns + 1) /\ errors \in 0..MaxErrors
    BY Bounds DEF Init
  <2>4. /\ stage \in [Conns -> Stages] /\ reason \in [Conns -> Reasons \cup {"none"}]
        /\ request \in [Conns -> {Request(u) : u \in Units} \cup {NoRequest}]
    BY <2>1 DEF Init
  <2>5. /\ sent \in [Conns -> Nat] /\ late \in [Conns -> Nat]
        /\ connects \in [Conns -> 0..1] /\ disconnects \in [Conns -> 0..1]
    BY DEF Init
  <2> QED
    BY <2>2, <2>3, <2>4, <2>5 DEF Init, TypeOK
<1>2. ServingKept
  BY DEF Init, ServingKept, LinkKept, LoopKept, Quiet, Live
<1>3. ASSUME NEW c \in Conns PROVE ConnKept(c)
  BY Bounds
  DEF Init, Conns, ConnKept, Announced, Subscribed, InHand, CrossedOnce, Live, Open, Unannounced
<1> QED
  BY <1>1, <1>2, <1>3 DEF IInv

\* A step that leaves a connection's own state alone, and takes neither the shutdown back
\* nor the connection's receiver, leaves what holds of the connection.
LEMMA OthersKept ==
  ASSUME NEW c \in Conns, ConnKept(c), setup' = setup, next_connection' = next_connection,
         shutdown => shutdown', c \in receivers => c \in receivers', c \in torn => c \in torn',
         stage'[c] = stage[c], reason'[c] = reason[c], request'[c] = request[c],
         connects'[c] = connects[c], disconnects'[c] = disconnects[c], late'[c] = late[c]
  PROVE  ConnKept(c)'
BY SMTT(30) DEF ConnKept, Announced, Subscribed, InHand, CrossedOnce, Live, Dispatched, IsBroadcast,
       Framing, Unit

\* The calls of the shutdown handle.
LEMMA HandleKeeps ==
  ASSUME IInv, RequestShutdown \/ ShutdownReturns
  PROVE  IInv'
<1>1. UNCHANGED <<receivers, serving, result, next_connection, errors, connVars>>
  BY DEF RequestShutdown, ShutdownReturns
<1>2. \A c \in Conns : ConnKept(c)'
  BY <1>1, OthersKept DEF IInv, connVars, RequestShutdown, ShutdownReturns
<1>3. TypeOK'
  BY <1>1 DEF IInv, TypeOK, connVars, RequestShutdown, ShutdownReturns, Units, Arrivals, Failures, Framing
<1>4. Quiet' <=> Quiet
  BY <1>1 DEF connVars, Quiet, Live
<1>5. CASE RequestShutdown
  BY <1>1, <1>2, <1>3, <1>4, <1>5
  DEF IInv, RequestShutdown, ServingKept, LinkKept, LoopKept, connVars, Mode
<1>6. CASE ShutdownReturns
  <2>1. Quiet
    BY <1>6 DEF IInv, ShutdownReturns, ConnKept, Subscribed, Quiet
  <2> QED
    BY <1>1, <1>2, <1>3, <1>4, <1>6, <2>1
    DEF IInv, TypeOK, ShutdownReturns, ServingKept, LinkKept, LoopKept, connVars, Mode
<1> QED
  BY <1>5, <1>6

\* What the setup decides stays as it is.
LEMMA SetupKept ==
  ASSUME setup' = setup
  PROVE  /\ Mode' = Mode /\ Units' = Units /\ Arrivals' = Arrivals
         /\ \A u : IsBroadcast(u)' = IsBroadcast(u) /\ Dispatched(u)' = Dispatched(u)
BY DEF Mode, Units, Arrivals, Failures, Framing, IsBroadcast, Dispatched, Unit

\* The steps of the loop that concern no connection.
LEMMA LoopKeeps ==
  ASSUME IInv,
         \/ PollAccept \/ AcceptPending \/ FailAccept \/ PollHook \/ HookPending \/ HookAnswers
  PROVE  IInv'
<1>1. UNCHANGED <<shutdown, receivers, waiter, next_connection, connVars>>
  BY DEF PollAccept, AcceptPending, FailAccept, PollHook, HookPending, HookAnswers
<1>2. \A c \in Conns : ConnKept(c)'
  BY <1>1, OthersKept DEF IInv, connVars
<1>3. Mode # "link" /\ Mode' = Mode /\ (Quiet' <=> Quiet)
  BY <1>1 DEF IInv, ServingKept, LinkKept, Mode, connVars, Quiet, Live,
              PollAccept, AcceptPending, FailAccept, PollHook, HookPending, HookAnswers
<1>4. TypeOK'
  <2>1. Units' = Units /\ Arrivals' = Arrivals
    BY <1>1, SetupKept DEF connVars
  <2>2. errors' \in 0..MaxErrors
    BY SMTT(30), <1>1, Bounds DEF IInv, TypeOK, connVars,
                PollAccept, AcceptPending, FailAccept, PollHook, HookPending, HookAnswers
  <2>3. /\ serving' \in {"accepting", "polling", "on_accept_error", "hook", "draining"}
        /\ result' \in {"none", "ok", "err"}
    BY DEF IInv, TypeOK, PollAccept, AcceptPending, FailAccept, PollHook, HookPending, HookAnswers
  <2> QED
    BY <1>1, <2>1, <2>2, <2>3 DEF IInv, TypeOK, connVars
<1>5. ServingKept'
  BY <1>1, <1>3 DEF IInv, ServingKept, LoopKept,
     PollAccept, AcceptPending, FailAccept, PollHook, HookPending, HookAnswers
<1> QED
  BY <1>2, <1>4, <1>5 DEF IInv

\* Serving starts, or returns once no task is left.
LEMMA StartAndDrainKeep ==
  ASSUME IInv, ServeListener \/ Drained
  PROVE  IInv'
<1>1. UNCHANGED <<shutdown, waiter, result, next_connection, errors, connVars>>
  BY DEF ServeListener, Drained
<1>2. Mode # "link" /\ Mode' = Mode /\ (Quiet' <=> Quiet) /\ Units' = Units /\ Arrivals' = Arrivals
  BY <1>1, SetupKept DEF IInv, ServingKept, LinkKept, connVars, Quiet, Live, ServeListener, Drained
<1>3. Quiet
  <2>1. CASE ServeListener
    <3>1. next_connection = 1
      BY <2>1 DEF IInv, ServingKept, ServeListener
    <3> QED
      BY SMTT(30), <3>1, Bounds DEF Quiet, Live, IInv, ConnKept, Announced, Conns
  <2>2. CASE Drained
    BY <2>2 DEF Drained, Quiet
  <2> QED
    BY <2>1, <2>2
<1>4. \A c \in Conns : ConnKept(c)'
  <2> SUFFICES ASSUME NEW c \in Conns PROVE ConnKept(c)'
    OBVIOUS
  <2>1. Subscribed(c)'
    BY <1>1, <1>3 DEF Subscribed, Quiet, Live, connVars
  <2> QED
    BY <1>1, <2>1, SetupKept DEF IInv, connVars, ConnKept, Announced, InHand, CrossedOnce
<1>5. TypeOK'
  BY <1>1, <1>2 DEF IInv, TypeOK, connVars, ServeListener, Drained
<1>6. ServingKept'
  BY <1>1, <1>2, <1>3 DEF IInv, ServingKept, LoopKept, ServeListener, Drained, Loop
<1> QED
  BY <1>4, <1>5, <1>6 DEF IInv

\* A connection is taken up: the next one in order, which no task is working for yet.
LEMMA TakeUpKeeps ==
  ASSUME IInv, NEW first \in {"handshake", "on_connect"}, TakeUp(first), UNCHANGED shutdown,
         receivers \subseteq receivers' \/ Quiet, next_connection \in receivers'
  PROVE  /\ \A c \in Conns : ConnKept(c)'
         /\ stage' \in [Conns -> Stages] /\ connects' \in [Conns -> 0..1]
         /\ next_connection' \in 1..(MaxConns + 1)
<1>1. next_connection \in Conns /\ next_connection \in Nat
  BY DEF TakeUp, Conns
<1>2. stage[next_connection] = "absent"
  BY SMTT(30), <1>1 DEF IInv, ConnKept, Announced
<1>3. ASSUME NEW c \in Conns PROVE ConnKept(c)'
  <2>1. CASE c = next_connection
    BY SMTT(30), <1>1, <1>2, <2>1, SetupKept
    DEF IInv, TypeOK, TakeUp, Conns, ConnKept, Announced, Subscribed, InHand, CrossedOnce, Live,
        Open, Unannounced
  <2>2. CASE c # next_connection
    <3>1. /\ stage'[c] = stage[c] /\ connects'[c] = connects[c]
          /\ UNCHANGED <<setup, reason, request, arrivals, sent, disconnects, late, torn>>
      BY <1>1, <2>2 DEF IInv, TypeOK, TakeUp
    <3>2. Announced(c)'
      BY SMTT(30), <1>1, <2>2, <3>1 DEF IInv, ConnKept, Announced, TakeUp, Conns
    <3>3. Subscribed(c)'
      BY <3>1 DEF IInv, ConnKept, Subscribed, Quiet, Live
    <3> QED
      BY <3>1, <3>2, <3>3, SetupKept DEF IInv, ConnKept, InHand, CrossedOnce
  <2> QED
    BY <2>1, <2>2
<1>4. stage' \in [Conns -> Stages] /\ connects' \in [Conns -> 0..1]
  BY SMTT(30) DEF IInv, TypeOK, TakeUp, Stages, Notifying
<1> QED
  BY SMTT(30), <1>1, <1>3, <1>4, Bounds DEF TakeUp, Conns

\* A listener accepts a connection, or a link starts.
LEMMA AcceptKeeps ==
  ASSUME IInv, Accept \/ ServeLink
  PROVE  IInv'
<1>1. PICK first \in {"handshake", "on_connect"} : TakeUp(first)
  BY DEF Accept, ServeLink
<1>2. /\ UNCHANGED <<shutdown, waiter, result, errors>>
      /\ UNCHANGED <<setup, reason, request, arrivals, sent, disconnects, late, torn>>
  BY <1>1 DEF Accept, ServeLink, TakeUp
<1>3. Mode' = Mode /\ Units' = Units /\ Arrivals' = Arrivals
  BY <1>2, SetupKept
<1>4. next_connection \in receivers' /\ (receivers \subseteq receivers' \/ Quiet)
  <2>1. CASE Accept
    BY <2>1 DEF Accept
  <2>2. CASE ServeLink
    <3>1. next_connection = 1
      BY <2>2 DEF IInv, ServingKept, ServeLink
    <3>2. Quiet
      BY SMTT(30), <3>1, Bounds DEF Quiet, Live, IInv, ConnKept, Announced, Conns
    <3> QED
      BY <2>2, <3>2 DEF ServeLink
  <2> QED
    BY <2>1, <2>2
<1>5. /\ \A c \in Conns : ConnKept(c)'
      /\ stage' \in [Conns -> Stages] /\ connects' \in [Conns -> 0..1]
      /\ next_connection' \in 1..(MaxConns + 1)
  BY <1>1, <1>2, <1>4, TakeUpKeeps
<1>6. receivers' \subseteq Conns \cup {Loop} /\ serving' \in {"accepting", "link"}
  BY <1>1 DEF IInv, TypeOK, Accept, ServeLink, TakeUp
<1>7. TypeOK'
  BY <1>2, <1>3, <1>5, <1>6 DEF IInv, TypeOK
<1>8. ServingKept'
  BY SMTT(30), <1>1, <1>2, <1>3 DEF IInv, ServingKept, LinkKept, LoopKept, TakeUp, Accept, ServeLink
<1> QED
  BY <1>5, <1>7, <1>8 DEF IInv

\* The serving future is dropped, and with it a link's connection.
LEMMA DropKeeps ==
  ASSUME IInv, DropServing
  PROVE  IInv'
<1>1. PICK own \in SUBSET {1} :
        /\ own = IF Mode = "link" THEN {1} ELSE {}
        /\ receivers' = receivers \ (own \cup {Loop})
        /\ stage' = [c \in Conns |-> IF c \in own THEN "gone" ELSE stage[c]]
        /\ torn' = torn \cup own
  BY DEF DropServing
<1>2. /\ UNCHANGED <<setup, shutdown, waiter, result, next_connection, errors,
                     reason, request, arrivals, sent, connects, disconnects, late>>
      /\ serving' = "dropped" /\ serving \notin {"created", "returned"}
  BY DEF DropServing
<1>3. Mode' = Mode /\ Units' = Units /\ Arrivals' = Arrivals
  BY <1>2, SetupKept
<1>4. Mode = "link" => next_connection = 2 /\ 1 \in Conns
  BY SMTT(30), <1>2, Bounds DEF IInv, TypeOK, ServingKept, LinkKept, Conns
<1>5. ASSUME NEW c \in Conns PROVE ConnKept(c)'
  <2>1. CASE c \in own
    <3>1. stage[c] # "absent" /\ disconnects[c] <= connects[c] /\ late[c] <= 1
      BY SMTT(30), <1>1, <1>4, <2>1 DEF IInv, TypeOK, ConnKept, Announced, CrossedOnce, Stages, Notifying,
                               Unannounced, Open
    <3> QED
      BY <1>1, <1>2, <2>1, <3>1 DEF IInv, ConnKept, Announced, Subscribed, InHand, CrossedOnce,
                               Live, Unannounced, Open
  <2>2. CASE c \notin own
    BY SMTT(30), <1>1, <1>2, <2>2, OthersKept, Bounds DEF IInv, Conns, Loop
  <2> QED
    BY <2>1, <2>2
<1>6. TypeOK'
  <2>1. stage' \in [Conns -> Stages]
    BY <1>1 DEF IInv, TypeOK, Stages
  <2> QED
    BY <1>1, <1>2, <1>3, <1>4, <2>1 DEF IInv, TypeOK
<1>7. Mode = "link" => Quiet'
  BY SMTT(30), <1>1, <1>4, <1>2 DEF IInv, ConnKept, Announced, Quiet, Live, Conns
<1>8. Quiet => Quiet'
  BY <1>1 DEF Quiet, Live
<1> QED
  BY <1>2, <1>3, <1>5, <1>6, <1>7, <1>8 DEF IInv, ServingKept, LinkKept, LoopKept

-----------------------------------------------------------------------------
(* The tasks.                                                               *)

\* The step changes the state of no connection but c.
OnlyAt(c) ==
  \A d \in Conns \ {c} :
    /\ stage'[d] = stage[d] /\ reason'[d] = reason[d] /\ request'[d] = request[d]
    /\ connects'[d] = connects[d] /\ disconnects'[d] = disconnects[d] /\ late'[d] = late[d]

\* A live task's step that leaves the loop alone has to keep only what holds of its own
\* connection: while a task lives, neither shutdown() nor serving has returned.
LEMMA TaskStepKeeps ==
  ASSUME IInv, NEW c \in Conns, Live(c), UNCHANGED <<setup, loopVars, torn>>, OnlyAt(c),
         TypeOK', ConnKept(c)'
  PROVE  IInv'
<1>1. \A d \in Conns : ConnKept(d)'
  BY OthersKept DEF IInv, OnlyAt, loopVars
<1>2. ~Quiet /\ Mode' = Mode
  BY DEF Quiet, Mode
<1>3. ServingKept'
  BY <1>2 DEF IInv, ServingKept, LinkKept, LoopKept, loopVars
<1> QED
  BY <1>1, <1>3 DEF IInv

\* Handshake, answers to on_connect and the shutdown flag: what a task does before it reads.
LEMMA OpeningKeeps ==
  ASSUME IInv, NEW c \in Conns,
         Handshake(c) \/ ConnectAnswered(c) \/ PollReceive(c) \/ ReceivePending(c)
  PROVE  IInv'
<1>1. Live(c)
  BY DEF Live, Handshake, ConnectAnswered, PollReceive, ReceivePending, Goto
<1>2. UNCHANGED <<setup, loopVars, request, arrivals, sent, late, torn>>
  BY DEF Handshake, ConnectAnswered, PollReceive, ReceivePending
<1>3. /\ stage[c] \in {"handshake", "on_connect", "reading", "polling"}
      /\ \/ /\ stage' = [stage EXCEPT ![c] = "on_connect"] /\ stage[c] = "handshake"
            /\ connects' = [connects EXCEPT ![c] = @ + 1] /\ UNCHANGED <<reason, disconnects>>
         \/ /\ stage' = [stage EXCEPT ![c] = "on_tls_handshake_failed"] /\ stage[c] = "handshake"
            /\ UNCHANGED <<reason, connects, disconnects>>
         \/ /\ stage' = [stage EXCEPT ![c] = "reading"] /\ stage[c] \in {"on_connect", "polling"}
            /\ UNCHANGED <<reason, connects, disconnects>>
         \/ /\ stage' = [stage EXCEPT ![c] = "polling"] /\ stage[c] = "reading" /\ ~shutdown
            /\ UNCHANGED <<reason, connects, disconnects>>
         \/ /\ stage[c] \in {"on_connect", "reading"} /\ UNCHANGED connects
            /\ \E why \in {"Rejected", "ShuttingDown"} : Disconnect(c, why)
  BY DEF Handshake, ConnectAnswered, PollReceive, ReceivePending, Goto
<1>4. OnlyAt(c)
  BY <1>2, <1>3 DEF OnlyAt, IInv, TypeOK, Disconnect
<1>5. /\ connects' \in [Conns -> 0..1] /\ disconnects' \in [Conns -> 0..1]
      /\ stage' \in [Conns -> Stages] /\ reason' \in [Conns -> Reasons \cup {"none"}]
  <2>1. /\ stage[c] = "handshake" => connects[c] = 0
        /\ stage[c] \in {"on_connect", "reading"} => disconnects[c] = 0
    BY DEF IInv, ConnKept, Announced, Unannounced, Open
  <2> connects \in [Conns -> 0..1] /\ disconnects \in [Conns -> 0..1]
    BY DEF IInv, TypeOK
  <2>2. connects' \in [Conns -> 0..1]
    <3>1. UNCHANGED connects \/ connects' = [connects EXCEPT ![c] = 1]
      BY SMTT(30), <1>3, <2>1
    <3> QED
      BY SMTT(30), <3>1
  <2>3. disconnects' \in [Conns -> 0..1]
    <3>1. UNCHANGED disconnects \/ disconnects' = [disconnects EXCEPT ![c] = 1]
      BY SMTT(30), <1>3, <2>1 DEF Disconnect
    <3> QED
      BY SMTT(30), <3>1
  <2>4. stage' \in [Conns -> Stages]
    BY ZenonT(30), <1>3 DEF IInv, TypeOK, Disconnect, Stages, Notifying
  <2>5. reason' \in [Conns -> Reasons \cup {"none"}]
    BY <1>3 DEF IInv, TypeOK, Disconnect, Reasons
  <2> QED
    BY <2>2, <2>3, <2>4, <2>5
<1>6. TypeOK'
  BY <1>2, <1>5, SetupKept DEF IInv, TypeOK, loopVars
<1>7. ConnKept(c)'
  <2>1. ConnKept(c) /\ c \in receivers
    BY <1>1 DEF IInv, ConnKept, Subscribed
  <2>2. Announced(c)'
    BY SMTT(30), <1>2, <1>3, <2>1
    DEF IInv, TypeOK, loopVars, ConnKept, Announced, Unannounced, Open, Disconnect
  <2>3. Subscribed(c)' /\ InHand(c)'
    BY <1>2, <1>3, <2>1 DEF IInv, TypeOK, loopVars, ConnKept, Subscribed, InHand, Disconnect
  <2>4. CrossedOnce(c)'
    BY <1>2, <1>3, <2>1 DEF IInv, TypeOK, loopVars, ConnKept, CrossedOnce, InHand, Disconnect,
                            Announced
  <2> QED
    BY <2>2, <2>3, <2>4 DEF ConnKept
<1> QED
  BY <1>1, <1>2, <1>4, <1>6, <1>7, TaskStepKeeps

\* What has arrived is a request or a failure.
LEMMA ArrivalFacts ==
  ASSUME TypeOK, NEW c \in Conns, arrivals[c] # <<>>
  PROVE  /\ Head(arrivals[c]) \in Arrivals
         /\ [arrivals EXCEPT ![c] = Tail(@)] \in [Conns -> Seq(Arrivals)]
         /\ Head(arrivals[c]).kind = "request" =>
              Head(arrivals[c]) \in {Request(u) : u \in Units}
<1>1. arrivals[c] \in Seq(Arrivals) /\ arrivals \in [Conns -> Seq(Arrivals)]
  BY DEF TypeOK
<1>2. Head(arrivals[c]) \in Arrivals /\ Tail(arrivals[c]) \in Seq(Arrivals)
  BY <1>1
<1>3. \A f \in Failures : f.kind # "request"
  BY DEF Failures
<1> QED
  BY <1>1, <1>2, <1>3 DEF Arrivals

\* A request or a failure is received.
LEMMA ReceiveKeeps ==
  ASSUME IInv, NEW c \in Conns, ReceiveRequest(c) \/ FailReceive(c)
  PROVE  IInv'
<1>1. /\ Live(c) /\ stage[c] = "polling" /\ ConnKept(c) /\ c \in receivers
      /\ connects[c] = 1 /\ disconnects[c] = 0 /\ late[c] = 0 /\ reason[c] = "none"
      /\ request[c] = NoRequest
  BY DEF IInv, TypeOK, Live, ReceiveRequest, FailReceive, ConnKept, Subscribed, Announced, Open,
         CrossedOnce, InHand, Goto
<1>2. UNCHANGED <<setup, loopVars, sent, connects, torn>>
  BY DEF ReceiveRequest, FailReceive
<1>3. arrivals' \in [Conns -> Seq(Arrivals)]
  BY ArrivalFacts DEF IInv, ReceiveRequest, FailReceive
<1>4. CASE ReceiveRequest(c)
  <2>1. PICK r \in {Request(u) : u \in Units} :
          /\ UNCHANGED <<reason, disconnects>>
          /\ late' = [late EXCEPT ![c] = IF shutdown THEN @ + 1 ELSE @]
          /\ \/ /\ Dispatched(r.unit) /\ request' = [request EXCEPT ![c] = r]
                /\ stage' = [stage EXCEPT ![c] = "on_request"]
             \/ stage' = [stage EXCEPT ![c] = "reading"] /\ UNCHANGED request
    BY <1>4, ArrivalFacts, Zenon DEF IInv, ReceiveRequest
  <2>2. /\ late' \in [Conns -> Nat] /\ stage' \in [Conns -> Stages]
        /\ request' \in [Conns -> {Request(u) : u \in Units} \cup {NoRequest}]
    <3>1. late' \in [Conns -> Nat]
      BY SMTT(30), <2>1 DEF IInv, TypeOK
    <3>2. stage' \in [Conns -> Stages]
      BY <2>1 DEF IInv, TypeOK, Stages, Notifying
    <3>3. request' \in [Conns -> {Request(u) : u \in Units} \cup {NoRequest}]
      <4>1. request \in [Conns -> {Request(u) : u \in Units} \cup {NoRequest}]
        BY DEF IInv, TypeOK
      <4> QED
        BY <2>1, <4>1, Zenon
    <3> QED
      BY <3>1, <3>2, <3>3
  <2>3. TypeOK'
    BY <1>2, <1>3, <2>1, <2>2, SetupKept DEF IInv, TypeOK, loopVars
  <2>4. OnlyAt(c)
    BY <1>2, <2>1 DEF OnlyAt, IInv, TypeOK
  <2>5. late'[c] <= 1 /\ (late'[c] # 0 => shutdown')
    BY SMTT(30), <1>1, <1>2, <2>1 DEF IInv, TypeOK, loopVars
  <2>6. /\ stage'[c] \in {"on_request", "reading"}
        /\ stage'[c] = "reading" => request'[c] = NoRequest
        /\ stage'[c] = "on_request" => Dispatched(request'[c].unit)
    BY <1>1, <2>1 DEF IInv, TypeOK
  <2>7. ConnKept(c)'
    BY <1>1, <1>2, <2>1, <2>5, <2>6, SetupKept
    DEF ConnKept, Announced, Subscribed, InHand, CrossedOnce, Unannounced, Open, loopVars, Live
  <2> QED
    BY <1>1, <1>2, <2>3, <2>4, <2>7, TaskStepKeeps
<1>5. CASE FailReceive(c)
  <2>1. /\ UNCHANGED <<request, late>>
        /\ \/ Disconnect(c, "Closed")
           \/ /\ UNCHANGED <<reason, disconnects>>
              /\ \E to \in {"on_error", "on_error_fatal"} : stage' = [stage EXCEPT ![c] = to]
    BY <1>5 DEF FailReceive, Goto
  <2>2. /\ stage' \in [Conns -> Stages] /\ reason' \in [Conns -> Reasons \cup {"none"}]
        /\ disconnects' \in [Conns -> 0..1]
    <3>1. stage' \in [Conns -> Stages]
      BY <2>1 DEF IInv, TypeOK, Disconnect, Stages, Notifying
    <3>2. reason' \in [Conns -> Reasons \cup {"none"}]
      BY <2>1 DEF IInv, TypeOK, Disconnect, Reasons
    <3>3. disconnects' \in [Conns -> 0..1]
      <4>1. disconnects \in [Conns -> 0..1]
        BY DEF IInv, TypeOK
      <4>2. UNCHANGED disconnects \/ disconnects' = [disconnects EXCEPT ![c] = 1]
        BY SMTT(30), <1>1, <2>1, <4>1 DEF Disconnect
      <4> QED
        BY SMTT(30), <4>1, <4>2
    <3> QED
      BY <3>1, <3>2, <3>3
  <2>3. TypeOK'
    BY <1>2, <1>3, <2>1, <2>2, SetupKept DEF IInv, TypeOK, loopVars
  <2>4. OnlyAt(c)
    BY <1>2, <2>1 DEF OnlyAt, IInv, TypeOK, Disconnect
  <2>5. \/ stage'[c] = "on_disconnect" /\ disconnects'[c] = 1 /\ reason'[c] = "Closed"
        \/ stage'[c] \in {"on_error", "on_error_fatal"} /\ disconnects'[c] = 0 /\ reason'[c] = "none"
    BY SMTT(30), <1>1, <2>1 DEF IInv, TypeOK, Disconnect
  <2>6. ConnKept(c)'
    BY <1>1, <1>2, <2>1, <2>5, SetupKept
    DEF ConnKept, Announced, Subscribed, InHand, CrossedOnce, Unannounced, Open, loopVars, Live
  <2> QED
    BY <1>1, <1>2, <2>3, <2>4, <2>6, TaskStepKeeps
<1> QED
  BY <1>4, <1>5

\* A report or a handler returns, or a response has been sent.
LEMMA AnswerKeeps ==
  ASSUME IInv, NEW c \in Conns, ErrorReported(c) \/ RequestAnswered(c) \/ ResponseSent(c)
  PROVE  IInv'
<1>1. /\ Live(c) /\ ConnKept(c) /\ c \in receivers
      /\ stage[c] \in {"on_error", "on_error_fatal", "on_request", "sending"}
      /\ connects[c] = 1 /\ disconnects[c] = 0 /\ reason[c] = "none"
  BY DEF IInv, TypeOK, Live, ErrorReported, RequestAnswered, ResponseSent, Goto, ConnKept,
         Subscribed, Announced, Open
<1>2. UNCHANGED <<setup, loopVars, arrivals, sent, connects, late, torn>>
  BY DEF ErrorReported, RequestAnswered, ResponseSent
<1>3. /\ request' = [request EXCEPT ![c] = NoRequest] \/ UNCHANGED request
      /\ \/ Disconnect(c, "Failed")
         \/ /\ UNCHANGED <<reason, disconnects>>
            /\ \/ /\ stage' = [stage EXCEPT ![c] = "reading"]
                  /\ request' = [request EXCEPT ![c] = NoRequest]
               \/ \E to \in {"on_error", "on_error_fatal"} : stage' = [stage EXCEPT ![c] = to]
               \/ /\ stage' = [stage EXCEPT ![c] = "sending"] /\ UNCHANGED request
                  /\ stage[c] = "on_request" /\ ~IsBroadcast(request[c].unit)
  BY DEF ErrorReported, RequestAnswered, ResponseSent, Goto
<1>4. /\ stage \in [Conns -> Stages] /\ reason \in [Conns -> Reasons \cup {"none"}]
      /\ disconnects \in [Conns -> 0..1]
      /\ request \in [Conns -> {Request(u) : u \in Units} \cup {NoRequest}]
  BY DEF IInv, TypeOK
<1>5. /\ stage' \in [Conns -> Stages] /\ reason' \in [Conns -> Reasons \cup {"none"}]
      /\ disconnects' \in [Conns -> 0..1]
      /\ request' \in [Conns -> {Request(u) : u \in Units} \cup {NoRequest}]
  <2>1. stage' \in [Conns -> Stages]
    BY <1>3, <1>4 DEF Disconnect, Stages, Notifying
  <2>2. reason' \in [Conns -> Reasons \cup {"none"}]
    BY <1>3, <1>4 DEF Disconnect, Reasons
  <2>3. UNCHANGED disconnects \/ disconnects' = [disconnects EXCEPT ![c] = 1]
    BY SMTT(30), <1>1, <1>3, <1>4 DEF Disconnect
  <2>4. disconnects' \in [Conns -> 0..1]
    BY SMTT(30), <1>4, <2>3
  <2>5. request' \in [Conns -> {Request(u) : u \in Units} \cup {NoRequest}]
    BY <1>3, <1>4, Zenon
  <2> QED
    BY <2>1, <2>2, <2>4, <2>5
<1>6. TypeOK'
  BY <1>2, <1>5, SetupKept DEF IInv, TypeOK, loopVars
<1>7. OnlyAt(c)
  BY <1>2, <1>3, <1>4 DEF OnlyAt, Disconnect
<1>8. \/ stage'[c] = "on_disconnect" /\ disconnects'[c] = 1 /\ reason'[c] = "Failed"
      \/ /\ disconnects'[c] = 0 /\ reason'[c] = "none"
         /\ \/ stage'[c] = "reading" /\ request'[c] = NoRequest
            \/ stage'[c] \in {"on_error", "on_error_fatal"}
            \/ /\ stage'[c] = "sending" /\ Dispatched(request'[c].unit)
               /\ ~IsBroadcast(request'[c].unit)
  BY SMTT(30), <1>1, <1>3, <1>4 DEF Disconnect, ConnKept, InHand
<1>9. ConnKept(c)'
  BY <1>1, <1>2, <1>8, SetupKept
  DEF ConnKept, Announced, Subscribed, InHand, CrossedOnce, Unannounced, Open, loopVars, Live
<1> QED
  BY <1>1, <1>2, <1>6, <1>7, <1>9, TaskStepKeeps

\* A task ends, of its own accord after its last notification or by a panic or an abort;
\* a link's serving future ends with it.
LEMMA EndKeeps ==
  ASSUME IInv, NEW c \in Conns, TaskReturns(c) \/ HandlerPanics(c) \/ Aborted(c)
  PROVE  IInv'
<1>1. Live(c) /\ ConnKept(c) /\ ~Quiet
  BY DEF IInv, Live, TaskReturns, HandlerPanics, Aborted, Goto, Notifying, Quiet
<1>2. /\ UNCHANGED <<setup, shutdown, waiter, next_connection, errors,
                     reason, request, arrivals, sent, connects, disconnects, late>>
      /\ stage' = [stage EXCEPT ![c] = "gone"] /\ receivers' = receivers \ {c}
      /\ \/ torn' = torn /\ stage[c] \in {"on_disconnect", "on_tls_handshake_failed"}
         \/ torn' = torn \cup {c}
  BY DEF TaskReturns, HandlerPanics, Aborted, Goto
<1>3. Mode' = Mode /\ Units' = Units /\ Arrivals' = Arrivals
  BY <1>2, SetupKept
<1>4. /\ Mode # "link" => serving' = serving /\ result' = result
      /\ Mode = "link" =>
           \/ serving' = "dropped" /\ result' = result
           \/ serving' = "returned" /\ result' = IF reason[c] = "Failed" THEN "err" ELSE "ok"
  BY <1>1 DEF IInv, ServingKept, LinkKept, TaskReturns, HandlerPanics, Aborted
<1>5. stage \in [Conns -> Stages] /\ stage' \in [Conns -> Stages]
  BY <1>2 DEF IInv, TypeOK, Stages
<1>6. TypeOK'
  BY ZenonT(30), <1>2, <1>3, <1>4, <1>5 DEF IInv, TypeOK
<1>7. ConnKept(c)'
  BY SMTT(30), <1>1, <1>2, <1>5 DEF IInv, TypeOK, ConnKept, Announced, Subscribed, InHand, CrossedOnce,
                          Unannounced, Open, Live, Stages, Notifying
<1>8. \A d \in Conns : ConnKept(d)'
  BY <1>2, <1>5, <1>7, OthersKept DEF IInv
<1>9. Mode = "link" => c = 1 /\ Quiet' /\ next_connection = 2
  <2>1. ASSUME Mode = "link" PROVE next_connection = 2
    <3>1. next_connection # 1
      BY <1>1, Bounds DEF ConnKept, Announced, Live, Conns
    <3> QED
      BY <2>1, <3>1 DEF IInv, ServingKept, LinkKept
  <2>2. ASSUME next_connection = 2, NEW d \in Conns, Live(d) PROVE d = 1
    BY SMTT(30), <2>2, Bounds DEF IInv, ConnKept, Announced, Live, Conns
  <2> QED
    BY <1>1, <1>2, <1>5, <2>1, <2>2 DEF Quiet, Live
<1>10. ServingKept'
  <2>1. CASE Mode = "link"
    BY <1>1, <1>2, <1>3, <1>4, <1>9, <2>1 DEF IInv, ServingKept, LinkKept
  <2>2. CASE Mode # "link"
    BY <1>1, <1>2, <1>3, <1>4, <2>2, Bounds DEF IInv, ServingKept, LoopKept, Loop, Conns
  <2> QED
    BY <2>1, <2>2
<1> QED
  BY <1>6, <1>8, <1>10 DEF IInv

\* What a peer sends changes nothing but what has arrived.
LEMMA PeerKeeps ==
  ASSUME IInv, NEW c \in Conns, NEW a \in Arrivals, PeerSends(c, a)
  PROVE  IInv'
<1>1. UNCHANGED <<setup, loopVars, stage, reason, request, connects, disconnects, late, torn>>
  BY DEF PeerSends
<1>2. sent' \in [Conns -> Nat]
  BY SMTT(30) DEF IInv, TypeOK, PeerSends
<1>3. arrivals' \in [Conns -> Seq(Arrivals)]
  <2>1. arrivals \in [Conns -> Seq(Arrivals)] /\ Append(arrivals[c], a) \in Seq(Arrivals)
    BY SMTT(30) DEF IInv, TypeOK
  <2> QED
    BY <2>1, Zenon DEF PeerSends
<1>4. TypeOK'
  BY <1>1, <1>2, <1>3, SetupKept DEF IInv, TypeOK, loopVars
<1>5. \A d \in Conns : ConnKept(d)'
  BY <1>1, OthersKept DEF IInv, loopVars
<1> QED
  BY <1>1, <1>4, <1>5, SetupKept DEF IInv, ServingKept, LinkKept, LoopKept, Quiet, Live, loopVars

LEMMA StutterKeeps ==
  ASSUME IInv, UNCHANGED vars
  PROVE  IInv'
<1>1. \A d \in Conns : ConnKept(d)'
  BY OthersKept DEF IInv, vars, loopVars, connVars
<1>2. TypeOK'
  BY SetupKept DEF IInv, vars, loopVars, connVars, TypeOK
<1>3. ServingKept'
  <2>1. Quiet' = Quiet
    BY DEF Quiet, Live, vars, loopVars, connVars
  <2> QED
    BY <2>1, SetupKept DEF IInv, vars, loopVars, connVars, ServingKept, LinkKept, LoopKept
<1> QED
  BY <1>1, <1>2, <1>3 DEF IInv

LEMMA Invariance == Spec => []IInv
<1>1. IInv /\ [Next]_vars => IInv'
  BY HandleKeeps, LoopKeeps, StartAndDrainKeep, AcceptKeeps, DropKeeps, OpeningKeeps, ReceiveKeeps,
     AnswerKeeps, EndKeeps, PeerKeeps, StutterKeeps, Zenon
  DEF Next, LoopStep, ConnStep
<1> QED
  BY <1>1, InitOK, PTL DEF Spec

-----------------------------------------------------------------------------
\* The server's state stays well typed: on_connect and on_disconnect are called at most
\* once for each connection (SV-R-032, SV-R-033).
THEOREM ServerTypeCorrect == Spec => []TypeOK
<1>1. IInv => TypeOK
  BY DEF IInv
<1> QED
  BY <1>1, Invariance, PTL

\* The service hears of a connection's end once if it heard of its beginning and never
\* otherwise, unless its own handler panics or the serving future is dropped; and
\* serve_link fails exactly if the service was told of a failure (SV-R-033, SV-R-062).
THEOREM EndsAreHeardOf == Spec => []EndsAreAnnounced
<1>1. IInv => EndsAreAnnounced
  <2> SUFFICES ASSUME IInv PROVE EndsAreAnnounced
    OBVIOUS
  <2>1. ASSUME NEW c \in Conns
        PROVE  /\ disconnects[c] <= connects[c]
               /\ stage[c] = "gone" /\ c \notin torn => disconnects[c] = connects[c]
    <3>1. stage[c] \in Stages /\ Announced(c)
      BY DEF IInv, TypeOK, ConnKept
    <3> QED
      BY <3>1 DEF Announced, Stages, Notifying, Unannounced, Open
  <2>2. Mode = "link" /\ serving = "returned" => (result = "err" <=> reason[1] = "Failed")
    BY DEF IInv, ServingKept, LinkKept
  <2> QED
    BY <2>1, <2>2 DEF EndsAreAnnounced
<1> QED
  BY <1>1, Invariance, PTL

\* When shutdown() has returned no connection of a listener has a task, nor ever gets one
\* again, and serving returns only after all have ended (SV-R-044, SV-R-067).
THEOREM ShutdownIsQuiet == Spec => []ShutdownMeansQuiet
<1>1. IInv => ShutdownMeansQuiet
  BY DEF IInv, ServingKept, LoopKept, Quiet, ShutdownMeansQuiet
<1> QED
  BY <1>1, Invariance, PTL

\* On each connection at most one receive crosses a shutdown, and none ends for the
\* shutdown with a request in hand (SV-R-041, SV-R-042).
THEOREM ShutdownKeepsOrder == Spec => []ShutdownIsOrderly
<1>1. IInv => ShutdownIsOrderly
  BY DEF IInv, ConnKept, CrossedOnce, ShutdownIsOrderly
<1> QED
  BY <1>1, Invariance, PTL

\* No response is sent to a broadcast or to another unit's request (SV-R-021, SV-R-023).
THEOREM OthersAreNotAnswered == Spec => []AnswersOnlyOwnUnit
<1>1. IInv => AnswersOnlyOwnUnit
  BY DEF IInv, ConnKept, InHand, Dispatched, AnswersOnlyOwnUnit
<1> QED
  BY <1>1, Invariance, PTL

=============================================================================
