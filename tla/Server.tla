------------------------------- MODULE Server -------------------------------
(***************************************************************************)
(* Serving connections (src/server/mod.rs): the accept loop, one task per  *)
(* connection, the requests on each, and the shutdown handle that waits    *)
(* for all of them.                                                        *)
(*                                                                         *)
(* A connection's task and the serving loop run concurrently.  A biased    *)
(* select! looks at the shutdown flag first and then polls the other       *)
(* branch, between which another thread may set the flag; these are two    *)
(* steps.  Every notification of the service is awaited and is a stage.    *)
(***************************************************************************)
EXTENDS Naturals, Sequences, FiniteSetsExt

CONSTANTS
  Setups,       \* the servers to consider, records of
                \*   mode:    "listener" (serve_framed), "tls" (serve_tls), "link" (serve_link)
                \*   framing: "Tcp", "RtuOverTcp", "Rtu" or "Ascii"
                \*   unit:    ServerConfig::unit, or AnyUnit for None
                \*   units:   those requests are addressed to; 0 is the serial broadcast
  AnyUnit,
  MaxConns,     \* bound: connections accepted
  MaxArrivals,  \* bound: frames and failures all peers send
  MaxErrors,    \* bound: failed accepts
  MaxPanics     \* bound: handlers that panic

ASSUME ServerAssumption ==
  /\ \A s \in Setups :
       /\ s.mode \in {"listener", "tls", "link"}
       /\ s.framing \in {"Tcp", "RtuOverTcp", "Rtu", "Ascii"}
       /\ s.units \subseteq 0..255 /\ s.unit \in s.units \cup {AnyUnit}
  /\ AnyUnit \notin 0..255
  /\ MaxConns \in Nat /\ MaxArrivals \in Nat /\ MaxErrors \in Nat /\ MaxPanics \in Nat

Conns == 1..MaxConns

\* The serving loop, as the holder of a receiver: no connection has this id.
Loop == 0

VARIABLES
  setup,           \* the server considered, chosen once
  shutdown,        \* the value of the watch channel
  receivers,       \* who holds a receiver of it: connections, and the Loop
  waiter,          \* the call of ServerHandle::shutdown
  serving,         \* the serving future
  result,          \* what it returns
  next_connection, \* Server::next_connection
  errors,          \* history: failed accepts
  stage,           \* where each connection's task stands
  reason,          \* the Disconnect it ends with
  request,         \* the request each task is working on
  arrivals,        \* what the peer has sent and the task has not read
  sent,            \* history: how much the peer sent
  connects,        \* history: on_connect notifications
  disconnects,     \* history: on_disconnect notifications
  late,            \* history: requests read since shutdown was requested
  torn             \* history: connections whose task did not run to its end

loopVars == <<shutdown, receivers, waiter, serving, result, next_connection, errors>>
connVars == <<setup, stage, reason, request, arrivals, sent, connects, disconnects, late, torn>>
vars == <<loopVars, connVars>>

Mode == setup.mode
Framing == setup.framing
Units == setup.units
Unit == setup.unit

Request(u) == [kind |-> "request", unit |-> u]
NoRequest == [kind |-> "none", unit |-> AnyUnit]

\* What recv_request yields besides a request: a close between two ADUs, one
\* inside an ADU (or another I/O failure), an undecodable ADU, and on ASCII an ADU
\* that stops for longer than the inter-character timeout.
Failures == {[kind |-> k, unit |-> AnyUnit] : k \in
               {"eof", "cut", "undecodable"} \cup (IF Framing = "Ascii" THEN {"stall"} ELSE {})}
Arrivals == {Request(u) : u \in Units} \cup Failures

\* FR-R-144: the next boundary is on the wire, not in the frame that failed.
SelfLocating == Framing \in {"Rtu", "Ascii"}

\* Error::ends_stream: I/O failures, closed connections and timeouts.
EndsStream(kind) == kind \in {"eof", "cut", "stall"}

\* ServerFraming::is_broadcast.
IsBroadcast(u) == Framing # "Tcp" /\ u = 0

\* The stages in which code of the service runs on the connection's behalf.
Notifying == {"on_connect", "on_request", "on_error", "on_error_fatal", "on_disconnect",
              "on_tls_handshake_failed"}
Stages == Notifying \cup {"absent", "handshake", "reading", "polling", "sending", "gone"}

\* Why a connection may end.
Reasons == {"Closed", "Rejected", "Failed", "ShuttingDown"}

Live(c) == stage[c] \notin {"absent", "gone"}

-----------------------------------------------------------------------------
Init ==
  /\ setup \in Setups
  /\ shutdown = FALSE
  /\ receivers = {}
  /\ waiter = "none"
  /\ serving = "created"
  /\ result = "none"
  /\ next_connection = 1
  /\ errors = 0
  /\ stage = [c \in Conns |-> "absent"]
  /\ reason = [c \in Conns |-> "none"]
  /\ request = [c \in Conns |-> NoRequest]
  /\ arrivals = [c \in Conns |-> <<>>]
  /\ sent = [c \in Conns |-> 0]
  /\ connects = [c \in Conns |-> 0]
  /\ disconnects = [c \in Conns |-> 0]
  /\ late = [c \in Conns |-> 0]
  /\ torn = {}

-----------------------------------------------------------------------------
(* The shutdown handle.                                                     *)

\* Mutant of RequestShutdown: send, which discards the value without receivers.
RequestShutdownSend ==
  /\ waiter = "none"
  /\ waiter' = "waiting"
  /\ shutdown' = (receivers # {})
  /\ UNCHANGED <<receivers, serving, result, next_connection, errors, connVars>>

\* shutdown: set the flag whether or not anyone has subscribed, then wait.
RequestShutdown ==
  /\ waiter = "none"
  /\ waiter' = "waiting"
  /\ shutdown' = TRUE
  /\ UNCHANGED <<receivers, serving, result, next_connection, errors, connVars>>

\* closed() completes when no receiver is left.
ShutdownReturns ==
  /\ waiter = "waiting" /\ receivers = {}
  /\ waiter' = "returned"
  /\ UNCHANGED <<shutdown, receivers, serving, result, next_connection, errors, connVars>>

-----------------------------------------------------------------------------
(* The serving loop.                                                        *)

\* A connection is taken up under the next identifier, subscribes to the
\* signal and gets its own task (on a link, the serving future itself).
TakeUp(first) ==
  /\ next_connection \in Conns
  /\ next_connection' = next_connection + 1
  /\ stage' = [stage EXCEPT ![next_connection] = first]
  /\ connects' = [connects EXCEPT ![next_connection] = IF first = "on_connect" THEN 1 ELSE 0]
  /\ UNCHANGED <<setup, reason, request, arrivals, sent, disconnects, late, torn>>

\* serve, serve_framed or serve_tls is called.
ServeListener ==
  /\ Mode # "link" /\ serving = "created"
  /\ serving' = "accepting"
  /\ receivers' = {Loop}
  /\ UNCHANGED <<shutdown, waiter, result, next_connection, errors, connVars>>

\* serve_link is called.
ServeLink ==
  /\ Mode = "link" /\ serving = "created"
  /\ serving' = "link"
  /\ receivers' = {next_connection}
  /\ TakeUp("on_connect")
  /\ UNCHANGED <<shutdown, waiter, result, errors>>

\* next_accept, first select!: shutdown is looked at before accept is polled.
PollAccept ==
  /\ serving = "accepting"
  /\ serving' = IF shutdown THEN "draining" ELSE "polling"
  /\ result' = IF shutdown THEN "ok" ELSE result
  /\ UNCHANGED <<shutdown, receivers, waiter, next_connection, errors, connVars>>

AcceptPending ==
  /\ serving = "polling"
  /\ serving' = "accepting"
  /\ UNCHANGED <<shutdown, receivers, waiter, result, next_connection, errors, connVars>>

\* A connection is accepted and spawned; on TLS its handshake is still to come,
\* but the identifier is already spent.
Accept ==
  /\ serving = "polling"
  /\ serving' = "accepting"
  /\ receivers' = receivers \cup {next_connection}
  /\ TakeUp(IF Mode = "tls" THEN "handshake" ELSE "on_connect")
  /\ UNCHANGED <<shutdown, waiter, result, errors>>

\* accept fails: on_accept_error is called, raced against shutdown.
FailAccept ==
  /\ serving = "polling" /\ errors < MaxErrors
  /\ errors' = errors + 1
  /\ serving' = "on_accept_error"
  /\ UNCHANGED <<shutdown, receivers, waiter, result, next_connection, connVars>>

\* next_accept, second select!: shutdown, on which the hook is dropped, is looked
\* at before the hook is polled.
PollHook ==
  /\ serving = "on_accept_error"
  /\ serving' = IF shutdown THEN "draining" ELSE "hook"
  /\ result' = IF shutdown THEN "ok" ELSE result
  /\ UNCHANGED <<shutdown, receivers, waiter, next_connection, errors, connVars>>

HookPending ==
  /\ serving = "hook"
  /\ serving' = "on_accept_error"
  /\ UNCHANGED <<shutdown, receivers, waiter, result, next_connection, errors, connVars>>

\* Mutant of HookAnswers: Stop returns the error without the drain.
HookAnswersUndrained ==
  /\ serving = "hook"
  /\ \/ serving' = "accepting" /\ UNCHANGED <<result, receivers>>
     \/ serving' = "returned" /\ result' = "err" /\ receivers' = receivers \ {Loop}
  /\ UNCHANGED <<shutdown, waiter, next_connection, errors, connVars>>

\* on_accept_error answers Continue or Stop.
HookAnswers ==
  /\ serving = "hook"
  /\ \/ serving' = "accepting" /\ UNCHANGED result
     \/ serving' = "draining" /\ result' = "err"
  /\ UNCHANGED <<shutdown, receivers, waiter, next_connection, errors, connVars>>

\* join_next has returned None: serving returns.
Drained ==
  /\ serving = "draining" /\ \A c \in Conns : ~Live(c)
  /\ serving' = "returned"
  /\ receivers' = receivers \ {Loop}
  /\ UNCHANGED <<shutdown, waiter, result, next_connection, errors, connVars>>

-----------------------------------------------------------------------------
(* One connection.                                                          *)

\* The task of c moves from one stage to another and does nothing else.
Goto(c, from, to) ==
  /\ stage[c] = from
  /\ stage' = [stage EXCEPT ![c] = to]

\* Connection c ends: on_disconnect is called with the reason.
Disconnect(c, why) ==
  /\ stage' = [stage EXCEPT ![c] = "on_disconnect"]
  /\ reason' = [reason EXCEPT ![c] = why]
  /\ disconnects' = [disconnects EXCEPT ![c] = @ + 1]

\* The TLS handshake completes and the connection is announced, or fails and
\* on_tls_handshake_failed is called instead.
Handshake(c) ==
  /\ \/ Goto(c, "handshake", "on_connect") /\ connects' = [connects EXCEPT ![c] = @ + 1]
     \/ Goto(c, "handshake", "on_tls_handshake_failed") /\ UNCHANGED connects
  /\ UNCHANGED <<setup, loopVars, reason, request, arrivals, sent, disconnects, late, torn>>

\* Mutant of ConnectAnswered: a rejected connection ends without a notification.
ConnectAnsweredSilently(c) ==
  /\ \/ Goto(c, "on_connect", "reading") /\ UNCHANGED receivers
     \/ Goto(c, "on_connect", "gone") /\ receivers' = receivers \ {c}
  /\ UNCHANGED <<setup, shutdown, waiter, serving, result, next_connection, errors,
                 reason, request, arrivals, sent, connects, disconnects, late, torn>>

\* on_connect answers Accept or Reject.
ConnectAnswered(c) ==
  /\ \/ Goto(c, "on_connect", "reading") /\ UNCHANGED <<reason, disconnects>>
     \/ stage[c] = "on_connect" /\ Disconnect(c, "Rejected")
  /\ UNCHANGED <<setup, loopVars, request, arrivals, sent, connects, late, torn>>

\* Mutant of PollReceive: the select! is not biased.
PollReceiveUnbiased(c) ==
  /\ stage[c] = "reading"
  /\ \/ shutdown /\ Disconnect(c, "ShuttingDown")
     \/ Goto(c, "reading", "polling") /\ UNCHANGED <<reason, disconnects>>
  /\ UNCHANGED <<setup, loopVars, request, arrivals, sent, connects, late, torn>>

\* exchange's select!: shutdown is looked at before the receive is polled.
PollReceive(c) ==
  /\ stage[c] = "reading"
  /\ \/ shutdown /\ Disconnect(c, "ShuttingDown")
     \/ ~shutdown /\ Goto(c, "reading", "polling") /\ UNCHANGED <<reason, disconnects>>
  /\ UNCHANGED <<setup, loopVars, request, arrivals, sent, connects, late, torn>>

ReceivePending(c) ==
  /\ Goto(c, "polling", "reading")
  /\ arrivals[c] = <<>>
  /\ UNCHANGED <<setup, loopVars, reason, request, arrivals, sent, connects, disconnects, late, torn>>

\* Mutant of Dispatched: the unit filter is left to the service.
DispatchedAll(u) == TRUE

\* Whether a request reaches the service: a broadcast whatever the
\* configuration, any other one if its unit is the configured one.
Dispatched(u) == IsBroadcast(u) \/ Unit \in {AnyUnit, u}

\* A request arrives: it is dispatched to on_request, or ignored.
ReceiveRequest(c) ==
  /\ stage[c] = "polling" /\ arrivals[c] # <<>>
  /\ Head(arrivals[c]).kind = "request"
  /\ arrivals' = [arrivals EXCEPT ![c] = Tail(@)]
  /\ late' = [late EXCEPT ![c] = IF shutdown THEN @ + 1 ELSE @]
  /\ \/ /\ Dispatched(Head(arrivals[c]).unit)
        /\ request' = [request EXCEPT ![c] = Head(arrivals[c])]
        /\ stage' = [stage EXCEPT ![c] = "on_request"]
     \/ /\ ~Dispatched(Head(arrivals[c]).unit)
        /\ stage' = [stage EXCEPT ![c] = "reading"]
        /\ UNCHANGED request
  /\ UNCHANGED <<setup, loopVars, reason, sent, connects, disconnects, torn>>

\* The receive fails: a close between ADUs ends the connection; any other
\* failure is reported, and ends it if it ended the stream or hid the boundary.
FailReceive(c) ==
  /\ stage[c] = "polling" /\ arrivals[c] # <<>>
  /\ Head(arrivals[c]) \in Failures
  /\ arrivals' = [arrivals EXCEPT ![c] = Tail(@)]
  /\ LET kind == Head(arrivals[c]).kind
         fatal == EndsStream(kind) \/ ~SelfLocating
     IN  \/ kind = "eof" /\ Disconnect(c, "Closed")
         \/ /\ kind # "eof"
            /\ Goto(c, "polling", IF fatal THEN "on_error_fatal" ELSE "on_error")
            /\ UNCHANGED <<reason, disconnects>>
  /\ UNCHANGED <<setup, loopVars, request, sent, connects, late, torn>>

\* on_error returns.
ErrorReported(c) ==
  /\ \/ Goto(c, "on_error", "reading") /\ UNCHANGED <<reason, disconnects>>
     \/ stage[c] = "on_error_fatal" /\ Disconnect(c, "Failed")
  /\ request' = [request EXCEPT ![c] = NoRequest]
  /\ UNCHANGED <<setup, loopVars, arrivals, sent, connects, late, torn>>

\* on_request returns: nothing is sent if the service withholds its answer or
\* the request was a broadcast; else the response, or the exception, is.
RequestAnswered(c) ==
  /\ \/ /\ Goto(c, "on_request", "reading")
        /\ request' = [request EXCEPT ![c] = NoRequest]
     \/ /\ ~IsBroadcast(request[c].unit)
        /\ Goto(c, "on_request", "sending")
        /\ UNCHANGED request
  /\ UNCHANGED <<setup, loopVars, reason, arrivals, sent, connects, disconnects, late, torn>>

\* send_response returns: sent, failed with the stream, or not encodable.
ResponseSent(c) ==
  /\ \/ Goto(c, "sending", "reading") /\ request' = [request EXCEPT ![c] = NoRequest]
     \/ Goto(c, "sending", "on_error_fatal") /\ UNCHANGED request
     \/ Goto(c, "sending", "on_error") /\ UNCHANGED request
  /\ UNCHANGED <<setup, loopVars, reason, arrivals, sent, connects, disconnects, late, torn>>

\* The task returns and drops its receiver; a link's serving future returns
\* with it, as its result the reason on_disconnect was given.
TaskReturns(c) ==
  /\ \/ Goto(c, "on_disconnect", "gone") \/ Goto(c, "on_tls_handshake_failed", "gone")
  /\ receivers' = receivers \ {c}
  /\ \/ Mode = "link" /\ serving' = "returned"
        /\ result' = IF reason[c] = "Failed" THEN "err" ELSE "ok"
     \/ Mode # "link" /\ UNCHANGED <<serving, result>>
  /\ UNCHANGED <<setup, shutdown, waiter, next_connection, errors,
                 reason, request, arrivals, sent, connects, disconnects, late, torn>>

\* A handler panics: the runtime ends its task, and join_next passes over the failure.
\* On a link nothing is in between, and the serving future goes with it.
HandlerPanics(c) ==
  /\ stage[c] \in Notifying /\ Cardinality(torn) < MaxPanics
  /\ stage' = [stage EXCEPT ![c] = "gone"]
  /\ torn' = torn \cup {c}
  /\ receivers' = receivers \ {c}
  /\ serving' = IF Mode = "link" THEN "dropped" ELSE serving
  /\ UNCHANGED <<setup, shutdown, waiter, result, next_connection, errors,
                 reason, request, arrivals, sent, connects, disconnects, late>>

\* The serving future is dropped where it waits, or on_accept_error panics: with it go the loop's
\* receiver, the connection of a link, and the JoinSet, which has the tasks aborted.
DropServing ==
  /\ \/ serving \in {"accepting", "on_accept_error", "hook", "draining"}
     \/ serving = "link" /\ stage[1] # "polling"
  /\ serving' = "dropped"
  /\ LET own == IF Mode = "link" THEN {1} ELSE {} IN
     /\ receivers' = receivers \ (own \cup {Loop})
     /\ stage' = [c \in Conns |-> IF c \in own THEN "gone" ELSE stage[c]]
     /\ torn' = torn \cup own
  /\ UNCHANGED <<setup, shutdown, waiter, result, next_connection, errors,
                 reason, request, arrivals, sent, connects, disconnects, late>>

\* A task that is to be aborted is dropped the next time it waits.
Aborted(c) ==
  /\ serving = "dropped" /\ Live(c) /\ stage[c] # "polling"
  /\ stage' = [stage EXCEPT ![c] = "gone"]
  /\ torn' = torn \cup {c}
  /\ receivers' = receivers \ {c}
  /\ UNCHANGED <<setup, shutdown, waiter, serving, result, next_connection, errors,
                 reason, request, arrivals, sent, connects, disconnects, late>>

\* The peer sends a request, damages one, hangs up or disappears.
PeerSends(c, a) ==
  /\ stage[c] # "absent"
  /\ MapThenSumSet(LAMBDA d : sent[d], Conns) < MaxArrivals
  /\ \A i \in DOMAIN arrivals[c] : arrivals[c][i].kind \notin {"eof", "cut"}
  /\ sent' = [sent EXCEPT ![c] = @ + 1]
  /\ arrivals' = [arrivals EXCEPT ![c] = Append(@, a)]
  /\ UNCHANGED <<setup, loopVars, stage, reason, request, connects, disconnects, late, torn>>

ConnStep(c) ==
  \/ ConnectAnswered(c) \/ PollReceive(c) \/ ReceivePending(c)
  \/ ReceiveRequest(c) \/ FailReceive(c) \/ ErrorReported(c) \/ RequestAnswered(c)
  \/ ResponseSent(c) \/ TaskReturns(c)

LoopStep ==
  \/ PollAccept \/ AcceptPending \/ Accept \/ FailAccept
  \/ PollHook \/ HookPending \/ HookAnswers \/ Drained

Next ==
  \/ RequestShutdown \/ ShutdownReturns \/ ServeListener \/ ServeLink \/ LoopStep
  \/ DropServing
  \/ \E c \in Conns : ConnStep(c) \/ Handshake(c) \/ HandlerPanics(c) \/ Aborted(c)
  \/ \E c \in Conns, a \in Arrivals : PeerSends(c, a)

Spec == Init /\ [][Next]_vars

\* The runtime polls what is ready, the service's handlers return, and a write
\* to a peer completes or fails.
SchedulingFairness ==
  /\ WF_vars(ShutdownReturns) /\ WF_vars(LoopStep)
  /\ \A c \in Conns : WF_vars(ConnStep(c)) /\ WF_vars(Aborted(c))

\* A TLS peer completes its handshake, or the handshake fails.
HandshakeFairness == \A c \in Conns : WF_vars(Handshake(c))

FairSpec == Spec /\ SchedulingFairness /\ HandshakeFairness

\* Nothing bounds a handshake.
StallingSpec == Spec /\ SchedulingFairness

-----------------------------------------------------------------------------
(* Properties.                                                              *)

\* The server's state is well typed: in particular on_connect and on_disconnect are
\* called at most once for a connection (SV-R-032, SV-R-033).
TypeOK ==
  /\ setup \in Setups
  /\ shutdown \in BOOLEAN
  /\ receivers \subseteq Conns \cup {Loop}
  /\ waiter \in {"none", "waiting", "returned"}
  /\ serving \in {"created", "accepting", "polling", "on_accept_error", "hook", "draining",
                  "link", "returned", "dropped"}
  /\ result \in {"none", "ok", "err"}
  /\ next_connection \in 1..(MaxConns + 1)
  /\ errors \in 0..MaxErrors
  /\ stage \in [Conns -> Stages]
  /\ reason \in [Conns -> Reasons \cup {"none"}]
  /\ request \in [Conns -> {Request(u) : u \in Units} \cup {NoRequest}]
  /\ arrivals \in [Conns -> Seq(Arrivals)]
  /\ sent \in [Conns -> Nat]
  /\ connects \in [Conns -> 0..1] /\ disconnects \in [Conns -> 0..1]
  /\ late \in [Conns -> Nat] /\ torn \subseteq Conns

\* SV-R-033: the service hears of the end of a connection once if it heard of
\* its beginning, and never otherwise; a failed handshake is neither.  Only a panic of its
\* own handler, or the end of the serving future, keeps a connection's end from it.
\* SV-R-062: serve_link fails exactly if the service was told of a failure.
EndsAreAnnounced ==
  /\ \A c \in Conns :
       /\ disconnects[c] <= connects[c]
       /\ stage[c] = "gone" /\ c \notin torn => disconnects[c] = connects[c]
  /\ Mode = "link" /\ serving = "returned" => (result = "err" <=> reason[1] = "Failed")

\* SV-R-044, SV-R-067: when shutdown() returns, and ever after, no connection of a listener has a
\* task, even if serving begins only after the call or its future is dropped; and serving returns
\* only after every connection it took up has ended, on an accept error as on a shutdown.
ShutdownMeansQuiet ==
  (Mode # "link" /\ waiter = "returned") \/ serving = "returned" => \A c \in Conns : ~Live(c)

\* SV-R-041, SV-R-042: a shutdown may cross one receive that was already being polled on each
\* connection, never a second one, and no connection ends for it with a request in hand.
ShutdownIsOrderly ==
  \A c \in Conns : late[c] <= 1 /\ (reason[c] = "ShuttingDown" => request[c] = NoRequest)

\* SV-R-021, SV-R-023: no response is sent to a broadcast or to a request for
\* another unit, which would corrupt another device's exchange on the bus.
AnswersOnlyOwnUnit ==
  \A c \in Conns : stage[c] = "sending" =>
    ~IsBroadcast(request[c].unit) /\ Unit \in {AnyUnit, request[c].unit}

\* SV-R-044: a requested shutdown completes, if handlers return and peers
\* take or refuse what is written to them.
ShutdownCompletes == waiter = "waiting" ~> waiter = "returned"

-----------------------------------------------------------------------------
(* Statements of the repository's own documents that the code does not      *)
(* keep; README.md says how each one fails.                                 *)

\* ServerHandle::shutdown: it "Returns once every connection has ended and
\* serving has returned, so a caller knows no handler is still running".
NoHandlerAfterShutdown ==
  waiter = "returned" => \A c \in Conns : stage[c] \notin Notifying

\* SV-R-056: "No Connection/ConnectionId is ever assigned to a connection whose
\* handshake failed".
IdsOnlyForConnections ==
  \A c \in Conns : c < next_connection /\ stage[c] = "gone" => connects[c] = 1

\* SV-E-016: "A peer that connects and sends nothing" is "Held open, one task idle,
\* until it closes or shutdown".
SilentPeersLetGo ==
  \A c \in Conns : (Live(c) /\ sent[c] = 0 /\ shutdown) ~> stage[c] = "gone"

\* README: on RTU and ASCII "line noise costs that exchange and nothing more", and
\* "a server stays on the bus rather than dropping".  Here, that only a stream which
\* is over ends a connection as failed.
StaysOnTheBus ==
  [][\A c \in Conns : SelfLocating /\ stage[c] = "polling" /\ stage'[c] = "on_error_fatal"
       => Head(arrivals[c]).kind = "cut"]_vars

=============================================================================
