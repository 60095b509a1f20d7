------------------------------ MODULE UdpServer ------------------------------
(***************************************************************************)
(* Serving a UDP socket (Server::serve_udp, next_datagram and              *)
(* serve_datagram in src/server/mod.rs): one loop receives and decodes,    *)
(* one task per datagram answers it.  Only the loop holds a receiver of    *)
(* the shutdown signal; a datagram's task is waited for, never told.  The  *)
(* future of serve_udp may be dropped, and any handler may panic.          *)
(***************************************************************************)
EXTENDS Naturals, Sequences, FiniteSets, Errors

CONSTANTS
  Kinds,        \* the kinds of datagram that arrive, of DatagramKinds
  MaxDatagrams, \* bound: datagrams that arrive
  SocketBuffer, \* datagrams the operating system keeps for the socket
  Targets,      \* "unix", "windows"
  SocketErrors, \* for each, what a receive may fail with
  MaxErrors     \* bound: failed receives, but for datagrams that do not fit

\* "own" is addressed to the configured unit (or none is configured), "other" to
\* another one, "undecodable" is neither; "oversized" is longer than the buffer.
DatagramKinds == {"own", "other", "undecodable", "oversized"}

ASSUME UdpServerAssumption ==
  /\ Kinds \subseteq DatagramKinds /\ Targets \subseteq {"unix", "windows"}
  /\ MaxDatagrams \in Nat /\ SocketBuffer \in Nat \ {0} /\ MaxErrors \in Nat
  /\ \A t \in Targets : "none" \notin SocketErrors[t]

Datagrams == 1..MaxDatagrams

VARIABLES
  shutdown,   \* the value of the watch channel
  subscribed, \* the loop holds its receiver
  waiter,     \* the call of ServerHandle::shutdown
  serving,    \* the serving future
  result,     \* what it returns
  target,     \* what the server was built for, chosen once
  overrides,  \* the service has an on_receive_error of its own, chosen once
  errors,     \* history: failed receives
  error,      \* the code of the one being handled, or that ended serving
  socket,     \* datagrams the operating system holds, oldest first
  kind,       \* what each datagram is
  stage,      \* what has become of each
  orphans     \* history: the tasks the serving future left behind when it was dropped

loopVars == <<subscribed, serving, result, target, overrides, errors, error>>
serviceVars == <<target, overrides>>
callVars == <<shutdown, waiter>>
vars == <<loopVars, callVars, socket, kind, stage, orphans>>

Running == {"filtering", "on_request", "sending", "on_error"}
Stages == Running \cup {"unsent", "queued", "dropped", "refused", "done"}
InFlight == {d \in Datagrams : stage[d] \in Running}

Init ==
  /\ shutdown = FALSE /\ subscribed = FALSE
  /\ waiter = "none"
  /\ serving = "created"
  /\ result = "none"
  /\ target \in Targets /\ overrides \in BOOLEAN
  /\ errors = 0 /\ error = "none"
  /\ socket = <<>>
  /\ kind = [d \in Datagrams |-> "none"]
  /\ stage = [d \in Datagrams |-> "unsent"]
  /\ orphans = {}

-----------------------------------------------------------------------------
\* The network delivers the next datagram, which the operating system keeps or drops.  What
\* reaches a socket that nobody will read is not modelled.
Arrive(d) ==
  /\ serving \notin {"returned", "dropped"}
  /\ stage[d] = "unsent" /\ \A e \in Datagrams : e < d => stage[e] # "unsent"
  /\ \E k \in Kinds : kind' = [kind EXCEPT ![d] = k]
  /\ \/ /\ Len(socket) < SocketBuffer
        /\ socket' = Append(socket, d)
        /\ stage' = [stage EXCEPT ![d] = "queued"]
     \/ /\ Len(socket) = SocketBuffer
        /\ stage' = [stage EXCEPT ![d] = "dropped"]
        /\ UNCHANGED socket
  /\ UNCHANGED <<loopVars, callVars, orphans>>

\* Mutant of RequestShutdown: send, which discards the value without receivers.
RequestShutdownSend ==
  /\ waiter = "none"
  /\ waiter' = "waiting" /\ shutdown' = subscribed
  /\ UNCHANGED <<loopVars, socket, kind, stage, orphans>>

\* ServerHandle::shutdown: the flag, then the wait for the last receiver.
RequestShutdown ==
  /\ waiter = "none"
  /\ waiter' = "waiting" /\ shutdown' = TRUE
  /\ UNCHANGED <<loopVars, socket, kind, stage, orphans>>

ShutdownReturns ==
  /\ waiter = "waiting" /\ ~subscribed
  /\ waiter' = "returned"
  /\ UNCHANGED <<loopVars, shutdown, socket, kind, stage, orphans>>

ServeUdp ==
  /\ serving = "created"
  /\ serving' = "receiving" /\ subscribed' = TRUE
  /\ UNCHANGED <<result, serviceVars, errors, error, callVars, socket, kind, stage, orphans>>

\* Both select!s of next_datagram: shutdown is looked at before the other branch,
\* the receive or the pending on_receive_error, is polled.
Poll ==
  /\ \/ serving = "receiving" /\ serving' = IF shutdown THEN "draining" ELSE "polling"
     \/ serving = "on_receive_error" /\ serving' = IF shutdown THEN "draining" ELSE "hook"
  /\ result' = IF shutdown THEN "ok" ELSE result
  /\ error' = IF shutdown THEN "none" ELSE error
  /\ UNCHANGED <<subscribed, serviceVars, errors, callVars, socket, kind, stage, orphans>>

Pending ==
  /\ \/ serving = "polling" /\ socket = <<>> /\ serving' = "receiving"
     \/ serving = "hook" /\ overrides /\ serving' = "on_receive_error"
  /\ UNCHANGED <<subscribed, result, serviceVars, errors, error, callVars, socket, kind, stage, orphans>>

\* recv_datagram_request: the kinds of datagram a buffer of MAX_ADU_LEN bytes may hold of one;
\* what is too long for it is cut off, unless the target has the receive fail.
Received(d) ==
  IF kind[d] # "oversized" THEN {kind[d]}
  ELSE IF target = "windows" THEN {} ELSE DatagramKinds \ {"oversized"}

\* A datagram is received: decoded and given its own task, or, if it cannot be
\* decoded, reported to on_error by the loop itself.
Receive ==
  /\ serving = "polling" /\ socket # <<>>
  /\ socket' = Tail(socket)
  /\ LET d == Head(socket) IN
     \E k \in Received(d) :
       /\ kind' = [kind EXCEPT ![d] = k]
       /\ \/ /\ k # "undecodable"
             /\ serving' = "receiving"
             /\ stage' = [stage EXCEPT ![d] = "filtering"]
          \/ /\ k = "undecodable"
             /\ serving' = "on_error"
             /\ stage' = [stage EXCEPT ![d] = "refused"]
  /\ UNCHANGED <<subscribed, result, serviceVars, errors, error, callVars, orphans>>

\* Mutant of DecodeErrorReported: a datagram that cannot be decoded ends the loop.
DecodeErrorFatal ==
  /\ serving = "on_error"
  /\ serving' = "ended"
  /\ UNCHANGED <<subscribed, result, serviceVars, errors, error, callVars, socket, kind, stage, orphans>>

\* The loop's on_error returns; shutdown is not looked at while it runs.
DecodeErrorReported ==
  /\ serving = "on_error"
  /\ serving' = "receiving"
  /\ UNCHANGED <<subscribed, result, serviceVars, errors, error, callVars, socket, kind, stage, orphans>>

\* The receive fails with an I/O error, for a reason of its own or, on Windows, because the datagram
\* does not fit: on_receive_error is called.
FailReceive ==
  /\ serving = "polling"
  /\ serving' = "on_receive_error"
  /\ \/ /\ errors < MaxErrors
        /\ errors' = errors + 1
        /\ error' \in SocketErrors[target]
        /\ UNCHANGED <<socket, stage>>
     \/ /\ socket # <<>> /\ Received(Head(socket)) = {}
        /\ error' = "WSAEMSGSIZE"
        /\ socket' = Tail(socket)
        /\ stage' = [stage EXCEPT ![Head(socket)] = "refused"]
        /\ UNCHANGED errors
  /\ UNCHANGED <<subscribed, result, serviceVars, callVars, kind, orphans>>

\* Mutant of HookAnswers: Stop returns the error at once.
HookAnswersUndrained ==
  /\ serving = "hook"
  /\ \E answer \in IF overrides THEN AcceptErrorAction ELSE {OnReceiveError(error, target)} :
       \/ answer = "Continue" /\ serving' = "receiving" /\ error' = "none"
          /\ UNCHANGED <<result, subscribed>>
       \/ answer = "Stop" /\ serving' = "returned" /\ result' = "err" /\ subscribed' = FALSE
          /\ UNCHANGED error
  /\ UNCHANGED <<serviceVars, errors, callVars, socket, kind, stage, orphans>>

\* on_receive_error answers Continue or Stop, which ends serving with the error.
HookAnswers ==
  /\ serving = "hook"
  /\ \E answer \in IF overrides THEN AcceptErrorAction ELSE {OnReceiveError(error, target)} :
       \/ answer = "Continue" /\ serving' = "receiving" /\ error' = "none" /\ UNCHANGED result
       \/ answer = "Stop" /\ serving' = "draining" /\ result' = "err" /\ UNCHANGED error
  /\ UNCHANGED <<subscribed, serviceVars, errors, callVars, socket, kind, stage, orphans>>

\* join_next has returned None: serving returns and drops its receiver.
Drained ==
  /\ serving = "draining" /\ InFlight = {}
  /\ serving' = "returned" /\ subscribed' = FALSE
  /\ UNCHANGED <<result, serviceVars, errors, error, callVars, socket, kind, stage, orphans>>

\* send_datagram_response_into: the response is sent, or does not encode, or the socket fails.
ResponseSent == {"done", "on_error"}

\* serve_datagram for another unit's request does nothing; for its own it calls
\* on_request, sends what that answers unless it withholds, and reports a failed send.
ServeDatagram(d) ==
  /\ \E to \in CASE stage[d] = "filtering" -> {IF kind[d] = "own" THEN "on_request" ELSE "done"}
                 [] stage[d] = "on_request" -> {"sending", "done"}
                 [] stage[d] = "sending" -> ResponseSent
                 [] stage[d] = "on_error" -> {"done"}
                 [] OTHER -> {} :
       stage' = [stage EXCEPT ![d] = to]
  /\ UNCHANGED <<loopVars, callVars, socket, kind, orphans>>

\* A handler panics: the runtime ends its task, and join_next passes over the failure.
HandlerPanics(d) ==
  /\ stage[d] \in {"on_request", "on_error"}
  /\ stage' = [stage EXCEPT ![d] = "done"]
  /\ UNCHANGED <<loopVars, callVars, socket, kind, orphans>>

\* The serving future is dropped where it waits, or a hook of the loop panics: with it go the only
\* receiver, and the JoinSet, which has the tasks aborted but does not wait for them.
DropServing ==
  /\ serving \in {"receiving", "on_error", "on_receive_error", "hook", "draining"}
  /\ serving' = "dropped" /\ subscribed' = FALSE
  /\ orphans' = InFlight /\ error' = "none"
  /\ UNCHANGED <<result, serviceVars, errors, callVars, socket, kind, stage>>

\* A task that is to be aborted is dropped the next time it waits.
Aborted(d) ==
  /\ d \in orphans /\ stage[d] \in Running
  /\ stage' = [stage EXCEPT ![d] = "done"]
  /\ UNCHANGED <<loopVars, callVars, socket, kind, orphans>>

LoopStep ==
  Poll \/ Pending \/ Receive \/ FailReceive \/ HookAnswers \/ Drained

Next ==
  \/ RequestShutdown \/ ShutdownReturns \/ ServeUdp \/ LoopStep \/ DecodeErrorReported
  \/ DropServing
  \/ \E d \in Datagrams : Arrive(d) \/ ServeDatagram(d) \/ HandlerPanics(d) \/ Aborted(d)

Spec == Init /\ [][Next]_vars

\* The runtime polls what is ready; the service answers requests, and a receive
\* error if it is polled often enough.
SchedulingFairness ==
  /\ WF_vars(ShutdownReturns) /\ WF_vars(LoopStep) /\ SF_vars(HookAnswers)
  /\ \A d \in Datagrams : WF_vars(ServeDatagram(d))

FairSpec == Spec /\ SchedulingFairness /\ WF_vars(DecodeErrorReported)

\* The service may take forever over the report of an undecodable datagram.
SlowReportSpec == Spec /\ SchedulingFairness

-----------------------------------------------------------------------------
\* The state is well typed: in particular serving returns only by draining.
TypeOK ==
  /\ shutdown \in BOOLEAN /\ subscribed \in BOOLEAN
  /\ waiter \in {"none", "waiting", "returned"}
  /\ serving \in {"created", "receiving", "polling", "on_error", "on_receive_error", "hook",
                  "draining", "returned", "dropped"}
  /\ result \in {"none", "ok", "err"}
  /\ target \in Targets /\ overrides \in BOOLEAN
  /\ errors \in 0..MaxErrors
  /\ error \in {"none", "WSAEMSGSIZE"} \cup UNION {SocketErrors[t] : t \in Targets}
  /\ socket \in Seq(Datagrams) /\ Len(socket) <= SocketBuffer
  /\ kind \in [Datagrams -> DatagramKinds \cup {"none"}]
  /\ stage \in [Datagrams -> Stages]
  /\ orphans \subseteq Datagrams

\* SV-R-044, SV-R-078, SV-R-079: when shutdown() or serve_udp returns, and ever after, no datagram
\* is being handled, although the tasks hold no receiver: the loop's outlives them.  What still is,
\* was being handled when the serving future was dropped, and goes on unobserved; nothing new is
\* taken up after that.
ShutdownMeansQuiet ==
  "returned" \in {waiter, serving} => InFlight \subseteq orphans /\ serving # "on_error"

\* The failures of a receive that a peer or the path to it causes: on Windows the port that the peer
\* has closed (SV-E-039) and the datagram that it has made too long (SV-E-042).
PeerErrors(on) ==
  IF on = "windows" THEN {"WSAECONNRESET", "WSAEMSGSIZE"}
  ELSE {"ECONNRESET", "EHOSTUNREACH", "ENETUNREACH"}

\* SV-R-051, SV-R-058, SV-R-074: unless the service has its own answer to a failed receive, serving
\* returns only for a shutdown or with a failure of the socket that no peer has caused: not for a
\* datagram that does not decode, does not fit or cannot be answered.
NoPeerStopsServing ==
  serving \in {"draining", "returned"} /\ ~overrides =>
    shutdown \/ (result = "err" /\ error \notin PeerErrors(target) \cup {"none"})

\* SV-R-044: a requested shutdown completes.
ShutdownCompletes == waiter = "waiting" ~> waiter = "returned"

\* SV-R-077: a datagram the socket holds is taken up unless serving ends.
DatagramsAreTakenUp ==
  \A d \in Datagrams :
    (stage[d] = "queued" /\ serving \notin {"created", "draining", "returned", "dropped"})
      ~> (stage[d] # "queued" \/ serving \in {"draining", "returned", "dropped"})

-----------------------------------------------------------------------------
(* Statements of the repository's documents that the code does not keep.    *)

\* serve_udp: "A datagram that fails to decode ... costs nothing beyond itself
\* (SV-R-058, TR-R-098)".  Here, that it does not keep the others from being taken up.
UndecodableCostsNothing == DatagramsAreTakenUp

\* SV-R-044: a shutdown completes only once "serving has returned, so that a caller awaiting it
\* knows no handler is still running".  Here, with a serving future that was dropped.
NoHandlerAfterShutdown == waiter = "returned" => InFlight = {}

=============================================================================
