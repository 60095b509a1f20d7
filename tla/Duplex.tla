------------------------------- MODULE Duplex -------------------------------
(***************************************************************************)
(* The pipelined client and the server's loop for its connection, over a   *)
(* stream that holds only so much in each direction.  The client's task    *)
(* does not read while it writes, and neither does the server's: each may  *)
(* wait for the other to make room.                                        *)
(*                                                                         *)
(* The client is the one of Pipeline, every step of it.  A request is on   *)
(* its way from the first byte of its write, and the write returns once    *)
(* what the stream cannot hold has been read.                              *)
(***************************************************************************)
EXTENDS Pipeline

CONSTANTS
  RequestRoom,  \* requests the stream to the server holds
  ResponseRoom  \* responses the stream to the client holds

\* A stream is what TcpTransport is over, where a timeout desynchronizes the handle.
ASSUME DuplexAssumption == TimeoutDesyncs /\ RequestRoom \in Nat /\ ResponseRoom \in Nat

VARIABLES
  requests, \* the calls whose requests the server has not read
  server    \* the server's task, and the call it is at

duplexVars == <<vars, requests, server>>

DuplexInit == Init /\ requests = <<>> /\ server = [at |-> "reading", of |-> Nobody]

-----------------------------------------------------------------------------
\* The steps of the client that do not touch the stream to the server.
ClientStep ==
  /\ \/ \E c \in Calls : Send(c) \/ TrySend(c) \/ Cancel(c) \/ CallStep(c) \/ Expire(c)
     \/ \E r \in responses : Receive(r)
     \/ DropHandles \/ RefuseCommand \/ FailWrite \/ FailReceive \/ Stop \/ Break
  /\ UNCHANGED <<requests, server>>

\* send_request begins to write.
BeginRequest ==
  /\ StartWrite
  /\ requests' = Append(requests, writing')
  /\ UNCHANGED server

\* It returns once the rest of the request fits.
EndRequest ==
  /\ FinishWrite /\ Len(requests) <= RequestRoom
  /\ UNCHANGED <<requests, server>>

\* exchange in server/mod.rs reads a request, and its handler runs.
TakeRequest ==
  /\ server.at = "reading" /\ requests # <<>>
  /\ server' = [at |-> "handling", of |-> Head(requests)]
  /\ requests' = Tail(requests)
  /\ UNCHANGED vars

\* The handler has an answer, and send_response begins to write it.
BeginResponse ==
  /\ server.at = "handling" /\ PeerAnswer(server.of)
  /\ server' = [server EXCEPT !.at = "writing"]
  /\ UNCHANGED requests

\* The request is not answered.
KeepSilent ==
  /\ server.at = "handling"
  /\ server' = [at |-> "reading", of |-> Nobody]
  /\ UNCHANGED <<vars, requests>>

\* send_response returns once the rest of the response fits.
EndResponse ==
  /\ server.at = "writing" /\ Cardinality(responses) <= ResponseRoom
  /\ server' = [at |-> "reading", of |-> Nobody]
  /\ UNCHANGED <<vars, requests>>

\* The server's task, which does one thing at a time.
ServerStep == TakeRequest \/ BeginResponse \/ KeepSilent \/ EndResponse

DuplexNext == ClientStep \/ BeginRequest \/ EndRequest \/ ServerStep

DuplexSpec == DuplexInit /\ [][DuplexNext]_duplexVars

\* Both tasks and every future are scheduled, timers fire and handlers return.  A write gets room
\* only as the other side reads.
DuplexFairness ==
  /\ \A c \in Calls :
       /\ WF_duplexVars(CallStep(c) /\ UNCHANGED <<requests, server>>)
       /\ WF_duplexVars(Expire(c) /\ UNCHANGED <<requests, server>>)
  /\ WF_duplexVars(RefuseCommand /\ UNCHANGED <<requests, server>>)
  /\ WF_duplexVars(FailReceive /\ UNCHANGED <<requests, server>>)
  /\ WF_duplexVars(BeginRequest \/ EndRequest)
  /\ WF_duplexVars(ServerStep)

FairDuplexSpec == DuplexSpec /\ DuplexFairness

-----------------------------------------------------------------------------
(* Properties.                                                              *)

\* Each side waits for the other to read.
Standstill ==
  /\ writing # Nobody /\ Len(requests) > RequestRoom
  /\ server.at = "writing" /\ Cardinality(responses) > ResponseRoom

\* The calls that were dropped while their request was on the wire: their permits are free again.
Abandoned == {c \in written : phase[c] = "cancelled"}

\* What keeps the two tasks from waiting for one another is max_in_flight, while the stream has
\* room for that many: a standstill takes more requests on the way than there are permits, which
\* only futures dropped before their answer can bring about; holds until an id is reused.
StandstillTakesMore ==
  ~reused /\ Standstill => RequestRoom + ResponseRoom + 2 <= MaxInFlight + Cardinality(Abandoned)

\* Although neither task reads while it writes, the calls under way all return, answered, timed out
\* or refused, and those begun in the meantime with them; unless a future was dropped before its
\* answer.
ReturnsUnlessAbandoned ==
  (\E c \in Calls : Active(c)) ~> (\A c \in Calls : ~Active(c)) \/ Abandoned # {}

=============================================================================
