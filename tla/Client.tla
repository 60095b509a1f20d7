------------------------------- MODULE Client -------------------------------
(***************************************************************************)
(* The async client (src/client/mod.rs): one exchange at a time over one   *)
(* transport, and what it knows about its own usability.                   *)
(*                                                                         *)
(* The transport is seen from the client: a write that takes time, and a   *)
(* receive that yields what arrived, one frame or failure at a time, and   *)
(* whose `receiving` latch stays set when the receive is dropped.  The     *)
(* caller may drop the future of a call at either await point.             *)
(***************************************************************************)
EXTENDS Integers, Sequences

CONSTANTS
  Framings,     \* of "Tcp", "Tls" (Tcp through a stream with a buffer of its own), "Udp" (Tcp in
                \* datagrams), "RtuOverTcp", "Rtu", "Ascii"
  Units,        \* unit identifiers, 0 being the broadcast of the serial framings
  Strays,       \* headers of frames that reply to no request of this client
  MaxTid,       \* highest transaction id; 65535 in the code
  MaxRequests,  \* bound: requests whose write is begun
  MaxReplies,   \* bound: times a datagram with a reply is delivered
  MaxInbox,     \* bound: frames on their way to the client
  MaxNoise      \* bound: damaged frames, mid-frame stalls and replies to misread bytes

ASSUME ClientAssumption ==
  /\ Framings \subseteq {"Tcp", "Tls", "Udp", "RtuOverTcp", "Rtu", "Ascii"}
  /\ Units \subseteq Nat
  /\ Strays \subseteq [tid : Nat, unit : Nat]
  /\ MaxTid \in Nat \ {0} /\ MaxRequests \in Nat /\ MaxReplies \in Nat \ {0}
  /\ MaxInbox \in Nat /\ MaxNoise \in Nat

VARIABLES
  framing,          \* the client's framing, chosen once
  state,            \* Client::state
  next_transaction, \* Client::next_transaction
  receiving,        \* the transport's latch (TR-R-090)
  phase,            \* where the call in progress stands
  overdue,          \* its deadline has passed
  requests,         \* history: the requests whose write was begun
  outcome,          \* what the last call returned, and from which reply
  inbox,            \* what the transport will yield, in arrival order
  noise             \* history: damaged frames, stalls and replies to misread bytes so far

vars == <<framing, state, next_transaction, receiving, phase, overdue, requests, outcome,
          inbox, noise>>

\* The MBAP header carries a transaction id; a serial header is the unit alone.
HasTid == framing \in {"Tcp", "Tls", "Udp"}

\* FR-R-144: the next boundary is on the wire, not in the frame that failed.
SelfLocating == framing \in {"Rtu", "Ascii"}

IsBroadcast(u) == ~HasTid /\ u = 0

UnusableReasons == {"PeerClosed", "Io", "Silent", "Undecodable"}
Usable == state \notin UnusableReasons

\* What recv_response can yield: a frame with the expected or another function
\* code, or a failure.  `of` is the request it replies to, 0 for none.
Arrival(kind, tid, unit, of) == [kind |-> kind, tid |-> tid, unit |-> unit, of |-> of]
Failure(kind) == Arrival(kind, 0, 0, 0)
Failures == {"undecodable", "stalled", "closed", "io"}

Outcome(result, from) == [result |-> result, from |-> from]

Current == Len(requests)

\* ClientFraming::is_response_to.
IsResponseTo(r, a) == a.unit = r.unit /\ (HasTid => a.tid = r.tid)

\* classify_unusable_reason.
Classify(kind) ==
  CASE kind = "closed" -> "PeerClosed"
    [] kind = "io" -> "Io"
    [] kind = "stalled" -> "Silent"
    [] kind = "undecodable" -> "Undecodable"

\* Error::ends_stream.
EndsStream(kind) == kind # "undecodable"

\* next: the id after the highest one is 1, never 0 (CL-R-011).
NextTid(t) == IF t = MaxTid THEN 1 ELSE t + 1

\* Some request was left half-written: what follows it on the wire may be read with other
\* boundaries than it was written with.
Torn == \E i \in DOMAIN requests : requests[i].reach = "part"

\* The MBAP framings whose ADUs follow one another on a stream.
MbapStream == framing \in {"Tcp", "Tls"}

\* A write was given up with some of its request on its way on such a stream.
GivenUp ==
  MbapStream /\ \E i \in DOMAIN requests : requests[i].reach \in {"part", "late"}

-----------------------------------------------------------------------------
Init ==
  /\ framing \in Framings
  /\ state = "Untried"
  /\ next_transaction = 1
  /\ receiving = FALSE
  /\ phase = "idle"
  /\ overdue = FALSE
  /\ requests = <<>>
  /\ outcome = Outcome("none", 0)
  /\ inbox = <<>>
  /\ noise = 0

-----------------------------------------------------------------------------
(* The caller.                                                              *)

\* exchange refuses a broadcast read; call refuses on an unusable client, then
\* a request that does not encode (CL-R-012, CL-R-032, CL-R-052).
Refuse(u) ==
  /\ phase = "idle"
  /\ \/ IsBroadcast(u) /\ outcome' = Outcome("broadcast read", 0)
     \/ ~Usable /\ outcome' = Outcome("desynchronized", 0)
     \/ Usable /\ outcome' = Outcome("unencodable", 0)
  /\ UNCHANGED <<framing, state, next_transaction, receiving, phase, overdue, requests, inbox,
                 noise>>

\* call: the header is built from the next id and the write begins.
Call(u) ==
  /\ phase = "idle" /\ Usable /\ Current < MaxRequests
  /\ phase' = "sending"
  /\ requests' = Append(requests, [tid |-> next_transaction, unit |-> u,
                                   reach |-> "none", replies |-> 0])
  /\ UNCHANGED <<framing, state, next_transaction, receiving, overdue, outcome, inbox, noise>>

\* send_request returns: only now is the id spent.  A broadcast is done; any
\* other request sets its deadline and starts to receive, which fails at once on
\* a stream whose last receive was dropped.
FinishSend ==
  /\ phase = "sending"
  /\ \E reach \in {"whole"} \cup (IF Torn THEN {"garbled"} ELSE {}) :
       requests' = [requests EXCEPT ![Current].reach = reach]
  /\ next_transaction' = NextTid(next_transaction)
  /\ overdue' = FALSE
  /\ \/ /\ IsBroadcast(requests[Current].unit)
        /\ phase' = "idle"
        /\ outcome' = Outcome("sent", 0)
        /\ UNCHANGED <<state, receiving>>
     \/ /\ ~IsBroadcast(requests[Current].unit) /\ receiving
        /\ phase' = "idle"
        /\ outcome' = Outcome("stalled", 0)
        /\ state' = Classify("stalled")
        /\ UNCHANGED receiving
     \/ /\ ~IsBroadcast(requests[Current].unit) /\ ~receiving
        /\ phase' = "waiting"
        /\ receiving' = (framing # "Udp")
        /\ UNCHANGED <<state, outcome>>
  /\ UNCHANGED <<framing, inbox, noise>>

\* How far an ADU whose write did not complete may have got: a datagram not at all; where the
\* flush takes time, because the stream has a buffer of its own, as far as the peer.
PartReach ==
  {"none"} \cup (IF framing = "Udp" THEN {} ELSE {"part"})
           \cup (IF framing \in {"Tls", "Rtu", "Ascii"} THEN {"late"} ELSE {})

\* send_request fails: the ADU may be on the wire in part (CL-R-013).
FailSend ==
  /\ phase = "sending"
  /\ \E reach \in PartReach : requests' = [requests EXCEPT ![Current].reach = reach]
  /\ phase' = "idle"
  /\ state' = Classify("io")
  /\ outcome' = Outcome("io", 0)
  /\ UNCHANGED <<framing, next_transaction, receiving, overdue, inbox, noise>>

\* The caller drops the future while the request is being written.
CancelSending ==
  /\ phase = "sending"
  /\ \E reach \in PartReach : requests' = [requests EXCEPT ![Current].reach = reach]
  /\ phase' = "idle"
  /\ outcome' = Outcome("dropped", 0)
  /\ UNCHANGED <<framing, state, next_transaction, receiving, overdue, inbox, noise>>

\* Mutant of CancelWaiting: dropping the receive resets the latch.
CancelWaitingUnlatched ==
  /\ phase = "waiting"
  /\ phase' = "idle"
  /\ receiving' = FALSE
  /\ outcome' = Outcome("dropped", 0)
  /\ UNCHANGED <<framing, state, next_transaction, overdue, requests, inbox, noise>>

\* The caller drops the future while it waits: the latch stays set.
CancelWaiting ==
  /\ phase = "waiting"
  /\ phase' = "idle"
  /\ outcome' = Outcome("dropped", 0)
  /\ UNCHANGED <<framing, state, next_transaction, receiving, overdue, requests, inbox, noise>>

-----------------------------------------------------------------------------
(* The wait for a response.                                                 *)

\* Mutant of Discard: every iteration sets a new deadline.
DiscardExtending(a) ==
  /\ a.kind \in {"response", "mismatched"} /\ ~IsResponseTo(requests[Current], a)
  /\ overdue' = FALSE
  /\ UNCHANGED <<state, receiving, phase, outcome>>

\* Another exchange's reply: go on waiting for the same deadline (CL-R-097).
Discard(a) ==
  /\ a.kind \in {"response", "mismatched"} /\ ~IsResponseTo(requests[Current], a)
  /\ UNCHANGED <<state, receiving, phase, overdue, outcome>>

\* A reply to this request, whatever it says, even under another function code.
Accept(a) ==
  /\ a.kind \in {"response", "mismatched"} /\ IsResponseTo(requests[Current], a)
  /\ state' = "Answered"
  /\ receiving' = FALSE
  /\ phase' = "idle"
  /\ outcome' = Outcome(a.kind, a.of)
  /\ UNCHANGED overdue

\* The receive fails: it costs the link, or on a self-locating framing whose
\* stream goes on, this exchange (CL-R-031, CL-R-098).
Fail(a) ==
  /\ a.kind \in Failures
  /\ state' = IF EndsStream(a.kind) \/ ~SelfLocating THEN Classify(a.kind) ELSE "Unanswered"
  /\ receiving' = FALSE
  /\ phase' = "idle"
  /\ outcome' = Outcome(a.kind, 0)
  /\ UNCHANGED overdue

\* The inbox without its i-th arrival.
Without(arrivals, i) == SubSeq(arrivals, 1, i - 1) \o SubSeq(arrivals, i + 1, Len(arrivals))

\* recv_response yields the next arrival; datagrams come in any order.
Receive ==
  /\ phase = "waiting"
  /\ \E i \in DOMAIN inbox :
       /\ framing = "Udp" \/ i = 1
       /\ inbox' = IF inbox[i].kind = "closed" THEN inbox ELSE Without(inbox, i)
       /\ Discard(inbox[i]) \/ Accept(inbox[i]) \/ Fail(inbox[i])
  /\ UNCHANGED <<framing, next_transaction, requests, noise>>

\* The deadline passes.
Elapse ==
  /\ phase = "waiting" /\ ~overdue
  /\ overdue' = TRUE
  /\ UNCHANGED <<framing, state, next_transaction, receiving, phase, requests, outcome, inbox,
                 noise>>

\* Mutant of TimeOut: the exchange fails and the client stays usable.
TimeOutUsable ==
  /\ phase = "waiting" /\ overdue
  /\ state' = "Unanswered"
  /\ receiving' = FALSE
  /\ phase' = "idle"
  /\ outcome' = Outcome("timeout", 0)
  /\ UNCHANGED <<framing, next_transaction, overdue, requests, inbox, noise>>

\* timeout_at reports the deadline: when the receive is pending, or has used up
\* the task's cooperative budget on arrivals that were discarded.
TimeOut ==
  /\ phase = "waiting" /\ overdue
  /\ state' = "Silent"
  /\ phase' = "idle"
  /\ outcome' = Outcome("timeout", 0)
  /\ UNCHANGED <<framing, next_transaction, receiving, overdue, requests, inbox, noise>>

-----------------------------------------------------------------------------
(* The peer and the line.                                                   *)

Closed == \E i \in DOMAIN inbox : inbox[i].kind = "closed"

Arrive(a) ==
  /\ Len(inbox) < MaxInbox /\ ~Closed
  /\ inbox' = Append(inbox, a)

\* The peer has what was written as request i, and replies to it; a broadcast is not replied to.
Understood(i) == requests[i].reach \in {"whole", "late"} /\ ~IsBroadcast(requests[i].unit)

\* The peer replies; a network of datagrams may deliver the reply more than once.
PeerReply(i, kind) ==
  /\ Understood(i)
  /\ requests[i].replies < IF framing = "Udp" THEN MaxReplies ELSE 1
  /\ requests' = [requests EXCEPT ![i].replies = @ + 1]
  /\ Arrive(Arrival(kind, requests[i].tid, requests[i].unit, i))
  /\ UNCHANGED <<framing, state, next_transaction, receiving, phase, overdue, outcome, noise>>

\* MBAP has a length and no checksum: an ADU that was cut off is completed by the bytes written
\* next, and the rest of those is read as if an ADU began there.  The framings of a serial line
\* have a checksum, which tells such an ADU from one that was sent.
Misread(i) ==
  /\ MbapStream /\ Torn
  /\ \/ requests[i].reach = "garbled"
     \/ /\ requests[i].reach = "part"
        /\ \E j \in DOMAIN requests \ {i} :
             requests[j].reach = "part" \/ (j > i /\ requests[j].reach # "none")

\* The peer replies to an ADU that it reads where request i was written.  The header is that of the
\* request if the ADU was cut off behind it, or else what the bytes happen to say.
MisreadReply(i, kind, h) ==
  /\ Misread(i)
  /\ noise < MaxNoise /\ noise' = noise + 1
  /\ Arrive(Arrival(kind, h.tid, h.unit, i))
  /\ UNCHANGED <<framing, state, next_transaction, receiving, phase, overdue, requests, outcome>>

\* A well-formed frame that replies to no request of this client; where the header is the
\* unit alone, one of a unit it does not address.
Stray(h) ==
  /\ ~HasTid => h.unit \notin Units
  /\ Arrive(Arrival("response", h.tid, h.unit, 0))
  /\ UNCHANGED <<framing, state, next_transaction, receiving, phase, overdue, requests, outcome,
                 noise>>

\* A damaged frame; on ASCII also a stall past the inter-character timeout.
Noise(kind) ==
  /\ noise < MaxNoise
  /\ kind = "stalled" => framing = "Ascii"
  /\ noise' = noise + 1
  /\ Arrive(Failure(kind))
  /\ UNCHANGED <<framing, state, next_transaction, receiving, phase, overdue, requests, outcome>>

\* The stream ends or fails (not a datagram socket's end).
Hangup(kind) ==
  /\ kind = "closed" => framing # "Udp"
  /\ noise < MaxNoise /\ noise' = noise + 1
  /\ Arrive(Failure(kind))
  /\ UNCHANGED <<framing, state, next_transaction, receiving, phase, overdue, requests, outcome>>

Next ==
  \/ \E u \in Units : Refuse(u) \/ Call(u)
  \/ FinishSend \/ FailSend \/ CancelSending \/ CancelWaiting
  \/ Receive \/ Elapse \/ TimeOut
  \/ \E i \in DOMAIN requests, kind \in {"response", "mismatched"} : PeerReply(i, kind)
  \/ \E i \in DOMAIN requests, kind \in {"response", "mismatched"},
        h \in [tid : 1..MaxTid, unit : Units] : MisreadReply(i, kind, h)
  \/ \E h \in Strays : Stray(h)
  \/ \E kind \in {"undecodable", "stalled"} : Noise(kind)
  \/ \E kind \in {"closed", "io"} : Hangup(kind)

Spec == Init /\ [][Next]_vars

\* Time passes and the runtime polls a future whose timer has fired.
FairSpec == Spec /\ WF_vars(Elapse) /\ WF_vars(TimeOut)

-----------------------------------------------------------------------------
(* Properties.                                                              *)

Requests == [tid : 1..MaxTid, unit : Units, reach : {"none", "part", "late", "whole", "garbled"},
             replies : 0..MaxReplies]

\* What the transport may yield when n requests have been begun.
Frames(n) == [kind : {"response", "mismatched"} \cup Failures, tid : Nat, unit : Nat, of : 0..n]

\* The client's state is well typed: in particular next never hands out the id 0
\* (CL-R-011), and the last call's reply is one to a request that was begun.
TypeOK ==
  /\ framing \in Framings
  /\ state \in {"Untried", "Answered", "Unanswered"} \cup UnusableReasons
  /\ next_transaction \in 1..MaxTid
  /\ receiving \in BOOLEAN /\ overdue \in BOOLEAN
  /\ phase \in {"idle", "sending", "waiting"}
  /\ requests \in Seq(Requests)
  /\ inbox \in Seq(Frames(Current))
  /\ outcome.from \in 0..Current /\ noise \in 0..MaxNoise

\* A call is never given the reply to an earlier request (CL-R-024), although
\* ids and units repeat: on a stream an exchange that did not get its reply
\* leaves the client unusable, or the latch set, before another is begun; on UDP the
\* id alone keeps them apart, until it is reused.  Under MBAP on a stream this is so until a
\* write is given up part-way, which the client does not remember; on the other streams always.
OwnReply ==
  phase = "idle" /\ ~SelfLocating /\ ~GivenUp /\ (framing = "Udp" => Current <= MaxTid) =>
    outcome.from \in {0, Current}

\* An unusable client stays unusable for the same reason and never begins
\* another write (CL-R-032, CL-R-033).
UnusableIsFinal ==
  [][~Usable => state' = state /\ Len(requests') = Len(requests)]_vars

\* On a stream, a usable client whose latch is clear has no reply of an earlier exchange
\* coming: each was read, or its request was none the peer replies to; under MBAP, as long as no
\* write was given up part-way.
NothingOutstanding ==
  phase # "waiting" /\ Usable /\ ~receiving /\ ~SelfLocating /\ framing # "Udp" /\ ~GivenUp =>
    \A i \in DOMAIN requests : Understood(i) =>
      requests[i].replies > 0 /\ \A j \in DOMAIN inbox : inbox[j].of # i

\* The wait for a response ends, however many frames that answer other
\* exchanges arrive in the meantime (CL-R-097, CL-E-013).
EveryWaitEnds == phase = "waiting" ~> phase # "waiting"

-----------------------------------------------------------------------------
(* Statements of the repository's own documents that the code does not      *)
(* keep; README.md says how each one fails.                                 *)

\* CL-R-013: "A partially written request is never retried or abandoned
\* mid-ADU: the write is driven to completion or the client is unusable".
AbandonedWriteIsFinal == phase = "idle" /\ Torn => ~Usable

\* CL-R-024: a late response "is never delivered as the result of a later request. It is either
\* discarded by CL-R-021 or refused by CL-R-031".
LateReplyRefused ==
  phase = "idle" /\ MbapStream => outcome.from \in {0, Current}

\* CL-R-098: on a self-locating framing a failure to decode "costs exactly that
\* frame", and "a subsequent request proceeds normally".
NoiseCostsOneExchange ==
  phase = "idle" /\ outcome.result = "response" => outcome.from = Current

\* ClientState::Answered "says the peer replied to the last request this
\* client sent" (broadcasts aside, CL-R-102).
AnsweredMeansAnswered ==
  phase = "idle" /\ state = "Answered" /\ requests[Current].reach = "whole"
    /\ ~IsBroadcast(requests[Current].unit) => requests[Current].replies > 0

\* README: on RTU and ASCII "line noise costs that exchange and nothing more: a
\* client stays synchronized"; UnusableReason::Silent: "The response timeout
\* elapsed with no matching response".
SilentMeansElapsed == [][phase = "waiting" /\ ~overdue => state' # "Silent"]_vars

=============================================================================
