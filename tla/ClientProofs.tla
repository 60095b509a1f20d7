---------------------------- MODULE ClientProofs ----------------------------
(***************************************************************************)
(* Replies find their own request in the async client, for any number of   *)
(* requests, any width of the transaction id and any peer and line that    *)
(* the model allows.                                                       *)
(***************************************************************************)
EXTENDS Client, TLAPS

\* A leaf that names no prover is for Zenon, or else for the SMT solver.
USE ZenonT(5), SMTT(30)

\* What the proofs ask of the frames that reply to no request of this client: under MBAP they
\* bear no transaction id that it allocates (on the other framings Stray keeps them to other
\* units).  A frame that does is, to this client and to any other, the reply.
ForeignStrays == \A h \in Strays : h.tid \notin 1..MaxTid

\* A stream without boundaries of its own.
Stream == framing \in {"Tcp", "Tls", "RtuOverTcp"}

-----------------------------------------------------------------------------
(* The inductive invariant.                                                 *)

\* Of a frame on its way that replies to a request: the peer understood that request and
\* copied its header; on a stream it is the only one.  Not after an MBAP write was given up.
WireKept ==
  ~GivenUp =>
    /\ \A j \in DOMAIN inbox : inbox[j].of # 0 =>
         LET r == requests[inbox[j].of] IN
         /\ r.reach \in {"whole", "late"} /\ r.replies > 0 /\ ~IsBroadcast(r.unit)
         /\ inbox[j].tid = r.tid /\ inbox[j].unit = r.unit
    /\ \A j \in DOMAIN inbox : inbox[j].of = 0 /\ inbox[j].kind \notin Failures =>
         IF HasTid THEN inbox[j].tid \notin 1..MaxTid ELSE inbox[j].unit \notin Units
    /\ framing # "Udp" =>
         \A j, k \in DOMAIN inbox : inbox[j].of = inbox[k].of /\ inbox[j].of # 0 => j = k

\* What a call in progress says of the client and of the latest request.
CallKept ==
  /\ phase # "idle" => Usable /\ Current > 0
  /\ phase = "waiting" => (receiving <=> framing # "Udp")
  /\ phase = "sending" =>
       /\ requests[Current].reach = "none" /\ requests[Current].replies = 0
       /\ requests[Current].tid = next_transaction

\* The first n requests have nothing coming: each was answered and the answer read, or its
\* request asked for none, or it never reached the peer.
Settled(n) ==
  \A i \in 1..n : requests[i].reach \in {"whole", "late"} /\ ~IsBroadcast(requests[i].unit) =>
    requests[i].replies > 0 /\ \A j \in DOMAIN inbox : inbox[j].of # i

\* On a stream: unless the latch or the state says otherwise, everything before the exchange
\* in progress is settled.
StreamKept ==
  Stream /\ ~GivenUp =>
    /\ phase = "idle" /\ Usable /\ ~receiving => Settled(Current)
    /\ phase = "sending" /\ ~receiving => Settled(Current - 1)
    /\ phase = "waiting" => Settled(Current - 1)

\* On UDP, before an id is reused: the requests that reached the peer have ascending ids,
\* below the next one to be handed out; a cancelled write hands its id on, but was not sent.
DatagramKept ==
  framing = "Udp" =>
    /\ \A i \in DOMAIN requests : requests[i].reach \in {"none", "whole"}
    /\ phase = "waiting" => requests[Current].reach = "whole"
    /\ Current <= MaxTid =>
         \A i, k \in DOMAIN requests :
           i < k /\ requests[i].reach = "whole" /\ requests[k].reach = "whole" =>
             requests[i].tid < requests[k].tid
    /\ LET used == IF phase = "sending" THEN Current - 1 ELSE Current IN
       used < MaxTid =>
         /\ next_transaction <= used + 1
         /\ \A i \in DOMAIN requests : requests[i].reach = "whole" =>
              requests[i].tid < next_transaction

IInv ==
  TypeOK /\ CallKept /\ WireKept /\ StreamKept /\ DatagramKept /\ OwnReply

-----------------------------------------------------------------------------
(* Facts about sequences and records.                                       *)

LEMMA Bounds ==
  /\ MaxTid \in Nat \ {0} /\ MaxReplies \in Nat \ {0} /\ MaxNoise \in Nat
  /\ Units \subseteq Nat /\ Strays \subseteq [tid : Nat, unit : Nat]
BY ClientAssumption, Zenon

\* The state in terms of its elements.
LEMMA Elements ==
  ASSUME TypeOK
  PROVE  /\ Current \in Nat /\ DOMAIN requests = 1..Current
         /\ \A i \in 1..Current :
              /\ requests[i] \in Requests /\ requests[i].tid \in 1..MaxTid
              /\ requests[i].unit \in Units /\ requests[i].replies \in 0..MaxReplies
              /\ requests[i].reach \in {"none", "part", "late", "whole", "garbled"}
         /\ Len(inbox) \in Nat /\ DOMAIN inbox = 1..Len(inbox) /\ inbox \in Seq(Frames(Current))
         /\ \A j \in 1..Len(inbox) :
              inbox[j] \in Frames(Current) /\ inbox[j].of \in 0..Current
<1>1. requests \in Seq(Requests) /\ inbox \in Seq(Frames(Current))
  BY DEF TypeOK
<1>2. /\ Current \in Nat /\ DOMAIN requests = 1..Current
      /\ \A i \in 1..Current : requests[i] \in Requests
  BY <1>1 DEF Current
<1>3. /\ Len(inbox) \in Nat /\ DOMAIN inbox = 1..Len(inbox)
      /\ \A j \in 1..Len(inbox) : inbox[j] \in Frames(Current)
  BY <1>1
<1> QED
  BY <1>1, <1>2, <1>3 DEF Requests, Frames

\* What becomes of the requests when it is found out how far the n-th came.
Reaches(n, x) ==
  /\ requests' \in Seq(Requests) /\ Current' = Current
  /\ DOMAIN requests' = 1..Current
  /\ \A i \in 1..Current :
       /\ requests'[i].tid = requests[i].tid /\ requests'[i].unit = requests[i].unit
       /\ requests'[i].replies = requests[i].replies
       /\ requests'[i].reach = IF i = n THEN x ELSE requests[i].reach

LEMMA ReachSet ==
  ASSUME TypeOK, NEW n \in 1..Current, NEW x \in {"none", "part", "late", "whole", "garbled"},
         requests' = [requests EXCEPT ![n].reach = x]
  PROVE  Reaches(n, x)
<1>1. requests \in Seq(Requests) /\ Current \in Nat /\ DOMAIN requests = 1..Current
  BY Elements DEF TypeOK
<1>2. PICK r \in Requests : r = [requests[n] EXCEPT !.reach = x]
  BY Elements DEF Requests
<1>3. requests' = [requests EXCEPT ![n] = r]
  BY <1>1, <1>2
<1>4. /\ requests' \in Seq(Requests) /\ Len(requests') = Current
      /\ \A i \in 1..Current : requests'[i] = IF i = n THEN r ELSE requests[i]
  BY SMTT(30), <1>1, <1>3 DEF Current
<1>5. r.tid = requests[n].tid /\ r.unit = requests[n].unit /\ r.replies = requests[n].replies
      /\ r.reach = x
  BY <1>1, <1>2, Elements DEF Requests
<1> QED
  BY SMTT(30), <1>4, <1>5 DEF Current, Reaches

\* A reply is sent.
LEMMA RepliesSet ==
  ASSUME TypeOK, NEW n \in 1..Current, requests[n].replies + 1 \in 0..MaxReplies,
         requests' = [requests EXCEPT ![n].replies = @ + 1]
  PROVE  /\ requests' \in Seq(Requests) /\ Current' = Current
         /\ DOMAIN requests' = 1..Current
         /\ \A i \in 1..Current :
              /\ requests'[i].tid = requests[i].tid /\ requests'[i].unit = requests[i].unit
              /\ requests'[i].reach = requests[i].reach
              /\ requests'[i].replies = IF i = n THEN requests[i].replies + 1 ELSE requests[i].replies
<1>1. requests \in Seq(Requests) /\ Current \in Nat /\ DOMAIN requests = 1..Current
  BY Elements DEF TypeOK
<1>2. PICK r \in Requests : r = [requests[n] EXCEPT !.replies = requests[n].replies + 1]
  BY Elements DEF Requests
<1>3. requests' = [requests EXCEPT ![n] = r]
  BY <1>1, <1>2
<1>4. /\ requests' \in Seq(Requests) /\ Len(requests') = Current
      /\ \A i \in 1..Current : requests'[i] = IF i = n THEN r ELSE requests[i]
  BY SMTT(30), <1>1, <1>3 DEF Current
<1>5. r.tid = requests[n].tid /\ r.unit = requests[n].unit /\ r.reach = requests[n].reach
      /\ r.replies = requests[n].replies + 1
  BY <1>1, <1>2, Elements DEF Requests
<1> QED
  BY SMTT(30), <1>4, <1>5 DEF Current

\* The first n elements of a sequence, the elements after them, and two sequences in a row.
LEMMA FirstFacts ==
  ASSUME NEW S, NEW s \in Seq(S), NEW n \in 0..Len(s)
  PROVE  /\ SubSeq(s, 1, n) \in Seq(S) /\ Len(SubSeq(s, 1, n)) = n
         /\ \A j \in 1..n : SubSeq(s, 1, n)[j] = s[j]
OBVIOUS

LEMMA RestFacts ==
  ASSUME NEW S, NEW s \in Seq(S), NEW n \in 0..Len(s)
  PROVE  /\ SubSeq(s, n + 1, Len(s)) \in Seq(S) /\ Len(SubSeq(s, n + 1, Len(s))) = Len(s) - n
         /\ \A j \in 1..(Len(s) - n) : SubSeq(s, n + 1, Len(s))[j] = s[j + n]
OBVIOUS

LEMMA JoinFacts ==
  ASSUME NEW S, NEW a \in Seq(S), NEW b \in Seq(S)
  PROVE  /\ a \o b \in Seq(S) /\ Len(a \o b) = Len(a) + Len(b)
         /\ \A j \in 1..Len(a) : (a \o b)[j] = a[j]
         /\ \A j \in 1..Len(b) : (a \o b)[Len(a) + j] = b[j]
OBVIOUS

\* Removing the element at index i.
LEMMA WithoutFacts ==
  ASSUME NEW S, NEW s \in Seq(S), NEW i \in 1..Len(s)
  PROVE  /\ Without(s, i) \in Seq(S) /\ Len(Without(s, i)) = Len(s) - 1
         /\ \A j \in 1..(Len(s) - 1) : Without(s, i)[j] = s[IF j < i THEN j ELSE j + 1]
<1>1. Len(s) \in Nat /\ i \in Nat /\ i - 1 \in 0..Len(s) /\ i \in 0..Len(s)
  OBVIOUS
<1>2. PICK a : a = SubSeq(s, 1, i - 1)
  BY Zenon
<1>3. PICK b : b = SubSeq(s, i + 1, Len(s))
  BY Zenon
<1>4. a \in Seq(S) /\ Len(a) = i - 1 /\ \A j \in 1..(i - 1) : a[j] = s[j]
  BY <1>1, <1>2, FirstFacts, Zenon
<1>5. b \in Seq(S) /\ Len(b) = Len(s) - i /\ \A j \in 1..(Len(s) - i) : b[j] = s[j + i]
  BY <1>1, <1>3, RestFacts, Zenon
<1>6. PICK t : t = a \o b
  BY Zenon
<1>7. /\ t \in Seq(S) /\ Len(t) = Len(a) + Len(b)
      /\ \A j \in 1..Len(a) : t[j] = a[j]
      /\ \A j \in 1..Len(b) : t[Len(a) + j] = b[j]
  <2>1. a \in Seq(S) /\ b \in Seq(S)
    BY <1>4, <1>5
  <2>2. /\ a \o b \in Seq(S) /\ Len(a \o b) = Len(a) + Len(b)
        /\ \A j \in 1..Len(a) : (a \o b)[j] = a[j]
        /\ \A j \in 1..Len(b) : (a \o b)[Len(a) + j] = b[j]
    BY SMTT(30), <2>1, JoinFacts
  <2> QED
    BY <1>6, <2>2, Zenon
<1>8. Len(t) = Len(s) - 1
  BY SMTT(30), <1>1, <1>4, <1>5, <1>7
<1>9. ASSUME NEW j \in 1..(Len(s) - 1), j < i PROVE t[j] = s[j]
  BY SMTT(30), <1>1, <1>4, <1>7, <1>9
<1>10. ASSUME NEW j \in 1..(Len(s) - 1), ~(j < i) PROVE t[j] = s[j + 1]
  <2>1. PICK k : k = j - (i - 1)
    BY Zenon
  <2>2. k \in 1..(Len(s) - i) /\ (i - 1) + k = j /\ k + i = j + 1
    BY <1>1, <1>10, <2>1
  <2>3. t[(i - 1) + k] = b[k]
    BY <1>4, <1>5, <1>7, <2>2
  <2> QED
    BY <1>5, <2>2, <2>3
<1>11. t = Without(s, i)
  BY <1>2, <1>3, <1>6, Zenon DEF Without
<1> QED
  BY <1>7, <1>8, <1>9, <1>10, <1>11

-----------------------------------------------------------------------------
(* Each step preserves the invariant.                                       *)

LEMMA InitOK == Init => IInv
<1> SUFFICES ASSUME Init PROVE IInv
  OBVIOUS
<1>1. Current = 0 /\ DOMAIN requests = {} /\ DOMAIN inbox = {} /\ outcome.from = 0
  BY DEF Init, Current, Outcome
<1>2. TypeOK
  <2>1. requests \in Seq(Requests) /\ inbox \in Seq(Frames(Current))
    BY DEF Init
  <2>2. next_transaction \in 1..MaxTid /\ noise \in 0..MaxNoise
    BY Bounds DEF Init
  <2>3. outcome.from \in 0..Current
    BY <1>1
  <2> QED
    BY <2>1, <2>2, <2>3 DEF Init, TypeOK
<1>3. CallKept /\ WireKept /\ StreamKept /\ DatagramKept /\ OwnReply
  BY <1>1 DEF Init, CallKept, WireKept, StreamKept, DatagramKept, OwnReply, Settled
<1> QED
  BY <1>2, <1>3 DEF IInv

\* The framing decides these.
LEMMA FramingKept ==
  ASSUME framing' = framing
  PROVE  /\ HasTid' = HasTid /\ SelfLocating' = SelfLocating /\ Stream' = Stream
         /\ \A u : IsBroadcast(u)' = IsBroadcast(u)
BY DEF HasTid, SelfLocating, Stream, IsBroadcast

\* That a write was given up is not undone.
LEMMA GivenUpStays ==
  ASSUME framing' = framing, \A i \in DOMAIN requests :
           /\ i \in DOMAIN requests'
           /\ requests[i].reach \in {"part", "late"} => requests'[i].reach = requests[i].reach
  PROVE  GivenUp => GivenUp'
BY DEF GivenUp, MbapStream

\* What is on its way stays as it is.
LEMMA WireUntouched ==
  ASSUME WireKept, UNCHANGED <<framing, requests, inbox>>
  PROVE  /\ WireKept' /\ Current' = Current /\ \A n \in Nat : Settled(n)' = Settled(n)
         /\ GivenUp' = GivenUp
<1>1. GivenUp' = GivenUp
  BY DEF GivenUp, MbapStream
<1> QED
  BY SMTT(30), <1>1, FramingKept DEF WireKept, Settled, Current

\* Refusals, the clock, and a wait that is given up: the latch or the state records it.
LEMMA WaitKeeps ==
  ASSUME IInv, (\E u \in Units : Refuse(u)) \/ Elapse \/ CancelWaiting \/ TimeOut
  PROVE  IInv'
<1>1. UNCHANGED <<framing, next_transaction, receiving, requests, inbox, noise>>
  BY DEF Refuse, Elapse, CancelWaiting, TimeOut
<1>2. /\ WireKept' /\ Current' = Current /\ Current \in Nat /\ GivenUp' = GivenUp
      /\ Settled(Current)' = Settled(Current) /\ Settled(Current - 1)' = Settled(Current - 1)
  <2>1. WireKept' /\ Current' = Current /\ Current \in Nat /\ GivenUp' = GivenUp
    BY <1>1, WireUntouched, Elements DEF IInv
  <2> QED
    BY <1>1, <2>1, FramingKept DEF Settled
<1>3. \/ phase' = phase /\ state' = state /\ outcome' = outcome /\ phase = "waiting"
      \/ /\ phase' = "idle" /\ outcome'.from = 0
         /\ \/ phase = "idle" /\ state' = state
            \/ phase = "waiting" /\ (state' = state \/ state' = "Silent")
  <2>1. \A x : Outcome(x, 0).from = 0
    BY DEF Outcome
  <2> QED
    BY <2>1 DEF Refuse, Elapse, CancelWaiting, TimeOut
<1>4. TypeOK'
  <2>1. /\ state' \in {"Untried", "Answered", "Unanswered"} \cup UnusableReasons
        /\ phase' \in {"idle", "sending", "waiting"} /\ outcome'.from \in 0..Current
    <3>1. "Silent" \in UnusableReasons /\ 0 \in 0..Current
      BY <1>2 DEF UnusableReasons
    <3> QED
      BY <1>3, <3>1 DEF IInv, TypeOK
  <2>2. overdue' \in BOOLEAN
    BY DEF IInv, TypeOK, Refuse, Elapse, CancelWaiting, TimeOut
  <2> QED
    BY <1>1, <1>2, <2>1, <2>2 DEF IInv, TypeOK
<1>5. CallKept'
  BY <1>1, <1>2, <1>3 DEF IInv, CallKept, Usable
<1>6. StreamKept'
  <2>1. phase = "waiting" /\ Stream => receiving
    BY DEF IInv, CallKept, Stream
  <2>2. state' = "Silent" => ~Usable'
    BY DEF Usable, UnusableReasons
  <2> QED
    BY <1>1, <1>2, <1>3, <2>1, <2>2, FramingKept DEF IInv, StreamKept, Usable
<1>7. DatagramKept'
  BY <1>1, <1>2, <1>3 DEF IInv, DatagramKept
<1>8. OwnReply'
  BY <1>1, <1>2, <1>3, FramingKept DEF IInv, OwnReply
<1> QED
  BY <1>2, <1>4, <1>5, <1>6, <1>7, <1>8 DEF IInv

\* A request is begun.
LEMMA CallKeeps ==
  ASSUME IInv, NEW u \in Units, Call(u)
  PROVE  IInv'
<1>1. /\ UNCHANGED <<framing, state, next_transaction, receiving, overdue, outcome, inbox, noise>>
      /\ phase = "idle" /\ phase' = "sending" /\ Usable /\ Usable'
  BY DEF Call, Usable
<1>2. PICK r : r = [tid |-> next_transaction, unit |-> u, reach |-> "none", replies |-> 0]
  OBVIOUS
<1>3. r \in Requests
  <2>1. next_transaction \in 1..MaxTid /\ 0 \in 0..MaxReplies
    BY SMTT(30), Bounds DEF IInv, TypeOK
  <2> QED
    BY <1>2, <2>1 DEF Requests
<1>4. /\ requests' \in Seq(Requests) /\ Current' = Current + 1 /\ Current \in Nat
      /\ DOMAIN requests' = 1..(Current + 1) /\ DOMAIN requests = 1..Current
      /\ \A i \in 1..Current : requests'[i] = requests[i]
      /\ requests'[Current + 1] = r
  <2>1. requests \in Seq(Requests) /\ requests' = Append(requests, r)
    BY <1>2 DEF IInv, TypeOK, Call
  <2> QED
    BY <1>3, <2>1 DEF Current
<1>5. /\ DOMAIN inbox = 1..Len(inbox) /\ inbox \in Seq(Frames(Current))
      /\ \A j \in DOMAIN inbox : inbox[j].of \in 0..Current
      /\ GivenUp => GivenUp'
  <2>1. \A i \in DOMAIN requests : i \in DOMAIN requests' /\ requests'[i] = requests[i]
    BY SMTT(30), <1>4
  <2>2. GivenUp => GivenUp'
    BY <1>1, <2>1, GivenUpStays
  <2> QED
    BY <2>2, Elements DEF IInv
<1>6. TypeOK'
  <2>1. inbox \in Seq(Frames(Current + 1)) /\ outcome.from \in 0..(Current + 1)
    <3>1. Frames(Current) \subseteq Frames(Current + 1)
      <4>1. 0..Current \subseteq 0..(Current + 1)
        BY SMTT(30), <1>4
      <4> QED
        BY <4>1 DEF Frames
    <3>2. inbox \in Seq(Frames(Current + 1))
      BY <1>5, <3>1
    <3>3. outcome.from \in 0..Current
      BY DEF IInv, TypeOK
    <3> QED
      BY SMTT(30), <1>4, <3>2, <3>3
  <2> QED
    BY <1>1, <1>4, <2>1 DEF IInv, TypeOK
<1>7. CallKept'
  BY <1>1, <1>2, <1>4 DEF CallKept
<1>8. WireKept'
  BY SMTT(30), <1>1, <1>4, <1>5, FramingKept DEF IInv, WireKept
<1>9. StreamKept'
  <2>1. Settled(Current) => Settled(Current - 1)'
    BY SMTT(30), <1>1, <1>4, FramingKept DEF Settled
  <2> QED
    BY <1>1, <1>5, <2>1, FramingKept DEF IInv, StreamKept
<1>10. DatagramKept'
  <2> SUFFICES ASSUME framing = "Udp" PROVE DatagramKept'
    BY <1>1 DEF DatagramKept
  <2>1. r.reach = "none"
    BY <1>2
  <2>2. \A i \in 1..(Current + 1) :
          /\ requests'[i].reach \in {"none", "whole"}
          /\ requests'[i].reach = "whole" => i \in 1..Current /\ requests'[i] = requests[i]
    BY <1>4, <2>1 DEF IInv, DatagramKept
  <2> QED
    <3>1. /\ Current + 1 <= MaxTid => Current <= MaxTid
          /\ Current + 1 - 1 = Current
      BY SMTT(30), <1>4, Bounds
    <3>2. Current + 1 <= MaxTid =>
            \A i, k \in DOMAIN requests' :
              i < k /\ requests'[i].reach = "whole" /\ requests'[k].reach = "whole" =>
                requests'[i].tid < requests'[k].tid
      BY <1>4, <2>2, <3>1 DEF IInv, DatagramKept
    <3>3. Current < MaxTid =>
            /\ next_transaction <= Current + 1
            /\ \A i \in DOMAIN requests' : requests'[i].reach = "whole" =>
                 requests'[i].tid < next_transaction
      BY <1>1, <1>4, <2>2 DEF IInv, DatagramKept
    <3> QED
      BY SMTT(30), <1>1, <1>4, <2>2, <3>1, <3>2, <3>3 DEF DatagramKept
<1>11. OwnReply'
  BY <1>1 DEF OwnReply
<1> QED
  BY <1>6, <1>7, <1>8, <1>9, <1>10, <1>11 DEF IInv

\* While the last request is being written nothing on its way replies to it, and what is
\* found out about it leaves the frames on their way as they are.
LEMMA WrittenLast ==
  ASSUME IInv, phase = "sending", NEW x \in {"none", "part", "late", "whole", "garbled"},
         requests' = [requests EXCEPT ![Current].reach = x], UNCHANGED <<framing, inbox>>
  PROVE  /\ WireKept' /\ Current' = Current /\ Current \in Nat \ {0}
         /\ GivenUp => GivenUp'
         /\ MbapStream /\ x \in {"part", "late"} => GivenUp'
         /\ Settled(Current - 1) => Settled(Current - 1)'
         /\ x \notin {"whole", "late"} \/ IsBroadcast(requests[Current].unit) =>
              (Settled(Current - 1) => Settled(Current)')
         /\ requests' \in Seq(Requests) /\ DOMAIN requests' = 1..Current
         /\ \A i \in 1..Current :
              /\ requests'[i].tid = requests[i].tid /\ requests'[i].unit = requests[i].unit
              /\ requests'[i].reach = IF i = Current THEN x ELSE requests[i].reach
<1>1. Current \in Nat \ {0} /\ requests[Current].reach = "none"
  BY SMTT(30), Elements DEF IInv, CallKept
<1>2. /\ requests' \in Seq(Requests) /\ Current' = Current
      /\ DOMAIN requests' = 1..Current
      /\ \A i \in 1..Current :
           /\ requests'[i].tid = requests[i].tid /\ requests'[i].unit = requests[i].unit
           /\ requests'[i].replies = requests[i].replies
           /\ requests'[i].reach = IF i = Current THEN x ELSE requests[i].reach
  <2>1. TypeOK /\ Current \in 1..Current
    BY <1>1 DEF IInv
  <2>2. Reaches(Current, x)
    BY <2>1, ReachSet, Zenon
  <2> QED
    BY <2>2, Zenon DEF Reaches
<1>3. ~GivenUp => \A j \in DOMAIN inbox : inbox[j].of \in 0..(Current - 1)
  BY SMTT(30), <1>1, Elements DEF IInv, WireKept
<1>7. GivenUp => GivenUp'
  <2>1. DOMAIN requests = 1..Current
    BY Elements DEF IInv
  <2>2. \A i \in DOMAIN requests :
          /\ i \in DOMAIN requests'
          /\ requests[i].reach \in {"part", "late"} => requests'[i].reach = requests[i].reach
    BY SMTT(30), <1>1, <1>2, <2>1
  <2> QED
    BY <2>2, GivenUpStays
<1>8. MbapStream /\ x \in {"part", "late"} => GivenUp'
  <2>1. Current \in DOMAIN requests' /\ requests'[Current].reach = x
    BY SMTT(30), <1>1, <1>2
  <2> QED
    BY <2>1 DEF GivenUp, MbapStream
<1>4. WireKept'
  BY SMTT(30), <1>1, <1>2, <1>3, <1>7, FramingKept DEF IInv, WireKept
<1>5. Settled(Current - 1) => Settled(Current - 1)'
  BY SMTT(30), <1>1, <1>2, FramingKept DEF Settled
<1>6. x \notin {"whole", "late"} \/ IsBroadcast(requests[Current].unit) =>
        (Settled(Current - 1) => Settled(Current)')
  BY SMTT(30), <1>1, <1>2, FramingKept DEF Settled
<1> QED
  BY <1>1, <1>2, <1>4, <1>5, <1>6, <1>7, <1>8

\* send_request returns.
LEMMA FinishSendKeeps ==
  ASSUME IInv, FinishSend
  PROVE  IInv'
<1>1. PICK x \in {"whole", "garbled"} :
        requests' = [requests EXCEPT ![Current].reach = x] /\ (~Torn => x = "whole")
  BY DEF FinishSend
<1>2. /\ phase = "sending" /\ UNCHANGED <<framing, inbox, noise>>
      /\ next_transaction' = NextTid(next_transaction) /\ overdue' = FALSE
  BY DEF FinishSend
<1>3. \/ /\ IsBroadcast(requests[Current].unit) /\ phase' = "idle" /\ outcome'.from = 0
         /\ UNCHANGED <<state, receiving>>
      \/ phase' = "idle" /\ outcome'.from = 0 /\ UNCHANGED receiving /\ state' = "Silent"
      \/ /\ phase' = "waiting" /\ UNCHANGED <<state, outcome>>
         /\ ~receiving /\ receiving' = (framing # "Udp")
  <2>1. \A y : Outcome(y, 0).from = 0
    BY DEF Outcome
  <2>2. Classify("stalled") = "Silent"
    BY DEF Classify
  <2> QED
    BY <2>1, <2>2 DEF FinishSend
<1>4. Usable /\ Current > 0 /\ requests[Current].tid = next_transaction
  BY <1>2 DEF IInv, CallKept
<1>5. /\ WireKept' /\ Current' = Current /\ Current \in Nat \ {0} /\ (GivenUp => GivenUp')
      /\ Settled(Current - 1) => Settled(Current - 1)'
      /\ IsBroadcast(requests[Current].unit) => (Settled(Current - 1) => Settled(Current)')
      /\ requests' \in Seq(Requests) /\ DOMAIN requests' = 1..Current
      /\ \A i \in 1..Current :
           /\ requests'[i].tid = requests[i].tid /\ requests'[i].unit = requests[i].unit
           /\ requests'[i].reach = IF i = Current THEN x ELSE requests[i].reach
  BY ZenonT(30), <1>1, <1>2, WrittenLast
<1>6. "Silent" \in UnusableReasons
  BY DEF UnusableReasons
<1>7. next_transaction \in 1..MaxTid /\ next_transaction' \in 1..MaxTid
  BY SMTT(30), <1>2, Bounds DEF IInv, TypeOK, NextTid
<1>8. TypeOK'
  <2>1. /\ state' \in {"Untried", "Answered", "Unanswered"} \cup UnusableReasons
        /\ phase' \in {"idle", "sending", "waiting"} /\ receiving' \in BOOLEAN
    BY <1>3, <1>6 DEF IInv, TypeOK
  <2>2. outcome'.from \in 0..Current
    BY SMTT(30), <1>3, <1>5 DEF IInv, TypeOK
  <2> QED
    BY <1>2, <1>5, <1>7, <2>1, <2>2 DEF IInv, TypeOK
<1>9. CallKept'
  BY <1>2, <1>3, <1>4, <1>5 DEF CallKept, Usable
<1>10. StreamKept'
  <2>1. state' = "Silent" => ~Usable'
    BY <1>6 DEF Usable
  <2> QED
    BY <1>2, <1>3, <1>5, <2>1, FramingKept DEF IInv, StreamKept
<1>11. DatagramKept'
  <2> SUFFICES ASSUME framing = "Udp" PROVE DatagramKept'
    BY <1>2 DEF DatagramKept
  <2>1. DOMAIN requests = 1..Current /\ \A i \in 1..Current : requests[i].reach \in {"none", "whole"}
    BY Elements DEF IInv, DatagramKept
  <2>2. x = "whole"
    BY <1>1, <2>1 DEF Torn
  <2>3. \A i \in 1..Current : requests'[i].reach \in {"none", "whole"}
    BY <1>5, <2>1, <2>2
  <2>4. Current - 1 < MaxTid =>
          /\ next_transaction <= Current
          /\ \A i \in 1..Current : requests[i].reach = "whole" => requests[i].tid < next_transaction
    <3>1. Current - 1 + 1 = Current
      BY SMTT(30), <1>5
    <3> QED
      BY <1>2, <2>1, <3>1 DEF IInv, DatagramKept
  <2>5. ASSUME Current <= MaxTid, NEW i \in 1..Current, NEW k \in 1..Current, i < k,
               requests'[i].reach = "whole", requests'[k].reach = "whole"
        PROVE  requests'[i].tid < requests'[k].tid
    <3>1. requests[i].reach = "whole" /\ requests'[i].tid = requests[i].tid
      BY SMTT(30), <1>5, <2>5
    <3>2. CASE k = Current
      BY SMTT(30), <1>4, <1>5, <2>4, <2>5, <3>1, <3>2, Bounds
    <3>3. CASE k # Current
      BY <1>5, <2>1, <2>5, <3>1, <3>3 DEF IInv, DatagramKept
    <3> QED
      BY <3>2, <3>3
  <2>6. ASSUME Current < MaxTid
        PROVE  /\ next_transaction' <= Current + 1
               /\ \A i \in 1..Current : requests'[i].reach = "whole" =>
                    requests'[i].tid < next_transaction'
    <3>1. next_transaction' = next_transaction + 1 /\ next_transaction <= Current
      BY SMTT(30), <1>2, <1>5, <1>7, <2>4, <2>6, Bounds DEF NextTid
    <3>2. ASSUME NEW i \in 1..Current, requests'[i].reach = "whole"
          PROVE  requests'[i].tid < next_transaction'
      <4>1. requests'[i].tid \in Nat /\ requests'[i].tid = requests[i].tid
        BY SMTT(30), <1>5, Elements DEF IInv
      <4>2. CASE i = Current
        BY <1>4, <1>7, <3>1, <4>1, <4>2
      <4>3. CASE i # Current
        BY SMTT(30), <1>5, <1>7, <2>4, <2>6, <3>1, <3>2, <4>1, <4>3, Bounds
      <4> QED
        BY <4>2, <4>3
    <3> QED
      BY SMTT(30), <1>5, <1>7, <3>1, <3>2
  <2>7. phase' = "waiting" => requests'[Current].reach = "whole"
    BY SMTT(30), <1>5, <2>2
  <2> QED
    BY <1>3, <1>5, <2>3, <2>5, <2>6, <2>7 DEF DatagramKept
<1>12. OwnReply'
  BY <1>3 DEF OwnReply
<1> QED
  BY <1>5, <1>8, <1>9, <1>10, <1>11, <1>12 DEF IInv

\* A write fails or is dropped: a stream has taken part of it or nothing, a socket nothing.
LEMMA AbandonKeeps ==
  ASSUME IInv, FailSend \/ CancelSending
  PROVE  IInv'
<1>1. PICK x \in {"none", "part", "late"} :
        /\ requests' = [requests EXCEPT ![Current].reach = x]
        /\ framing = "RtuOverTcp" => x # "late"
        /\ framing = "Udp" => x = "none"
  BY DEF FailSend, CancelSending, PartReach
<1>2. /\ phase = "sending" /\ phase' = "idle"
      /\ UNCHANGED <<framing, next_transaction, receiving, overdue, inbox, noise>>
      /\ state' = state \/ state' = "Io"
  <2>1. Classify("io") = "Io"
    BY DEF Classify
  <2> QED
    BY <2>1 DEF FailSend, CancelSending
<1>3. outcome'.from = 0
  <2>1. \A y : Outcome(y, 0).from = 0
    BY DEF Outcome
  <2> QED
    BY <2>1 DEF FailSend, CancelSending
<1>4. /\ WireKept' /\ Current' = Current /\ Current \in Nat \ {0} /\ (GivenUp => GivenUp')
      /\ MbapStream /\ x \in {"part", "late"} => GivenUp'
      /\ x # "late" => (Settled(Current - 1) => Settled(Current)')
      /\ requests' \in Seq(Requests) /\ DOMAIN requests' = 1..Current
      /\ \A i \in 1..Current :
           /\ requests'[i].tid = requests[i].tid /\ requests'[i].unit = requests[i].unit
           /\ requests'[i].reach = IF i = Current THEN x ELSE requests[i].reach
  BY <1>1, <1>2, WrittenLast
<1>5. "Io" \in UnusableReasons
  BY DEF UnusableReasons
<1>6. TypeOK'
  <2>1. state' \in {"Untried", "Answered", "Unanswered"} \cup UnusableReasons
    BY <1>2, <1>5 DEF IInv, TypeOK
  <2>2. outcome'.from \in 0..Current
    BY SMTT(30), <1>3, <1>4
  <2> QED
    BY <1>2, <1>4, <2>1, <2>2 DEF IInv, TypeOK
<1>7. CallKept'
  BY <1>2 DEF CallKept
<1>8. StreamKept'
  <2>1. state' = "Io" => ~Usable'
    BY <1>5 DEF Usable
  <2>2. Stream => x # "late" \/ GivenUp'
    BY <1>1, <1>4 DEF Stream, MbapStream
  <2> QED
    BY <1>2, <1>4, <2>1, <2>2, FramingKept DEF IInv, StreamKept
<1>9. DatagramKept'
  <2> SUFFICES ASSUME framing = "Udp" PROVE DatagramKept'
    BY <1>2 DEF DatagramKept
  <2>1. x = "none" /\ DOMAIN requests = 1..Current
    BY <1>1, Elements DEF IInv
  <2>2. \A i \in 1..Current :
          /\ requests'[i].reach \in {"none", "whole"}
          /\ requests'[i].reach = "whole" => requests[i].reach = "whole"
    BY <1>4, <2>1 DEF IInv, DatagramKept
  <2>3. Current <= MaxTid =>
          \A i, k \in DOMAIN requests' :
            i < k /\ requests'[i].reach = "whole" /\ requests'[k].reach = "whole" =>
              requests'[i].tid < requests'[k].tid
    BY <1>4, <2>1, <2>2 DEF IInv, DatagramKept
  <2>4. Current < MaxTid =>
          /\ next_transaction <= Current + 1
          /\ \A i \in DOMAIN requests' : requests'[i].reach = "whole" =>
               requests'[i].tid < next_transaction
    <3> SUFFICES ASSUME Current < MaxTid
                 PROVE  /\ next_transaction <= Current + 1
                        /\ \A i \in DOMAIN requests' : requests'[i].reach = "whole" =>
                             requests'[i].tid < next_transaction
      OBVIOUS
    <3>1. Current - 1 < MaxTid /\ Current - 1 + 1 = Current
      BY SMTT(30), <1>4, Bounds
    <3>2. next_transaction <= Current /\ next_transaction \in Nat
      BY SMTT(30), <1>2, <3>1 DEF IInv, TypeOK, DatagramKept
    <3> QED
      BY SMTT(30), <1>2, <1>4, <2>1, <2>2, <3>1, <3>2 DEF IInv, DatagramKept
  <2> QED
    BY <1>2, <1>4, <2>2, <2>3, <2>4 DEF DatagramKept
<1>10. OwnReply'
  BY <1>3 DEF OwnReply
<1> QED
  BY <1>4, <1>6, <1>7, <1>8, <1>9, <1>10 DEF IInv

\* A frame that passes for the reply to the current request replies to it.
LEMMA RepliesToCurrent ==
  ASSUME IInv, phase = "waiting", Stream \/ framing = "Udp", ~GivenUp,
         framing = "Udp" => Current <= MaxTid,
         NEW i \in DOMAIN inbox, inbox[i].kind \notin Failures,
         IsResponseTo(requests[Current], inbox[i])
  PROVE  inbox[i].of = Current
<1>1. Current \in Nat \ {0} /\ Current \in 1..Current
  BY SMTT(30), Elements DEF IInv, CallKept
<1>2. /\ requests[Current].tid \in 1..MaxTid /\ requests[Current].unit \in Units
      /\ inbox[i].of \in 0..Current
  BY <1>1, Elements DEF IInv
<1>3. inbox[i].of # 0
  BY <1>2 DEF IInv, WireKept, IsResponseTo
<1>4. PICK m \in 1..Current : m = inbox[i].of
  BY SMTT(30), <1>1, <1>2, <1>3
<1>5. /\ requests[m].reach \in {"whole", "late"} /\ ~IsBroadcast(requests[m].unit)
      /\ inbox[i].tid = requests[m].tid /\ inbox[i].unit = requests[m].unit
  BY <1>3, <1>4 DEF IInv, WireKept
<1>6. CASE framing = "Udp"
  <2>1. /\ requests[m].tid = requests[Current].tid /\ requests[Current].reach = "whole"
        /\ requests[m].reach = "whole"
    <3>1. DOMAIN requests = 1..Current
      BY Elements DEF IInv
    <3> QED
      BY <1>5, <1>6, <3>1 DEF IInv, DatagramKept, IsResponseTo, HasTid
  <2>2. ~(m < Current)
    <3>1. \A j, k \in 1..Current :
            j < k /\ requests[j].reach = "whole" /\ requests[k].reach = "whole" =>
              requests[j].tid < requests[k].tid
      BY <1>6, Elements DEF IInv, DatagramKept
    <3> QED
      BY <1>1, <1>2, <1>5, <2>1, <3>1
  <2> QED
    BY <1>1, <1>4, <2>2
<1>7. CASE Stream
  <2>1. m \notin 1..(Current - 1)
    BY <1>4, <1>5, <1>7 DEF IInv, StreamKept, Settled
  <2> QED
    BY <1>1, <1>4, <2>1
<1> QED
  BY <1>6, <1>7

\* recv_response yields a frame or a failure.
LEMMA ReceiveKeeps ==
  ASSUME IInv, Receive
  PROVE  IInv'
<1>1. PICK i \in DOMAIN inbox :
        /\ inbox' = IF inbox[i].kind = "closed" THEN inbox ELSE Without(inbox, i)
        /\ Discard(inbox[i]) \/ Accept(inbox[i]) \/ Fail(inbox[i])
  BY DEF Receive
<1>2. phase = "waiting" /\ UNCHANGED <<framing, next_transaction, requests, noise>>
  BY DEF Receive
<1>3. Current' = Current /\ Current \in Nat \ {0} /\ DOMAIN requests = 1..Current
  BY SMTT(30), <1>2, Elements DEF IInv, CallKept, Current
<1>4. /\ DOMAIN inbox = 1..Len(inbox) /\ Len(inbox) \in Nat /\ inbox \in Seq(Frames(Current))
      /\ inbox[i].of \in 0..Current
  BY <1>1, Elements DEF IInv
<1>5. /\ inbox' \in Seq(Frames(Current)) /\ DOMAIN inbox' = 1..Len(inbox') /\ Len(inbox') \in Nat
      /\ inbox[i].kind = "closed" => inbox' = inbox
      /\ inbox[i].kind # "closed" =>
           \A j \in 1..Len(inbox') :
             LET k == IF j < i THEN j ELSE j + 1 IN k \in DOMAIN inbox /\ inbox'[j] = inbox[k]
  <2>1. CASE inbox[i].kind = "closed"
    BY <1>1, <1>4, <2>1
  <2>2. CASE inbox[i].kind # "closed"
    <3>1. inbox' = Without(inbox, i)
      BY <1>1, <2>2
    <3>2. /\ inbox' \in Seq(Frames(Current)) /\ Len(inbox') = Len(inbox) - 1
          /\ \A j \in 1..(Len(inbox) - 1) : inbox'[j] = inbox[IF j < i THEN j ELSE j + 1]
      <4>1. inbox \in Seq(Frames(Current)) /\ i \in 1..Len(inbox)
        BY <1>1, <1>4
      <4> QED
        BY <3>1, <4>1, WithoutFacts, Zenon
    <3> QED
      BY SMTT(30), <1>1, <1>4, <2>2, <3>2
  <2> QED
    BY <2>1, <2>2
<1>6. \A j \in DOMAIN inbox' : \E k \in DOMAIN inbox :
        inbox'[j] = inbox[k] /\ (inbox[i].kind # "closed" => k # i)
  <2>1. CASE inbox[i].kind = "closed"
    BY <1>5, <2>1
  <2>2. CASE inbox[i].kind # "closed"
    <3> SUFFICES ASSUME NEW j \in DOMAIN inbox'
                 PROVE  \E k \in DOMAIN inbox : inbox'[j] = inbox[k] /\ k # i
      OBVIOUS
    <3>1. CASE j < i
      BY SMTT(30), <1>4, <1>5, <2>2, <3>1
    <3>2. CASE ~(j < i)
      <4>1. j + 1 \in DOMAIN inbox /\ inbox'[j] = inbox[j + 1] /\ j + 1 # i
        BY <1>4, <1>5, <2>2, <3>2
      <4> QED
        BY <4>1
    <3> QED
      BY <3>1, <3>2
  <2> QED
    BY <2>1, <2>2
<1>7. WireKept'
  <2> SUFFICES ASSUME ~GivenUp' PROVE WireKept'
    BY DEF WireKept
  <2>0. ~GivenUp
    BY <1>2 DEF GivenUp, MbapStream
  <2>1. framing # "Udp" =>
          \A j, k \in DOMAIN inbox' : inbox'[j].of = inbox'[k].of /\ inbox'[j].of # 0 => j = k
    <3>1. CASE inbox[i].kind = "closed"
      BY <1>5, <2>0, <3>1 DEF IInv, WireKept
    <3>2. CASE inbox[i].kind # "closed"
      <4> SUFFICES ASSUME framing # "Udp", NEW j \in DOMAIN inbox', NEW k \in DOMAIN inbox',
                          inbox'[j].of = inbox'[k].of, inbox'[j].of # 0
                   PROVE  j = k
        OBVIOUS
      <4>1. PICK a \in DOMAIN inbox : a = (IF j < i THEN j ELSE j + 1) /\ inbox'[j] = inbox[a]
        BY <1>5, <3>2
      <4>2. PICK b \in DOMAIN inbox : b = (IF k < i THEN k ELSE k + 1) /\ inbox'[k] = inbox[b]
        BY <1>5, <3>2
      <4>3. a = b
        BY SMTT(30), <2>0, <4>1, <4>2 DEF IInv, WireKept
      <4> QED
        BY SMTT(30), <1>4, <1>5, <4>1, <4>2, <4>3
    <3> QED
      BY <3>1, <3>2
  <2>2. \A j \in DOMAIN inbox' : inbox'[j].of # 0 =>
          LET r == requests[inbox'[j].of] IN
          /\ r.reach \in {"whole", "late"} /\ r.replies > 0 /\ ~IsBroadcast(r.unit)
          /\ inbox'[j].tid = r.tid /\ inbox'[j].unit = r.unit
    BY SMTT(30), <1>6, <2>0 DEF IInv, WireKept
  <2>3. \A j \in DOMAIN inbox' : inbox'[j].of = 0 /\ inbox'[j].kind \notin Failures =>
          IF HasTid THEN inbox'[j].tid \notin 1..MaxTid ELSE inbox'[j].unit \notin Units
    BY ZenonT(30), <1>6, <2>0 DEF IInv, WireKept
  <2> QED
    BY SMTT(30), <1>2, <2>1, <2>2, <2>3, FramingKept DEF WireKept
<1>8. Settled(Current - 1) => Settled(Current - 1)'
  BY <1>2, <1>3, <1>6, FramingKept DEF Settled
<1>9. \/ UNCHANGED <<state, receiving, phase, overdue, outcome>>
      \/ /\ IsResponseTo(requests[Current], inbox[i]) /\ inbox[i].kind \notin Failures
         /\ phase' = "idle" /\ receiving' = FALSE /\ UNCHANGED overdue
         /\ state' = "Answered" /\ outcome'.from = inbox[i].of
      \/ /\ phase' = "idle" /\ receiving' = FALSE /\ UNCHANGED overdue /\ outcome'.from = 0
         /\ state' \in UnusableReasons \/ (SelfLocating /\ state' = "Unanswered")
  <2>1. \A x, y : Outcome(x, y).from = y
    BY DEF Outcome
  <2>2. \A kind \in Failures : Classify(kind) \in UnusableReasons
    BY DEF Failures, Classify, UnusableReasons
  <2>3. "response" \notin Failures /\ "mismatched" \notin Failures
    BY DEF Failures
  <2>4. CASE Discard(inbox[i])
    BY <2>4 DEF Discard
  <2>5. CASE Accept(inbox[i])
    <3>1. inbox[i].kind \in {"response", "mismatched"}
      BY <2>5 DEF Accept
    <3> QED
      BY <2>1, <2>3, <2>5, <3>1 DEF Accept
  <2>6. CASE Fail(inbox[i])
    <3>1. PICK kind \in Failures : kind = inbox[i].kind
      BY <2>6 DEF Fail
    <3>2. state' = IF EndsStream(kind) \/ ~SelfLocating THEN Classify(kind) ELSE "Unanswered"
      BY <2>6, <3>1 DEF Fail
    <3> QED
      BY <2>1, <2>2, <2>6, <3>1, <3>2 DEF Fail
  <2> QED
    BY <1>1, <2>4, <2>5, <2>6
<1>10. TypeOK'
  <2>1. /\ state' \in {"Untried", "Answered", "Unanswered"} \cup UnusableReasons
        /\ phase' \in {"idle", "sending", "waiting"} /\ receiving' \in BOOLEAN
        /\ overdue' \in BOOLEAN
    BY <1>9 DEF IInv, TypeOK
  <2>2. outcome'.from \in 0..Current
    BY SMTT(30), <1>3, <1>4, <1>9 DEF IInv, TypeOK
  <2> QED
    BY <1>2, <1>3, <1>5, <2>1, <2>2 DEF IInv, TypeOK
<1>11. CallKept'
  BY <1>2, <1>3, <1>9 DEF IInv, CallKept, Usable
<1>12. StreamKept'
  <2> SUFFICES ASSUME Stream, ~GivenUp' PROVE StreamKept'
    BY <1>2, FramingKept DEF StreamKept
  <2>0. ~GivenUp
    BY <1>2 DEF GivenUp, MbapStream
  <2>1. ~SelfLocating /\ framing # "Udp"
    BY DEF Stream, SelfLocating
  <2>2. Settled(Current - 1)'
    BY <1>2, <1>8, <2>0 DEF IInv, StreamKept
  <2>3. ASSUME IsResponseTo(requests[Current], inbox[i]), inbox[i].kind \notin Failures
        PROVE  Settled(Current)'
    <3>1. inbox[i].of = Current /\ inbox[i].kind # "closed"
      BY <1>1, <1>2, <2>0, <2>1, <2>3, RepliesToCurrent DEF Failures
    <3>2. requests[Current].replies > 0
      BY <1>3, <2>0, <3>1 DEF IInv, WireKept
    <3>3. \A j \in DOMAIN inbox' : inbox'[j].of # Current
      BY <1>3, <1>6, <2>0, <2>1, <3>1 DEF IInv, WireKept
    <3> QED
      BY SMTT(30), <1>2, <1>3, <2>2, <3>2, <3>3 DEF Settled
  <2>4. state' \in UnusableReasons => ~Usable'
    BY DEF Usable
  <2> QED
    BY <1>2, <1>9, <2>1, <2>2, <2>3, <2>4 DEF StreamKept
<1>13. DatagramKept'
  BY <1>2, <1>3, <1>9 DEF IInv, DatagramKept
<1>14. OwnReply'
  <2>1. framing \in {"Tcp", "Tls", "Udp", "RtuOverTcp", "Rtu", "Ascii"}
    <3>1. framing \in Framings
      BY DEF IInv, TypeOK
    <3> QED
      BY <3>1, ClientAssumption, Zenon
  <2>2. GivenUp' = GivenUp
    BY <1>2 DEF GivenUp, MbapStream
  <2> SUFFICES ASSUME Stream \/ framing = "Udp", framing = "Udp" => Current <= MaxTid,
                      phase' = "idle", ~GivenUp
               PROVE  outcome'.from \in {0, Current}
    BY <1>2, <1>3, <2>1, <2>2 DEF OwnReply, SelfLocating, Stream
  <2> QED
    BY <1>1, <1>2, <1>9, RepliesToCurrent
<1> QED
  BY <1>7, <1>10, <1>11, <1>12, <1>13, <1>14 DEF IInv

\* A frame is added to those on their way.
LEMMA Arriving ==
  ASSUME TypeOK, NEW a \in Frames(Current), inbox' = Append(inbox, a)
  PROVE  /\ inbox' \in Seq(Frames(Current)) /\ DOMAIN inbox' = 1..(Len(inbox) + 1)
         /\ \A j \in 1..Len(inbox) : inbox'[j] = inbox[j]
         /\ inbox'[Len(inbox) + 1] = a
<1>1. inbox \in Seq(Frames(Current))
  BY Elements
<1> QED
  BY <1>1

\* A reply to request n sets out.
LEMMA ReplyKeeps ==
  ASSUME IInv, NEW n \in 1..Current, NEW a \in Frames(Current),
         a.of = n, a.tid = requests[n].tid, a.unit = requests[n].unit,
         requests[n].reach \in {"whole", "late"}, ~IsBroadcast(requests[n].unit),
         requests[n].replies + 1 <= MaxReplies, framing # "Udp" => requests[n].replies = 0,
         requests' = [requests EXCEPT ![n].replies = @ + 1], inbox' = Append(inbox, a),
         UNCHANGED <<framing, state, next_transaction, receiving, phase, overdue, outcome, noise>>
  PROVE  IInv'
<1>2. Current \in Nat /\ requests[n].replies \in 0..MaxReplies
  BY Elements DEF IInv
<1>3. requests[n].replies + 1 \in 0..MaxReplies
  BY SMTT(30), <1>2, Bounds
<1>4. /\ requests' \in Seq(Requests) /\ Current' = Current /\ DOMAIN requests' = 1..Current
      /\ \A i \in 1..Current :
           /\ requests'[i].tid = requests[i].tid /\ requests'[i].unit = requests[i].unit
           /\ requests'[i].reach = requests[i].reach
           /\ requests'[i].replies = IF i = n THEN requests[i].replies + 1 ELSE requests[i].replies
  BY <1>2, <1>3, RepliesSet DEF IInv
<1>5. GivenUp => GivenUp'
  <2>1. DOMAIN requests = 1..Current
    BY Elements DEF IInv
  <2>2. \A i \in DOMAIN requests : i \in DOMAIN requests' /\ requests'[i].reach = requests[i].reach
    BY <1>4, <2>1
  <2> QED
    BY <2>2, GivenUpStays
<1>6. n # 0
  BY <1>2
<1>7. /\ inbox' \in Seq(Frames(Current)) /\ DOMAIN inbox' = 1..(Len(inbox) + 1)
      /\ \A j \in 1..Len(inbox) : inbox'[j] = inbox[j]
      /\ inbox'[Len(inbox) + 1] = a
  BY Arriving DEF IInv
<1>8. Len(inbox) \in Nat /\ DOMAIN inbox = 1..Len(inbox)
      /\ \A j \in 1..Len(inbox) : inbox[j].of \in 0..Current
  BY Elements DEF IInv
<1>9. ~GivenUp => \A j \in 1..Len(inbox) : inbox[j].of = n => framing = "Udp"
  BY SMTT(30), <1>2, <1>8 DEF IInv, WireKept
<1>10. WireKept'
  <2> SUFFICES ASSUME ~GivenUp' PROVE WireKept'
    BY DEF WireKept
  <2>0. ~GivenUp
    BY <1>5
  <2>1. \A j \in DOMAIN inbox' : inbox'[j].of # 0 =>
          LET r == requests'[inbox'[j].of] IN
          /\ r.reach \in {"whole", "late"} /\ r.replies > 0 /\ ~IsBroadcast(r.unit)
          /\ inbox'[j].tid = r.tid /\ inbox'[j].unit = r.unit
    <3> SUFFICES ASSUME NEW j \in 1..(Len(inbox) + 1), inbox'[j].of # 0
                 PROVE  LET r == requests'[inbox'[j].of] IN
                        /\ r.reach \in {"whole", "late"} /\ r.replies > 0 /\ ~IsBroadcast(r.unit)
                        /\ inbox'[j].tid = r.tid /\ inbox'[j].unit = r.unit
      BY <1>7
    <3>1. CASE j = Len(inbox) + 1
      BY SMTT(30), <1>2, <1>4, <1>6, <1>7, <3>1
    <3>2. CASE j \in 1..Len(inbox)
      <4>1. PICK m \in 1..Current : m = inbox[j].of /\ inbox'[j] = inbox[j]
        BY SMTT(30), <1>7, <1>8, <3>2
      <4>2. /\ requests[m].reach \in {"whole", "late"} /\ requests[m].replies > 0
            /\ ~IsBroadcast(requests[m].unit)
            /\ inbox[j].tid = requests[m].tid /\ inbox[j].unit = requests[m].unit
            /\ requests[m].replies \in Nat
        BY SMTT(30), <1>8, <2>0, <3>2, <4>1, Elements DEF IInv, WireKept
      <4> QED
        BY SMTT(30), <1>4, <4>1, <4>2
    <3> QED
      BY <1>8, <3>1, <3>2
  <2>2. \A j \in DOMAIN inbox' : inbox'[j].of = 0 /\ inbox'[j].kind \notin Failures =>
          IF HasTid THEN inbox'[j].tid \notin 1..MaxTid ELSE inbox'[j].unit \notin Units
    BY SMTT(30), <1>6, <1>7, <1>8, <2>0 DEF IInv, WireKept
  <2>3. framing # "Udp" =>
          \A j, k \in DOMAIN inbox' : inbox'[j].of = inbox'[k].of /\ inbox'[j].of # 0 => j = k
    <3> SUFFICES ASSUME framing # "Udp", NEW j \in 1..(Len(inbox) + 1), NEW k \in 1..(Len(inbox) + 1),
                        inbox'[j].of = inbox'[k].of, inbox'[j].of # 0
                 PROVE  j = k
      BY <1>7
    <3>1. \A l \in 1..Len(inbox) : inbox'[l] = inbox[l] /\ inbox[l].of # n
      BY <1>7, <1>9, <2>0
    <3>2. inbox'[Len(inbox) + 1].of = n
      BY <1>6, <1>7
    <3>3. CASE j \in 1..Len(inbox) /\ k \in 1..Len(inbox)
      BY ZenonT(30), <1>8, <2>0, <3>1, <3>3 DEF IInv, WireKept
    <3> QED
      BY SMTT(30), <1>8, <3>1, <3>2, <3>3
  <2> QED
    BY SMTT(30), <2>1, <2>2, <2>3, FramingKept DEF WireKept
<1>11. Stream => \A m \in 0..Current : Settled(m) => Settled(m)'
  <2> SUFFICES ASSUME Stream, NEW m \in 0..Current, Settled(m) PROVE Settled(m)'
    OBVIOUS
  <2>1. framing # "Udp"
    BY DEF Stream
  <2>2. n \notin 1..m
    BY SMTT(30), <1>2, <2>1 DEF Settled
  <2> QED
    BY SMTT(30), <1>2, <1>4, <1>6, <1>7, <1>8, <2>2, FramingKept DEF Settled
<1>12. TypeOK'
  BY <1>4, <1>7 DEF IInv, TypeOK
<1>13. CallKept'
  <2>1. phase = "sending" => n # Current
    BY DEF IInv, CallKept
  <2>2. phase # "idle" => Current \in 1..Current
    BY <1>2 DEF IInv, CallKept
  <2> QED
    BY <1>4, <2>1, <2>2 DEF IInv, CallKept, Usable
<1>14. StreamKept'
  <2>1. phase # "idle" => Current - 1 \in 0..Current
    BY <1>2 DEF IInv, CallKept
  <2>2. Current \in 0..Current
    BY <1>2
  <2> QED
    BY <1>4, <1>5, <1>11, <2>1, <2>2, FramingKept DEF IInv, StreamKept, Usable
<1>15. DatagramKept'
  <2> SUFFICES ASSUME framing = "Udp" PROVE DatagramKept'
    BY DEF DatagramKept
  <2>1. DOMAIN requests = 1..Current
    BY Elements DEF IInv
  <2>2. phase = "waiting" => Current \in 1..Current
    BY <1>2 DEF IInv, CallKept
  <2> QED
    BY SMTT(30), <1>4, <2>1, <2>2 DEF IInv, DatagramKept
<1>16. OwnReply'
  BY <1>4, <1>5, FramingKept DEF IInv, OwnReply
<1> QED
  BY <1>10, <1>12, <1>13, <1>14, <1>15, <1>16 DEF IInv

\* Something that replies to no request of this client sets out, or to misread bytes.
LEMMA OtherKeeps ==
  ASSUME IInv, NEW a \in Frames(Current),
         \/ GivenUp
         \/ /\ a.of = 0
            /\ a.kind \notin Failures =>
                 IF HasTid THEN a.tid \notin 1..MaxTid ELSE a.unit \notin Units,
         inbox' = Append(inbox, a), noise' \in 0..MaxNoise,
         UNCHANGED <<framing, state, next_transaction, receiving, phase, overdue, requests, outcome>>
  PROVE  IInv'
<1>1. /\ inbox' \in Seq(Frames(Current)) /\ DOMAIN inbox' = 1..(Len(inbox) + 1)
      /\ \A j \in 1..Len(inbox) : inbox'[j] = inbox[j]
      /\ inbox'[Len(inbox) + 1] = a
  BY Arriving DEF IInv
<1>2. /\ Len(inbox) \in Nat /\ DOMAIN inbox = 1..Len(inbox) /\ Current' = Current
      /\ Current \in Nat
  BY Elements DEF IInv, Current
<1>9. GivenUp' = GivenUp
  BY DEF GivenUp, MbapStream
<1>3. WireKept'
  BY SMTT(30), <1>1, <1>2, <1>9, FramingKept DEF IInv, WireKept
<1>4. ~GivenUp => \A m \in 0..Current : Settled(m) => Settled(m)'
  BY SMTT(30), <1>1, <1>2, FramingKept DEF Settled
<1>5. TypeOK'
  BY <1>1, <1>2 DEF IInv, TypeOK
<1>6. CallKept' /\ DatagramKept'
  BY <1>2 DEF IInv, CallKept, DatagramKept, Usable
<1>7. StreamKept'
  <2>1. phase # "idle" => Current - 1 \in 0..Current
    BY <1>2 DEF IInv, CallKept
  <2>2. Current \in 0..Current
    BY SMTT(30), <1>2
  <2> QED
    BY <1>2, <1>4, <1>9, <2>1, <2>2, FramingKept DEF IInv, StreamKept, Usable
<1>8. OwnReply'
  BY <1>2, <1>9, FramingKept DEF IInv, OwnReply
<1> QED
  BY <1>3, <1>5, <1>6, <1>7, <1>8 DEF IInv

\* A request that the peer may answer, as PeerReply requires, and its reply.
LEMMA AnsweredKeeps ==
  ASSUME IInv, NEW n \in 1..Current, NEW what \in {"response", "mismatched"}, NEW a,
         a = Arrival(what, requests[n].tid, requests[n].unit, n),
         requests[n].reach \in {"whole", "late"}, ~IsBroadcast(requests[n].unit),
         requests[n].replies < IF framing = "Udp" THEN MaxReplies ELSE 1,
         requests' = [requests EXCEPT ![n].replies = @ + 1], inbox' = Append(inbox, a),
         UNCHANGED <<framing, state, next_transaction, receiving, phase, overdue, outcome, noise>>
  PROVE  IInv'
<1>1. /\ Current \in Nat /\ n \in 1..Current /\ requests[n].replies \in 0..MaxReplies
      /\ requests[n].tid \in 1..MaxTid /\ requests[n].unit \in Units
  BY Elements DEF IInv
<1>2. /\ a \in Frames(Current) /\ a.of = n /\ a.tid = requests[n].tid /\ a.unit = requests[n].unit
  <2>1. requests[n].tid \in Nat /\ requests[n].unit \in Nat /\ n \in 0..Current
    BY SMTT(30), <1>1, Bounds
  <2> QED
    BY <2>1 DEF Arrival, Frames
<1>3. /\ requests[n].replies + 1 <= MaxReplies
      /\ framing # "Udp" => requests[n].replies = 0
  BY SMTT(30), <1>1, Bounds
<1> QED
  BY <1>1, <1>2, <1>3, ReplyKeeps

\* The peer replies.
LEMMA PeerReplyKeeps ==
  ASSUME IInv, \E i \in DOMAIN requests, kind \in {"response", "mismatched"} : PeerReply(i, kind)
  PROVE  IInv'
<1>1. PICK n \in DOMAIN requests : \E kind \in {"response", "mismatched"} : PeerReply(n, kind)
  BY Zenon
<1>2. PICK what \in {"response", "mismatched"} : PeerReply(n, what)
  BY <1>1, Zenon
<1>3. PICK a : a = Arrival(what, requests[n].tid, requests[n].unit, n)
  BY Zenon
<1>4. /\ requests[n].reach \in {"whole", "late"} /\ ~IsBroadcast(requests[n].unit)
      /\ requests[n].replies < IF framing = "Udp" THEN MaxReplies ELSE 1
      /\ requests' = [requests EXCEPT ![n].replies = @ + 1] /\ inbox' = Append(inbox, a)
      /\ UNCHANGED <<framing, state, next_transaction, receiving, phase, overdue, outcome, noise>>
  BY <1>2, <1>3, Zenon DEF PeerReply, Understood, Arrive
<1>5. n \in 1..Current
  BY Elements, Zenon DEF IInv
<1> QED
  BY <1>3, <1>4, <1>5, AnsweredKeeps, Zenon

\* The peer replies to misread bytes.
LEMMA MisreadReplyKeeps ==
  ASSUME IInv, NEW n \in DOMAIN requests, NEW kind \in {"response", "mismatched"},
         NEW h \in [tid : 1..MaxTid, unit : Units], MisreadReply(n, kind, h)
  PROVE  IInv'
<1>1. PICK a : a = Arrival(kind, h.tid, h.unit, n)
  BY Zenon
<1>2. GivenUp
  BY DEF MisreadReply, Misread, Torn, GivenUp
<1>3. a \in Frames(Current)
  <2>2. PICK t \in 1..MaxTid, u \in Units : t = h.tid /\ u = h.unit
    BY SMTT(30)
  <2>3. n \in 1..Current /\ Current \in Nat
    BY Elements DEF IInv
  <2>4. t \in Nat /\ u \in Nat /\ n \in 0..Current
    BY SMTT(30), <2>3, Bounds
  <2>1. n \in 0..Current /\ h.tid \in Nat /\ h.unit \in Nat
    BY <2>2, <2>4, Zenon
  <2> QED
    BY <1>1, <2>1 DEF Arrival, Frames
<1>4. /\ inbox' = Append(inbox, a) /\ noise < MaxNoise /\ noise' = noise + 1
      /\ UNCHANGED <<framing, state, next_transaction, receiving, phase, overdue, requests, outcome>>
  BY <1>1, Zenon DEF MisreadReply, Arrive
<1>5. noise' \in 0..MaxNoise
  BY SMTT(30), <1>4, Bounds DEF IInv, TypeOK
<1> QED
  BY <1>2, <1>3, <1>4, <1>5, OtherKeeps, Zenon

\* The line and strangers.
LEMMA LineKeeps ==
  ASSUME IInv, ForeignStrays,
         \/ \E h \in Strays : Stray(h)
         \/ \E kind \in {"undecodable", "stalled"} : Noise(kind)
         \/ \E kind \in {"closed", "io"} : Hangup(kind)
  PROVE  IInv'
<1>1. Current \in Nat /\ 0 \in 0..Current /\ noise \in 0..MaxNoise
  BY SMTT(30), Elements DEF IInv, TypeOK
<1>2. ASSUME NEW h \in Strays, Stray(h) PROVE IInv'
  <2>1. PICK a : a = Arrival("response", h.tid, h.unit, 0)
    OBVIOUS
  <2>2. h.tid \in Nat /\ h.unit \in Nat
    BY Bounds
  <2>3. a \in Frames(Current) /\ a.of = 0 /\ a.tid = h.tid /\ a.unit = h.unit
    BY <1>1, <2>1, <2>2 DEF Arrival, Frames
  <2>4. IF HasTid THEN a.tid \notin 1..MaxTid ELSE a.unit \notin Units
    BY <1>2, <2>3 DEF ForeignStrays, Stray
  <2>5. /\ inbox' = Append(inbox, a) /\ noise' = noise
        /\ UNCHANGED <<framing, state, next_transaction, receiving, phase, overdue, requests, outcome>>
    BY <1>2, <2>1, Zenon DEF Stray, Arrive
  <2> QED
    BY <1>1, <2>3, <2>4, <2>5, OtherKeeps
<1>3. ASSUME NEW kind \in Failures, Noise(kind) \/ Hangup(kind) PROVE IInv'
  <2>1. PICK a : a = Failure(kind)
    OBVIOUS
  <2>2. a \in Frames(Current) /\ a.of = 0 /\ a.kind \in Failures
    BY <1>1, <2>1 DEF Failure, Arrival, Frames
  <2>3. /\ inbox' = Append(inbox, a) /\ noise < MaxNoise /\ noise' = noise + 1
        /\ UNCHANGED <<framing, state, next_transaction, receiving, phase, overdue, requests, outcome>>
    BY <1>3, <2>1, Zenon DEF Noise, Hangup, Arrive
  <2>4. noise' \in 0..MaxNoise
    BY SMTT(30), <1>1, <2>3, Bounds
  <2> QED
    BY <2>2, <2>3, <2>4, OtherKeeps
<1> QED
  BY <1>2, <1>3 DEF Failures

LEMMA StutterKeeps ==
  ASSUME IInv, UNCHANGED vars
  PROVE  IInv'
<1>1. UNCHANGED <<framing, state, next_transaction, receiving, phase, overdue, requests, outcome,
                  inbox, noise>> /\ Current' = Current
  BY DEF vars, Current
<1>4. GivenUp' = GivenUp
  BY <1>1 DEF GivenUp, MbapStream
<1>2. WireKept' /\ StreamKept'
  BY SMTT(30), <1>1, <1>4, FramingKept DEF IInv, WireKept, StreamKept, Settled, Usable
<1>3. TypeOK' /\ CallKept' /\ DatagramKept' /\ OwnReply'
  BY SMTT(30), <1>1, <1>4, FramingKept DEF IInv, TypeOK, CallKept, DatagramKept, OwnReply, Usable
<1> QED
  BY <1>2, <1>3 DEF IInv

LEMMA Invariance ==
  ASSUME ForeignStrays
  PROVE  Spec => []IInv
<1>1. IInv /\ [Next]_vars => IInv'
  BY WaitKeeps, CallKeeps, FinishSendKeeps, AbandonKeeps, ReceiveKeeps, PeerReplyKeeps,
     MisreadReplyKeeps, LineKeeps, StutterKeeps, Zenon
  DEF Next
<1> QED
  BY <1>1, InitOK, PTL DEF Spec

-----------------------------------------------------------------------------
\* The client's state stays well typed: no request bears the transaction id 0 (CL-R-011).
THEOREM ClientTypeCorrect ==
  ASSUME ForeignStrays
  PROVE  Spec => []TypeOK
<1>1. IInv => TypeOK
  BY DEF IInv
<1> QED
  BY <1>1, Invariance, PTL

\* A call is never given the reply to an earlier request (CL-R-024): on RTU over TCP ever, on UDP
\* until a transaction id is reused, and on TCP and TLS until a write is given up part-way, however
\* the caller drops its calls otherwise, however the deadlines fall and whatever the network
\* repeats, delays and reorders.
THEOREM RepliesAreOwn ==
  ASSUME ForeignStrays
  PROVE  Spec => []OwnReply
<1>1. IInv => OwnReply
  BY DEF IInv
<1> QED
  BY <1>1, Invariance, PTL

\* On a stream a usable client whose latch is clear has no reply of an earlier exchange coming,
\* under MBAP as long as no write was given up part-way: but for that the latch and the unusable
\* states record all that is left open (TR-R-090, CL-R-090).
THEOREM StreamIsClear ==
  ASSUME ForeignStrays
  PROVE  Spec => []NothingOutstanding
<1>1. IInv => NothingOutstanding
  <2> SUFFICES ASSUME IInv, phase # "waiting", Usable, ~receiving, ~SelfLocating,
                      framing # "Udp", ~GivenUp
               PROVE  \A i \in DOMAIN requests :
                        requests[i].reach \in {"whole", "late"} /\ ~IsBroadcast(requests[i].unit) =>
                          requests[i].replies > 0 /\ \A j \in DOMAIN inbox : inbox[j].of # i
    BY DEF NothingOutstanding, Understood
  <2>1. framing \in {"Tcp", "Tls", "Udp", "RtuOverTcp", "Rtu", "Ascii"}
    <3>1. framing \in Framings
      BY DEF IInv, TypeOK
    <3> QED
      BY <3>1, ClientAssumption, Zenon
  <2>2. Stream
    BY <2>1 DEF Stream, SelfLocating
  <2>3. DOMAIN requests = 1..Current /\ Current \in Nat
    BY Elements DEF IInv
  <2>4. CASE phase = "idle"
    BY <2>2, <2>3, <2>4 DEF IInv, StreamKept, Settled
  <2>5. CASE phase = "sending"
    <3>1. Settled(Current - 1) /\ requests[Current].reach = "none"
      BY <2>2, <2>5 DEF IInv, StreamKept, CallKept
    <3> QED
      BY SMTT(30), <2>3, <3>1 DEF Settled
  <2> QED
    BY <2>4, <2>5 DEF IInv, TypeOK
<1> QED
  BY <1>1, Invariance, PTL

\* An unusable client stays unusable for the same reason and never writes again
\* (CL-R-032, CL-R-033): no call is in progress that could change the one or do the other.
THEOREM UnusableForGood ==
  ASSUME ForeignStrays
  PROVE  Spec => UnusableIsFinal
<1>1. ASSUME IInv, [Next]_vars, ~Usable
      PROVE  state' = state /\ Len(requests') = Len(requests)
  <2>1. phase = "idle"
    BY <1>1 DEF IInv, TypeOK, CallKept
  <2>2. ~(FinishSend \/ FailSend \/ CancelSending \/ CancelWaiting \/ Receive \/ Elapse \/ TimeOut)
    BY <2>1 DEF FinishSend, FailSend, CancelSending, CancelWaiting, Receive, Elapse, TimeOut
  <2>3. \A u \in Units : Refuse(u) => UNCHANGED <<state, requests>>
    BY DEF Refuse
  <2>4. \A u \in Units : ~Call(u)
    BY <1>1 DEF Call
  <2>5. \A h \in Strays : Stray(h) => UNCHANGED <<state, requests>>
    BY DEF Stray
  <2>6. \A kind : Noise(kind) \/ Hangup(kind) => UNCHANGED <<state, requests>>
    BY DEF Noise, Hangup
  <2>9. \A i, kind, h : MisreadReply(i, kind, h) => UNCHANGED <<state, requests>>
    BY DEF MisreadReply
  <2>7. ASSUME \E i \in DOMAIN requests, kind \in {"response", "mismatched"} : PeerReply(i, kind)
        PROVE  state' = state /\ Len(requests') = Len(requests)
    <3>1. PICK i \in DOMAIN requests :
            requests' = [requests EXCEPT ![i].replies = @ + 1] /\ state' = state
      BY <2>7, Zenon DEF PeerReply
    <3>2. requests \in Seq(Requests)
      BY <1>1 DEF IInv, TypeOK
    <3> QED
      BY <3>1, <3>2
  <2>8. UNCHANGED vars => UNCHANGED <<state, requests>>
    BY DEF vars
  <2> QED
    BY <1>1, <2>2, <2>3, <2>4, <2>5, <2>6, <2>7, <2>8, <2>9, Zenon DEF Next
<1>2. IInv /\ [Next]_vars => [~Usable => state' = state /\ Len(requests') = Len(requests)]_vars
  BY <1>1
<1> QED
  BY <1>2, Invariance, PTL DEF Spec, UnusableIsFinal

=============================================================================
