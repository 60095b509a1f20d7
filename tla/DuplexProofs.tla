---------------------------- MODULE DuplexProofs ----------------------------
(***************************************************************************)
(* Counting: the permits of the pipelined client, and what they bound when *)
(* client and server share one stream, for any number of calls, any        *)
(* max_in_flight and any room in the two directions.  The client is the    *)
(* one of Pipeline, and what is on the way between the two is what the     *)
(* client is waiting for.                                                  *)
(***************************************************************************)
EXTENDS Duplex, PipelineProofs, FiniteSetTheorems

\* A leaf that names no prover is for Zenon, or else for the SMT solver.
USE ZenonT(5), SMTT(30)

-----------------------------------------------------------------------------
(* The semaphore.                                                           *)

\* PermitsConserved, and that only finitely many futures own a permit, whatever Calls is.
PermitsKept == IsFiniteSet(Holders) /\ PermitsConserved

\* One more future owns a permit, one fewer, or another one.
LEMMA HoldersCount ==
  ASSUME IsFiniteSet(Holders), NEW c \in Holders, NEW d, d \notin Holders
  PROVE  /\ Cardinality(Holders) \in Nat
         /\ IsFiniteSet(Holders \ {c}) /\ Cardinality(Holders \ {c}) = Cardinality(Holders) - 1
         /\ IsFiniteSet((Holders \ {c}) \cup {d})
         /\ Cardinality((Holders \ {c}) \cup {d}) = Cardinality(Holders)
<1>1. Cardinality(Holders) \in Nat
  BY FS_CardinalityType
<1>2. IsFiniteSet(Holders \ {c}) /\ Cardinality(Holders \ {c}) = Cardinality(Holders) - 1
  BY FS_RemoveElement
<1>3. d \notin Holders \ {c}
  OBVIOUS
<1>4. /\ IsFiniteSet((Holders \ {c}) \cup {d})
      /\ Cardinality((Holders \ {c}) \cup {d}) = Cardinality(Holders \ {c}) + 1
  BY <1>2, <1>3, FS_AddElement
<1> QED
  BY SMTT(30), <1>1, <1>2, <1>4

\* A future that leaves its permit behind, for a phase without one.
LEMMA ReleaseConserves ==
  ASSUME TypeOK, QueueKept, PermitsKept, NEW c \in Holders, NEW p \in {"done", "cancelled", "panicked"},
         ReleasePermit(c, p)
  PROVE  PermitsKept'
<1>1. phase \in [Calls -> Phases] /\ waiters \in Seq(Calls) /\ permits \in Nat /\ c \in Calls
  BY DEF TypeOK, Holders
<1>2. MaxInFlight \in Nat
  BY PipelineAssumption, Zenon
<1>3. CASE waiters = <<>>
  <2>1. permits' = permits + 1 /\ waiters' = <<>> /\ phase' = [phase EXCEPT ![c] = p]
    BY <1>3 DEF ReleasePermit
  <2>2. Holders' = Holders \ {c}
    BY <1>1, <2>1 DEF Holders
  <2>3. Cardinality(Holders) \in Nat
    BY FS_CardinalityType DEF PermitsKept
  <2>4. IsFiniteSet(Holders \ {c}) /\ Cardinality(Holders \ {c}) = Cardinality(Holders) - 1
    BY FS_RemoveElement DEF PermitsKept
  <2>5. permits' + Cardinality(Holders') = MaxInFlight
    BY SMTT(30), <1>1, <1>2, <2>1, <2>2, <2>3, <2>4 DEF PermitsKept, PermitsConserved
  <2> QED
    BY <2>1, <2>2, <2>4, <2>5 DEF PermitsKept, PermitsConserved
<1>4. CASE waiters # <<>>
  <2>1. /\ permits' = permits /\ waiters' = Tail(waiters)
        /\ phase' = [phase EXCEPT ![c] = p, ![Head(waiters)] = "assigned"]
    BY <1>4 DEF ReleasePermit
  <2>2. Head(waiters) \in Calls /\ Head(waiters) \in Range(waiters)
    BY SMTT(30), <1>1, <1>4, TailFacts
  <2>3. phase[Head(waiters)] = "queued"
    BY <2>2 DEF QueueKept
  <2>4. Head(waiters) \notin Holders /\ Head(waiters) # c
    BY <2>3 DEF Holders
  <2>5. Holders' = (Holders \ {c}) \cup {Head(waiters)}
    BY <1>1, <2>1, <2>2, <2>4 DEF Holders
  <2>6. /\ IsFiniteSet(Holders') /\ Cardinality(Holders') = Cardinality(Holders)
    BY <2>4, <2>5, HoldersCount DEF PermitsKept
  <2>7. ~(permits > 0)
    BY <1>4 DEF PermitsKept, PermitsConserved
  <2> QED
    BY <2>1, <2>6, <2>7 DEF PermitsKept, PermitsConserved
<1> QED
  BY <1>3, <1>4

\* A future that takes a free permit.
LEMMA AcquireConserves ==
  ASSUME TypeOK, PermitsKept, NEW c \in Calls, phase[c] = "idle", permits > 0,
         permits' = permits - 1, phase' = [phase EXCEPT ![c] = "admitted"], waiters' = waiters
  PROVE  PermitsKept'
<1>1. permits \in Nat /\ phase \in [Calls -> Phases]
  BY DEF TypeOK
<1>2. MaxInFlight \in Nat
  BY PipelineAssumption, Zenon
<1>3. c \notin Holders
  BY DEF Holders
<1>4. Holders' = Holders \cup {c}
  BY <1>1 DEF Holders
<1>5. Cardinality(Holders) \in Nat
  BY FS_CardinalityType DEF PermitsKept
<1>6. IsFiniteSet(Holders \cup {c}) /\ Cardinality(Holders \cup {c}) = Cardinality(Holders) + 1
  BY <1>3, FS_AddElement DEF PermitsKept
<1>7. permits' + Cardinality(Holders') = MaxInFlight
  BY SMTT(30), <1>1, <1>2, <1>4, <1>5, <1>6 DEF PermitsKept, PermitsConserved
<1> QED
  BY <1>4, <1>6, <1>7 DEF PermitsKept, PermitsConserved

\* A future that owns a permit as little, or as much, after the step as before.
LEMMA MoveConserves ==
  ASSUME TypeOK, PermitsKept, NEW c \in Calls, NEW p \in Phases,
         phase' = [phase EXCEPT ![c] = p], permits' = permits,
         {phase[c], p} \subseteq {"idle", "queued", "done", "cancelled", "panicked"}
           \/ {phase[c], p} \subseteq {"assigned", "admitted", "checked", "numbered", "awaiting"},
         permits > 0 => waiters' = <<>>
  PROVE  PermitsKept'
<1>1. phase \in [Calls -> Phases]
  BY DEF TypeOK
<1>2. Holders' = Holders
  BY <1>1 DEF Holders
<1> QED
  BY <1>2 DEF PermitsKept, PermitsConserved

\* Every step of a future on its way to a permit or from it.
LEMMA PollsConserve ==
  ASSUME TypeOK, QueueKept, PermitsKept, NEW c \in Calls, Polls(c)
  PROVE  PermitsKept'
<1>1. CASE Send(c)
  <2>1. CASE permits > 0
    BY SMTT(30), <1>1, <2>1, AcquireConserves DEF Send
  <2>2. CASE ~(permits > 0)
    <3>1. /\ phase[c] = "idle" /\ phase' = [phase EXCEPT ![c] = "queued"] /\ permits' = permits
      BY <1>1, <2>2 DEF Send
    <3> QED
      BY <2>2, <3>1, MoveConserves DEF Phases
  <2> QED
    BY <2>1, <2>2
<1>2. CASE TrySend(c)
  <2>1. CASE permits > 0
    BY SMTT(30), <1>2, <2>1, AcquireConserves DEF TrySend
  <2>2. CASE ~(permits > 0)
    <3>1. /\ phase[c] = "idle" /\ phase' = [phase EXCEPT ![c] = "done"] /\ permits' = permits
      BY <1>2, <2>2 DEF TrySend
    <3> QED
      BY <2>2, <3>1, MoveConserves DEF Phases
  <2> QED
    BY <2>1, <2>2
<1>3. CASE Cancel(c)
  <2>1. CASE phase[c] = "queued"
    <3>1. /\ phase' = [phase EXCEPT ![c] = "cancelled"] /\ permits' = permits
          /\ \E i \in DOMAIN waiters : waiters[i] = c
      BY <1>3, <2>1 DEF Cancel
    <3>2. ~(permits > 0)
      BY SMTT(30), <3>1 DEF PermitsKept, PermitsConserved
    <3> QED
      BY <2>1, <3>1, <3>2, MoveConserves DEF Phases
  <2>2. CASE phase[c] # "queued"
    <3>1. c \in Holders /\ ReleasePermit(c, "cancelled")
      BY <1>3, <2>2 DEF Cancel, Holders
    <3> QED
      BY <3>1, ReleaseConserves
  <2> QED
    BY <2>1, <2>2
<1>4. CASE CheckUsable(c)
  <2>1. CASE desynchronized
    <3>1. c \in Holders /\ ReleasePermit(c, "done")
      BY <1>4, <2>1 DEF CheckUsable, Holders
    <3> QED
      BY <3>1, ReleaseConserves
  <2>2. CASE ~desynchronized
    <3>1. /\ phase[c] \in {"assigned", "admitted"} /\ phase' = [phase EXCEPT ![c] = "checked"]
          /\ permits' = permits /\ waiters' = waiters
      BY <1>4, <2>2 DEF CheckUsable
    <3> QED
      BY <3>1, MoveConserves DEF Phases, PermitsKept, PermitsConserved
  <2> QED
    BY <2>1, <2>2
<1>5. CASE Resolve(c)
  <2>1. c \in Holders /\ ReleasePermit(c, "done")
    BY <1>5 DEF Resolve, Holders
  <2> QED
    BY <2>1, ReleaseConserves
<1>6. CASE Panic(c)
  <2>1. c \in Holders /\ ReleasePermit(c, "panicked")
    BY <1>6 DEF Panic, Holders
  <2> QED
    BY <2>1, ReleaseConserves
<1> QED
  BY <1>1, <1>2, <1>3, <1>4, <1>5, <1>6 DEF Polls

LEMMA PermitsPreserved ==
  ASSUME TypeOK, QueueKept, PermitsKept, [Next]_vars
  PROVE  PermitsKept'
<1>1. ASSUME NEW c \in Calls, Allocate(c) PROVE PermitsKept'
  <2>1. phase[c] = "checked" /\ phase' = [phase EXCEPT ![c] = "numbered"] /\ permits' = permits
        /\ waiters' = waiters
    BY <1>1 DEF Allocate
  <2> QED
    BY <2>1, MoveConserves DEF Phases, PermitsKept, PermitsConserved
<1>2. ASSUME NEW c \in Calls, Enqueue(c) PROVE PermitsKept'
  <2>1. phase[c] = "numbered" /\ phase' = [phase EXCEPT ![c] = "awaiting"] /\ permits' = permits
        /\ waiters' = waiters
    BY <1>2 DEF Enqueue
  <2> QED
    BY <2>1, MoveConserves DEF Phases, PermitsKept, PermitsConserved
<1>3. ASSUME UNCHANGED <<phase, permits, waiters>> PROVE PermitsKept'
  BY <1>3 DEF PermitsKept, PermitsConserved, Holders
<1>4. DropHandles \/ TaskStep \/ PeerStep => UNCHANGED <<phase, permits, waiters>>
  BY DropHandlesFrame, TaskFrame, PeerFrame, Zenon
<1> QED
  BY <1>1, <1>2, <1>3, <1>4, StepCases, PollsConserve

LEMMA PermitsInitially == Init => PermitsKept
<1>1. ASSUME Init PROVE Holders = {} /\ permits = MaxInFlight /\ waiters = <<>>
  BY <1>1 DEF Init, Holders
<1>2. MaxInFlight \in Nat
  BY PipelineAssumption, Zenon
<1> QED
  BY SMTT(30), <1>1, <1>2, FS_EmptySet DEF PermitsKept, PermitsConserved

\* Every permit is free or owned by one future, and none is free while a call queues for one: no
\* order of completions, refusals, panics and cancellations leaks a permit or mints one.
THEOREM PermitsNeverLeak == Spec => []PermitsConserved
<1>1. Init => PermitsKept
  BY PermitsInitially
<1>2. IInv /\ PermitsKept /\ [Next]_vars => PermitsKept'
  BY PermitsPreserved DEF IInv, Bookkeeping
<1>3. PermitsKept => PermitsConserved
  BY DEF PermitsKept
<1> QED
  BY <1>1, <1>2, <1>3, BookkeepingHolds, PTL DEF Spec

-----------------------------------------------------------------------------
(* The invariant of client and server.                                      *)

\* The call whose request the server has read and not answered, and the calls whose response the
\* client has not read.
Handling == IF server.at = "handling" THEN {server.of} ELSE {}
Answered == {r.of : r \in responses}

OnTheWay == Range(requests) \cup Handling \cup Answered

\* A call's request or response is on the way once, and it was written; a response is known by its
\* call.
Places ==
  /\ requests \in Seq(Calls) /\ IsInjective(requests)
  /\ server \in [at : {"reading", "handling", "writing"}, of : Calls \cup {Nobody}]
  /\ \A r \in responses : r.unit = UnitOf[r.of]
  /\ OnTheWay \subseteq written
  /\ Range(requests) \cap Handling = {} /\ Range(requests) \cap Answered = {}
  /\ Handling \cap Answered = {}
  /\ IsFiniteSet(written)

\* Until an id is reused, the task of a synchronized handle waits for all that is on the way.
Outstanding ==
  /\ writing # Nobody => task = "running"
  /\ ~reused /\ ~desynchronized /\ task = "running" =>
       OnTheWay \subseteq {writing} \cup Registered

\* All of it, with what Pipeline keeps.
DInv == IInv /\ HeldOnce /\ PermitsKept /\ Places /\ Outstanding

-----------------------------------------------------------------------------
(* The client.                                                              *)

\* Every step of the two together is a step of the client as Pipeline has it, or none of its.
LEMMA StepsOfClient == ASSUME TypeOK, [DuplexNext]_duplexVars PROVE [Next]_vars
<1>1. CASE ClientStep
  BY <1>1 DEF ClientStep, Next
<1>2. CASE BeginRequest \/ EndRequest
  BY <1>2 DEF BeginRequest, EndRequest, Next
<1>3. CASE TakeRequest \/ KeepSilent \/ EndResponse
  BY <1>3 DEF TakeRequest, KeepSilent, EndResponse
<1>4. CASE BeginResponse
  <2>1. PeerAnswer(server.of)
    BY <1>4 DEF BeginResponse
  <2>2. server.of \in Calls
    BY <2>1 DEF PeerAnswer, TypeOK
  <2> QED
    BY <2>1, <2>2 DEF Next
<1>5. CASE UNCHANGED duplexVars
  BY <1>5 DEF duplexVars
<1> QED
  BY <1>1, <1>2, <1>3, <1>4, <1>5 DEF DuplexNext, ServerStep

\* Nothing is lost of the client by putting a server and a bounded stream beside it: what Pipeline
\* is proved to keep, it keeps here.
THEOREM ClientIsPipeline == DuplexSpec => Spec
<1>1. DuplexInit => Init /\ TypeOK
  BY TypesInitially DEF DuplexInit
<1>2. TypeOK /\ [DuplexNext]_duplexVars => [Next]_vars /\ TypeOK'
  BY StepsOfClient, TypesPreserved
<1> QED
  BY <1>1, <1>2, PTL DEF DuplexSpec, Spec

\* The client's own steps write nothing new and only take responses off the stream.
LEMMA ClientFrame ==
  ASSUME ClientStep
  PROVE  responses' \subseteq responses /\ UNCHANGED <<written, requests, server>>
<1>1. ASSUME NEW c \in Calls, Send(c) \/ TrySend(c) \/ Cancel(c) \/ CallStep(c)
      PROVE  UNCHANGED <<responses, written>>
  <2>1. Polls(c) \/ Allocate(c) \/ Enqueue(c)
    BY <1>1 DEF CallStep, Polls
  <2> QED
    BY <2>1, PollsFrame, AllocateFrame, EnqueueFrame
<1>2. ASSUME NEW c \in Calls, Expire(c) PROVE UNCHANGED <<responses, written>>
  BY <1>2 DEF Expire, wireVars
<1>3. ASSUME NEW r \in responses, Receive(r) PROVE responses' \subseteq responses /\ written' = written
  BY <1>3 DEF Receive
<1>4. DropHandles \/ RefuseCommand => UNCHANGED <<responses, written>>
  BY DEF DropHandles, RefuseCommand, taskVars, wireVars
<1>5. FailWrite \/ FailReceive => UNCHANGED <<responses, written>>
  BY DEF FailWrite, FailReceive, wireVars
<1>6. Stop \/ Break => UNCHANGED <<responses, written>>
  BY DEF Stop, Break, taskVars, wireVars
<1> QED
  BY <1>1, <1>2, <1>3, <1>4, <1>5, <1>6 DEF ClientStep

-----------------------------------------------------------------------------
(* What is on the way.                                                      *)

\* Steps that take responses off the stream, or touch nothing of it.
LEMMA LessKept ==
  ASSUME Places, responses' \subseteq responses, UNCHANGED <<written, requests, server>>
  PROVE  Places' /\ OnTheWay' \subseteq OnTheWay
<1>1. Handling' = Handling
  BY DEF Handling
<1>2. Answered' \subseteq Answered
  BY DEF Answered
<1> QED
  BY <1>1, <1>2 DEF Places, OnTheWay

\* send_request begins to write: a request is on the way that was not.
LEMMA BeginRequestKeeps ==
  ASSUME TypeOK, HeldOnce, Places, BeginRequest
  PROVE  Places' /\ OnTheWay' = OnTheWay \cup {writing'} /\ responses' = responses
<1>1. /\ commands # <<>> /\ writing' = Head(commands) /\ written' = written \cup {writing'}
      /\ requests' = Append(requests, writing') /\ UNCHANGED <<server, responses>>
  BY DEF BeginRequest, StartWrite, wireVars
<1>2. commands \in Seq(Calls)
  BY DEF TypeOK
<1>3. writing' \in Calls /\ writing' \in Range(commands)
  BY SMTT(30), <1>1, <1>2, TailFacts
<1>4. writing' \notin written
  BY <1>3 DEF HeldOnce
<1>5. writing' \notin OnTheWay
  BY <1>4 DEF Places
<1>6. requests \in Seq(Calls) /\ IsInjective(requests) /\ writing' \notin Range(requests)
  BY <1>5 DEF Places, OnTheWay
<1>7. /\ requests' \in Seq(Calls) /\ Range(requests') = Range(requests) \cup {writing'}
      /\ IsInjective(requests')
  BY SMTT(30), <1>1, <1>3, <1>6, AppendFacts
<1>8. Handling' = Handling /\ Answered' = Answered
  BY <1>1 DEF Handling, Answered
<1>9. IsFiniteSet(written')
  BY <1>1, FS_AddElement DEF Places
<1>10. OnTheWay' = OnTheWay \cup {writing'}
  BY <1>7, <1>8 DEF OnTheWay
<1> QED
  BY SMTT(30), <1>1, <1>5, <1>7, <1>8, <1>9, <1>10 DEF Places, OnTheWay

\* The server's steps move what is on the way, or take it away.
LEMMA ServerKeeps ==
  ASSUME TypeOK, Places, ServerStep
  PROVE  /\ Places' /\ OnTheWay' \subseteq OnTheWay /\ responses \subseteq responses'
         /\ UNCHANGED <<in_flight, writing, written, task, reused, desynchronized>>
<1>1. CASE TakeRequest
  <2>1. /\ server.at = "reading" /\ requests # <<>> /\ requests' = Tail(requests)
        /\ server' = [at |-> "handling", of |-> Head(requests)]
        /\ UNCHANGED <<responses, written, in_flight, writing, task, reused, desynchronized>>
    BY <1>1 DEF TakeRequest, vars, callVars, taskVars, wireVars
  <2>2. requests \in Seq(Calls) /\ IsInjective(requests)
    BY DEF Places
  <2>3. /\ Head(requests) \in Calls /\ requests' \in Seq(Calls)
        /\ Range(requests) = Range(requests') \cup {Head(requests)}
        /\ IsInjective(requests') /\ Head(requests) \notin Range(requests')
    BY <2>1, <2>2, TailFacts
  <2>4. Handling = {} /\ Handling' = {Head(requests)} /\ Answered' = Answered
    BY <2>1 DEF Handling, Answered
  <2>5. OnTheWay' = OnTheWay
    BY <2>3, <2>4 DEF OnTheWay
  <2> QED
    BY <2>1, <2>3, <2>4, <2>5 DEF Places
<1>2. CASE BeginResponse
  <2>1. PICK c : c = server.of
    OBVIOUS
  <2>2. /\ server.at = "handling" /\ c \in written /\ server' = [server EXCEPT !.at = "writing"]
        /\ responses' = responses \cup {[tid |-> transaction[c], unit |-> UnitOf[c], of |-> c]}
        /\ UNCHANGED <<requests, written, in_flight, writing, task, reused, desynchronized>>
    BY <1>2, <2>1 DEF BeginResponse, PeerAnswer, callVars, taskVars
  <2>3. Handling = {c} /\ Handling' = {}
    BY <2>1, <2>2 DEF Handling, Places
  <2>4. Answered' = Answered \cup {c}
    <3>1. PICK r : r = [tid |-> transaction[c], unit |-> UnitOf[c], of |-> c]
      OBVIOUS
    <3>2. responses' = responses \cup {r} /\ r.of = c
      BY <2>2, <3>1
    <3> QED
      BY <3>2, Zenon DEF Answered
  <2>5. OnTheWay' = OnTheWay
    BY <2>2, <2>3, <2>4 DEF OnTheWay
  <2>6. \A r \in responses' : r.unit = UnitOf[r.of]
    BY SMTT(30), <2>2 DEF Places
  <2>7. server' \in [at : {"reading", "handling", "writing"}, of : Calls \cup {Nobody}]
    BY <2>2 DEF Places
  <2> QED
    BY <2>2, <2>3, <2>4, <2>5, <2>6, <2>7 DEF Places
<1>3. CASE KeepSilent \/ EndResponse
  <2>1. /\ server' = [at |-> "reading", of |-> Nobody]
        /\ UNCHANGED <<requests, responses, written, in_flight, writing, task, reused,
                       desynchronized>>
    BY <1>3 DEF KeepSilent, EndResponse, vars, callVars, taskVars, wireVars
  <2>2. Handling' = {} /\ Answered' = Answered
    BY <2>1 DEF Handling, Answered
  <2> QED
    BY <2>1, <2>2 DEF Places, OnTheWay
<1> QED
  BY <1>1, <1>2, <1>3 DEF ServerStep

\* What the task waits for it goes on waiting for, unless the response comes.
LEMMA StillWaiting ==
  ASSUME TypeOK, RequestsKept, TableKept, WireKept, FreshIds, Places, [Next]_vars,
         ~reused, ~desynchronized', task' = "running",
         NEW c \in Calls, c \in {writing} \cup Registered
  PROVE  \/ c \in {writing'} \cup Registered'
         \/ \E r \in responses : Receive(r) /\ r.of = c
<1>0. c # Nobody
  BY PipelineAssumption, Zenon
<1>1. CASE UNCHANGED <<in_flight, deadlines, desynchronized, writing, task>>
  BY <1>1 DEF Registered
<1>2. CASE StartWrite
  BY <1>0, <1>2 DEF StartWrite, Polling, Registered
<1>3. CASE FinishWrite
  <2>1. /\ writing # Nobody /\ in_flight' = [in_flight EXCEPT ![transaction[writing]] = writing]
        /\ transaction' = transaction
    BY <1>3 DEF FinishWrite, callVars
  <2>2. writing \in Calls /\ transaction[writing] \in Tids
    BY <2>1, WrittenTids DEF RequestsKept
  <2>3. CASE c = writing
    BY <1>0, <2>1, <2>2, <2>3 DEF Registered, TypeOK
  <2>4. CASE c # writing
    <3>1. c \in Registered /\ transaction[c] \in Tids /\ in_flight[transaction[c]] = c
      BY <2>4, RegisteredFacts
    <3>2. transaction[c] # transaction[writing]
      <4>1. transaction[c] # 0
        BY SMTT(30), <3>1 DEF Tids
      <4> QED
        BY <2>2, <2>4, <4>1 DEF FreshIds
    <3> QED
      BY <1>0, <2>1, <2>2, <3>1, <3>2 DEF Registered, TypeOK
  <2> QED
    BY <2>3, <2>4
<1>4. ~FailWrite /\ ~FailReceive
  BY DEF FailWrite, FailReceive, Desynchronize
<1>5. ~Stop
  BY DEF Stop
<1>6. ASSUME NEW r \in responses, Receive(r)
      PROVE  c \in {writing'} \cup Registered' \/ r.of = c
  <2>1. Polling /\ writing' = writing
    BY <1>6 DEF Receive
  <2>2. c \in Registered /\ transaction[c] \in Tids /\ in_flight[transaction[c]] = c
    BY <1>0, <2>1, RegisteredFacts DEF Polling
  <2>3. CASE Deliver(r)
    <3>1. r.tid \in Tids /\ in_flight' = [in_flight EXCEPT ![r.tid] = Nobody]
      BY <2>3 DEF Deliver
    <3>2. CASE transaction[c] = r.tid
      <4>1. r.of \in written
        BY DEF Places, OnTheWay, Answered
      <4>2. r.of \in Calls /\ r.of # Nobody
        BY <4>1, PipelineAssumption DEF TypeOK
      <4>3. transaction[r.of] = transaction[c]
        BY <3>2, <4>2 DEF WireKept
      <4>4. transaction[c] # 0
        BY SMTT(30), <2>2 DEF Tids
      <4> QED
        BY <4>2, <4>3, <4>4 DEF FreshIds
    <3>3. CASE transaction[c] # r.tid
      BY <1>0, <2>2, <3>1, <3>3 DEF Registered, TypeOK
    <3> QED
      BY <3>2, <3>3
  <2>4. CASE Discard(r)
    BY <2>2, <2>4 DEF Discard, Registered
  <2>5. ~Reject(r)
    BY DEF Reject, Desynchronize
  <2> QED
    BY <1>6, <2>3, <2>4, <2>5 DEF Receive
<1>7. ASSUME NEW k \in Calls, Expire(k) PROVE c \in {writing'} \cup Registered'
  <2>1. UNCHANGED <<in_flight, writing>>
    BY <1>7, DuplexAssumption DEF Expire, Desynchronize
  <2> QED
    BY <2>1 DEF Registered
<1> QED
  BY <1>1, <1>2, <1>3, <1>4, <1>5, <1>6, <1>7, TableCases

\* A response that the client reads was the only thing of its call on the way.
LEMMA ReadOnce ==
  ASSUME TypeOK, WireKept, Places, Places', NEW r \in responses, Receive(r),
         UNCHANGED <<requests, server>>
  PROVE  r.of \notin OnTheWay'
<1>1. responses' = responses \ {r}
  BY DEF Receive
<1>2. r.of \in Answered /\ r.of \notin Range(requests) /\ r.of \notin Handling
  BY SMTT(30) DEF Places, Answered
<1>3. ASSUME NEW q \in responses, q.of = r.of PROVE q = r
  <2>1. r.of \in written
    BY <1>2 DEF Places, OnTheWay
  <2>2. r.of # Nobody
    BY <2>1, PipelineAssumption DEF TypeOK
  <2>3. q.tid = r.tid /\ q.unit = r.unit
    BY <1>3, <2>2 DEF WireKept, Places
  <2>4. q \in Responses /\ r \in Responses
    BY DEF TypeOK
  <2> QED
    BY <1>3, <2>3, <2>4 DEF Responses
<1>4. r.of \notin Answered'
  BY <1>1, <1>3 DEF Answered
<1>5. Handling' = Handling
  BY DEF Handling
<1> QED
  BY <1>2, <1>4, <1>5 DEF OnTheWay

\* A write in progress is a running task's.
LEMMA WriterRuns ==
  ASSUME writing # Nobody => task = "running", [Next]_vars
  PROVE  writing' # Nobody => task' = "running"
<1>1. CASE StartWrite
  BY <1>1 DEF StartWrite, Polling
<1>2. FinishWrite \/ FailWrite => writing' = Nobody
  BY DEF FinishWrite, FailWrite
<1>3. FailReceive => UNCHANGED <<writing, task>>
  BY DEF FailReceive
<1>4. Stop => writing' = Nobody
  BY DEF Stop, Polling
<1>5. \A r \in responses : Receive(r) => UNCHANGED <<writing, task>>
  BY DEF Receive
<1>6. \A k \in Calls : Expire(k) => UNCHANGED <<writing, task>>
  BY DEF Expire
<1> QED
  BY <1>1, <1>2, <1>3, <1>4, <1>5, <1>6, TableCases

\* Where each request and response is stays known.
LEMMA PlacesPreserved ==
  ASSUME TypeOK, HeldOnce, Places, [DuplexNext]_duplexVars
  PROVE  /\ Places'
         /\ OnTheWay' \subseteq OnTheWay \cup {writing'}
         /\ (\E r \in responses : r \notin responses') => UNCHANGED <<requests, server>>
<1>1. CASE ClientStep
  BY <1>1, ClientFrame, LessKept
<1>2. CASE BeginRequest
  BY <1>2, BeginRequestKeeps
<1>3. CASE EndRequest
  <2>1. UNCHANGED <<responses, written, requests, server>>
    BY <1>3 DEF EndRequest, FinishWrite, wireVars
  <2> QED
    BY <2>1, LessKept
<1>4. CASE ServerStep
  BY <1>4, ServerKeeps
<1>5. CASE UNCHANGED duplexVars
  <2>1. UNCHANGED <<responses, written, requests, server>>
    BY <1>5 DEF duplexVars, vars, taskVars, wireVars
  <2> QED
    BY <2>1, LessKept
<1> QED
  BY <1>1, <1>2, <1>3, <1>4, <1>5 DEF DuplexNext

\* The task goes on waiting for all that is on the way.
LEMMA OutstandingPreserved ==
  ASSUME IInv, HeldOnce, Places, Outstanding, [DuplexNext]_duplexVars
  PROVE  Outstanding'
<1>1. TypeOK /\ RequestsKept /\ TableKept /\ WireKept /\ FreshIds
  BY DEF IInv, Bookkeeping
<1>2. [Next]_vars
  BY <1>1, StepsOfClient
<1>3. writing' # Nobody => task' = "running"
  BY <1>2, WriterRuns DEF Outstanding
<1>4. /\ Places' /\ OnTheWay' \subseteq OnTheWay \cup {writing'}
      /\ (\E r \in responses : r \notin responses') => UNCHANGED <<requests, server>>
  BY <1>1, PlacesPreserved
<1>5. ASSUME ~reused', ~desynchronized', task' = "running", NEW c \in OnTheWay'
      PROVE  c \in {writing'} \cup Registered'
  <2>1. ~reused /\ ~desynchronized /\ task = "running"
    BY <1>1, <1>2, <1>5, ReusedKept, TaskKept, DesyncKept
  <2>2. CASE c \in OnTheWay
    <3>1. c \in {writing} \cup Registered /\ c \in Calls
      BY <1>1, <2>1, <2>2 DEF Outstanding, Places, TypeOK
    <3>2. \A r \in responses : Receive(r) => r \notin responses'
      BY DEF Receive
    <3>3. \A r \in responses : Receive(r) => r.of # c
      BY <1>1, <1>4, <1>5, <3>2, ReadOnce
    <3> QED
      BY <1>1, <1>2, <1>5, <2>1, <3>1, <3>3, StillWaiting
  <2> QED
    BY <1>4, <1>5, <2>2
<1> QED
  BY <1>3, <1>5 DEF Outstanding

LEMMA DuplexInvariant == DuplexSpec => []DInv
<1>1. ASSUME DuplexInit PROVE DInv
  <2>1. Init /\ requests = <<>> /\ server = [at |-> "reading", of |-> Nobody]
    BY <1>1 DEF DuplexInit
  <2>2. responses = {} /\ written = {} /\ writing = Nobody
    BY <2>1 DEF Init
  <2>3. requests \in Seq(Calls) /\ IsInjective(requests) /\ Range(requests) = {}
    BY SMTT(30), <2>1 DEF IsInjective, Range
  <2>4. Handling = {} /\ Answered = {}
    BY <2>1, <2>2 DEF Handling, Answered
  <2>5. Places /\ Outstanding
    BY <2>1, <2>2, <2>3, <2>4, FS_EmptySet DEF Places, OnTheWay, Outstanding
  <2> QED
    BY <2>1, <2>5, InvariantInitially, HeldOnceInitially, PermitsInitially DEF DInv
<1>2. ASSUME DInv, [DuplexNext]_duplexVars PROVE DInv'
  <2>1. /\ TypeOK /\ QueueKept /\ RequestsKept /\ TableKept /\ FuturesHoldHandles
        /\ IInv /\ HeldOnce /\ PermitsKept /\ Places /\ Outstanding
    BY <1>2 DEF DInv, IInv, Bookkeeping
  <2>2. [Next]_vars
    BY <1>2, <2>1, StepsOfClient
  <2>3. IInv' /\ HeldOnce' /\ PermitsKept'
    BY <2>1, <2>2, InvariantPreserved, HeldOncePreserved, PermitsPreserved
  <2>4. Places' /\ Outstanding'
    BY <1>2, <2>1, PlacesPreserved, OutstandingPreserved
  <2> QED
    BY <2>3, <2>4 DEF DInv
<1> QED
  BY <1>1, <1>2, PTL DEF DuplexSpec

-----------------------------------------------------------------------------
(* The two tasks waiting for one another.                                   *)

\* As many calls as there are requests, and as many as there are responses.
LEMMA CallsOnTheWay ==
  ASSUME TypeOK, WireKept, Places
  PROVE  /\ IsFiniteSet(Range(requests)) /\ Len(requests) <= Cardinality(Range(requests))
         /\ IsFiniteSet(Answered) /\ Cardinality(responses) <= Cardinality(Answered)
         /\ Len(requests) \in Nat /\ Cardinality(responses) \in Nat
<1>1. IsFiniteSet(written) /\ Range(requests) \subseteq written /\ Answered \subseteq written
  BY DEF Places, OnTheWay
<1>2. IsFiniteSet(Range(requests)) /\ IsFiniteSet(Answered)
  BY <1>1, FS_Subset
<1>3. Len(requests) \in Nat /\ DOMAIN requests = 1..Len(requests)
  BY SMTT(30) DEF Places
<1>4. requests \in Injection(1..Len(requests), Range(requests))
  <2>1. requests \in [1..Len(requests) -> Range(requests)]
    BY SMTT(30), <1>3 DEF Places, Range
  <2> QED
    BY <2>1, <1>3 DEF Places, Injection, IsInjective
<1>5. Cardinality(1..Len(requests)) <= Cardinality(Range(requests))
  BY <1>2, <1>4, FS_Injection
<1>6. Cardinality(1..Len(requests)) = Len(requests)
  <2>1. 1 \in Int /\ Len(requests) \in Int
    BY <1>3
  <2>2. Cardinality(1..Len(requests)) = IF 1 > Len(requests) THEN 0 ELSE Len(requests) - 1 + 1
    BY <2>1, FS_Interval, Zenon
  <2> QED
    BY SMTT(30), <1>3, <2>2
<1>7. PICK f : f = [r \in responses |-> r.of]
  OBVIOUS
<1>8. f \in Injection(responses, Answered)
  <2>1. f \in [responses -> Answered]
    BY <1>7 DEF Answered
  <2>2. ASSUME NEW q \in responses, NEW r \in responses, f[q] = f[r] PROVE q = r
    <3>1. q.of = r.of /\ r.of \in written
      BY <1>1, <1>7, <2>2 DEF Answered
    <3>2. r.of # Nobody
      BY <3>1, PipelineAssumption DEF TypeOK
    <3>3. q.tid = r.tid /\ q.unit = r.unit
      BY <3>1, <3>2 DEF WireKept, Places
    <3>4. q \in Responses /\ r \in Responses
      BY DEF TypeOK
    <3> QED
      BY SMTT(30), <3>1, <3>3, <3>4 DEF Responses
  <2> QED
    BY <2>1, <2>2 DEF Injection, IsInjective
<1>9. IsFiniteSet(responses) /\ Cardinality(responses) <= Cardinality(Answered)
  BY <1>2, <1>8, FS_Injection
<1> QED
  BY <1>2, <1>3, <1>5, <1>6, <1>9, FS_CardinalityType

\* max_in_flight is what keeps client and server, neither of which reads while it writes, from
\* waiting for one another: until an id is reused, the calls with a permit and the ones dropped
\* before their answer are together more than the stream holds in both directions.
THEOREM StandstillNeedsMore == DuplexSpec => []StandstillTakesMore
<1>1. ASSUME DInv, ~reused, Standstill
      PROVE  RequestRoom + ResponseRoom + 2 <= MaxInFlight + Cardinality(Abandoned)
  <2>1. /\ TypeOK /\ WireKept /\ RequestsKept /\ TableKept /\ DesyncLeavesNothing
        /\ HeldOnce /\ PermitsKept /\ Places /\ Outstanding
    BY <1>1 DEF DInv, IInv, Bookkeeping
  <2>2. writing # Nobody /\ writing \in Calls /\ ~desynchronized /\ task = "running"
    BY <1>1, <2>1 DEF Standstill, Outstanding, DesyncLeavesNothing, TypeOK
  <2>3. PICK way : way = Range(requests) \cup Answered
    OBVIOUS
  <2>4. way \subseteq Holders \cup Abandoned
    <3>1. ASSUME NEW c \in way PROVE c \in Holders \cup Abandoned
      <4>1. c \in OnTheWay
        BY <2>3 DEF OnTheWay
      <4>2. c \in {writing} \cup Registered
        BY <1>1, <2>1, <2>2, <4>1 DEF Outstanding
      <4>3. c \in Held /\ c \in written /\ c \in Calls
        BY <2>1, <2>2, <4>1, <4>2 DEF Held, Places, TypeOK
      <4>4. phase[c] = "awaiting" \/ phase[c] = "cancelled"
        BY <2>1, <4>3 DEF HeldOnce
      <4> QED
        BY <4>3, <4>4 DEF Holders, Abandoned
    <3> QED
      BY <3>1
  <2>5. IsFiniteSet(Holders) /\ IsFiniteSet(Abandoned)
    <3>1. IsFiniteSet(written) /\ Abandoned \in SUBSET written
      BY <2>1 DEF Places, Abandoned
    <3> QED
      BY <2>1, <3>1, FS_Subset DEF PermitsKept
  <2>6. /\ IsFiniteSet(Holders \cup Abandoned)
        /\ Cardinality(Holders \cup Abandoned) =
             Cardinality(Holders) + Cardinality(Abandoned) - Cardinality(Holders \cap Abandoned)
    BY <2>5, FS_Union
  <2>7. IsFiniteSet(Holders \cap Abandoned)
    BY <2>5, FS_Intersection
  <2>8. /\ Cardinality(Holders) \in Nat /\ Cardinality(Abandoned) \in Nat
        /\ Cardinality(Holders \cap Abandoned) \in Nat
    BY <2>5, <2>7, FS_CardinalityType
  <2>9. Cardinality(way) <= Cardinality(Holders \cup Abandoned)
    BY <2>4, <2>6, FS_Subset
  <2>10. /\ IsFiniteSet(Range(requests)) /\ Len(requests) <= Cardinality(Range(requests))
         /\ IsFiniteSet(Answered) /\ Cardinality(responses) <= Cardinality(Answered)
         /\ Len(requests) \in Nat /\ Cardinality(responses) \in Nat
    BY <2>1, CallsOnTheWay
  <2>11. Range(requests) \cap Answered = {}
    BY <2>1 DEF Places
  <2>12. Cardinality(way) = Cardinality(Range(requests)) + Cardinality(Answered)
    <3>1. Cardinality(way) = Cardinality(Range(requests)) + Cardinality(Answered)
                               - Cardinality(Range(requests) \cap Answered)
      BY <2>3, <2>10, FS_Union
    <3>2. Cardinality(Range(requests) \cap Answered) = 0
      BY <2>11, FS_EmptySet
    <3>3. Cardinality(Range(requests)) \in Nat /\ Cardinality(Answered) \in Nat
      BY <2>10, FS_CardinalityType
    <3> QED
      BY SMTT(30), <3>1, <3>2, <3>3
  <2>13. Cardinality(Range(requests)) \in Nat /\ Cardinality(Answered) \in Nat
    BY <2>10, FS_CardinalityType
  <2>14. permits \in Nat /\ permits + Cardinality(Holders) = MaxInFlight
    BY <2>1 DEF TypeOK, PermitsKept, PermitsConserved
  <2>15. Len(requests) > RequestRoom /\ Cardinality(responses) > ResponseRoom
    BY <1>1 DEF Standstill
  <2>16. RequestRoom \in Nat /\ ResponseRoom \in Nat
    BY DuplexAssumption
  <2>17. Cardinality(way) >= RequestRoom + ResponseRoom + 2
    BY SMTT(30), <2>10, <2>12, <2>13, <2>15, <2>16
  <2> QED
    BY SMTT(30), <2>6, <2>8, <2>9, <2>12, <2>13, <2>14, <2>16, <2>17
<1>2. DInv => StandstillTakesMore
  BY <1>1, Zenon DEF StandstillTakesMore
<1> QED
  BY <1>2, DuplexInvariant, PTL

=============================================================================
