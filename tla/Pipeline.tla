------------------------------ MODULE Pipeline ------------------------------
(***************************************************************************)
(* The pipelined client (src/client/pipeline.rs): cloneable handles whose  *)
(* send and try_send futures run concurrently, and the one background      *)
(* task `run` that owns the transport, writes each request, dispatches     *)
(* each response by transaction id and times requests out.                 *)
(*                                                                         *)
(* A call is one send or try_send future.  Between two await points, or    *)
(* two operations on shared state, other threads may run, so the check of  *)
(* the desynchronized flag, the allocation of an id and the hand-over of   *)
(* the command are three steps.  One select! arm of the task is one step,  *)
(* except the write, during whose await the peer and the callers go on     *)
(* while the task polls nothing else.                                      *)
(***************************************************************************)
EXTENDS Naturals, Sequences, FiniteSets, Functions

CONSTANTS
  Calls,           \* the send and try_send futures ever created
  Units,           \* unit identifiers a response may carry
  UnitOf,          \* the unit each call addresses
  MaxTid,          \* highest transaction id; 65535 in the code
  MaxInFlight,     \* PipelineConfig::max_in_flight
  TimeoutDesyncs,  \* PipelineTransport::TIMEOUT_DESYNCS: TRUE on TCP, FALSE on UDP
  MaxAnswers,      \* bound: responses the network delivers for one request
  MaxStrays,       \* bound: responses that answer no request of this handle
  Nobody           \* no call

ASSUME PipelineAssumption ==
  /\ MaxTid \in Nat \ {0}
  /\ MaxInFlight \in Nat
  /\ TimeoutDesyncs \in BOOLEAN
  /\ MaxAnswers \in Nat /\ MaxStrays \in Nat
  /\ UnitOf \in [Calls -> Units]
  /\ Nobody \notin Calls

VARIABLES
  phase,            \* where each call's future stands
  transaction,      \* the id each call was given, 0 before that
  answer,           \* the content of each call's oneshot reply channel
  permits,          \* free permits of the semaphore
  waiters,          \* calls queued for a permit, in FIFO order
  next_transaction, \* Core::next_transaction
  reused,           \* history: an id has been handed out a second time
  commands,         \* the unbounded command channel
  handles,          \* some handle is still alive
  task,             \* the background task
  writing,          \* the call whose request is being written
  in_flight,        \* id -> call whose reply channel is registered under it
  deadlines,        \* calls whose DelayQueue key is still in the queue
  issued,           \* ids a request was ever written under
  desynchronized,   \* Core::desynchronized
  written,          \* history: calls whose request was handed to the transport
  answers,          \* history: responses the peer sent to each call's request
  strays,           \* history: responses the peer sent to no request
  responses,        \* responses on their way to the reader
  link              \* "down" once a receive fails (end of stream, undecodable)

callVars == <<phase, transaction, answer, permits, waiters, next_transaction, reused>>
taskVars == <<task, writing, in_flight, deadlines, issued, desynchronized, written>>
wireVars == <<answers, strays, responses, link>>
vars == <<callVars, commands, handles, taskVars, wireVars>>

Tids == 1..MaxTid

\* Ids a peer can put in a response; 0 is never allocated (CL-R-011).
AnyTid == 0..MaxTid

Phases == {"idle", "queued", "assigned", "admitted", "checked", "numbered",
           "awaiting", "done", "cancelled", "panicked"}

\* A future that exists and has neither resolved nor been dropped.
Active(c) == phase[c] \in {"queued", "assigned", "admitted", "checked",
                           "numbered", "awaiting"}

\* Calls that own a semaphore permit.
Holders == {c \in Calls : phase[c] \in {"assigned", "admitted", "checked",
                                        "numbered", "awaiting"}}

Failures == {"none", "timeout", "desynchronized", "transport", "too_many"}

Answers ==
  [result : Failures, of : {Nobody}] \cup [result : {"ok"}, of : Calls \cup {Nobody}]

Failed(why) == [result |-> why, of |-> Nobody]
NoAnswer == Failed("none")

Responses == [tid : AnyTid, unit : Units, of : Calls \cup {Nobody}]

Registered == {in_flight[t] : t \in Tids} \ {Nobody}

\* The semaphore's queue without its i-th waiter.
Leave(queue, i) == SubSeq(queue, 1, i - 1) \o SubSeq(queue, i + 1, Len(queue))

-----------------------------------------------------------------------------
Init ==
  /\ phase = [c \in Calls |-> "idle"]
  /\ transaction = [c \in Calls |-> 0]
  /\ answer = [c \in Calls |-> NoAnswer]
  /\ permits = MaxInFlight
  /\ waiters = <<>>
  /\ next_transaction = 1
  /\ reused = FALSE
  /\ commands = <<>>
  /\ handles = TRUE
  /\ task = "running"
  /\ writing = Nobody
  /\ in_flight = [t \in Tids |-> Nobody]
  /\ deadlines = {}
  /\ issued = {}
  /\ desynchronized = FALSE
  /\ written = {}
  /\ answers = [c \in Calls |-> 0]
  /\ strays = 0
  /\ responses = {}
  /\ link = "up"

-----------------------------------------------------------------------------
(* The callers' futures.                                                    *)

\* Mutant of ReleasePermit: the queue of waiters is not woken.
ReleasePermitUnnoticed(c, p) ==
  /\ permits' = permits + 1
  /\ phase' = [phase EXCEPT ![c] = p]
  /\ UNCHANGED waiters

\* Call c leaves for phase p and drops its OwnedSemaphorePermit: the first
\* waiter is handed the permit, or it goes back to the semaphore.
ReleasePermit(c, p) ==
  \/ /\ waiters = <<>>
     /\ permits' = permits + 1
     /\ phase' = [phase EXCEPT ![c] = p]
     /\ UNCHANGED waiters
  \/ /\ waiters # <<>>
     /\ phase' = [phase EXCEPT ![c] = p, ![Head(waiters)] = "assigned"]
     /\ waiters' = Tail(waiters)
     /\ UNCHANGED permits

\* Mutant of Send: no permit is asked for.
SendUnlimited(c) ==
  /\ phase[c] = "idle" /\ handles
  /\ phase' = [phase EXCEPT ![c] = "admitted"]
  /\ UNCHANGED <<transaction, answer, permits, waiters, next_transaction, reused, commands,
                 handles, taskVars, wireVars>>

\* send: take a free permit at once, or queue for one.
Send(c) ==
  /\ phase[c] = "idle" /\ handles
  /\ \/ /\ permits > 0
        /\ permits' = permits - 1
        /\ phase' = [phase EXCEPT ![c] = "admitted"]
        /\ UNCHANGED waiters
     \/ /\ permits = 0
        /\ phase' = [phase EXCEPT ![c] = "queued"]
        /\ waiters' = Append(waiters, c)
        /\ UNCHANGED permits
  /\ UNCHANGED <<transaction, answer, next_transaction, reused, commands, handles,
                 taskVars, wireVars>>

\* try_send: take a free permit, or fail with TooManyInFlight.
TrySend(c) ==
  /\ phase[c] = "idle" /\ handles
  /\ \/ /\ permits > 0
        /\ permits' = permits - 1
        /\ phase' = [phase EXCEPT ![c] = "admitted"]
        /\ UNCHANGED answer
     \/ /\ permits = 0
        /\ phase' = [phase EXCEPT ![c] = "done"]
        /\ answer' = [answer EXCEPT ![c] = Failed("too_many")]
        /\ UNCHANGED permits
  /\ UNCHANGED <<transaction, waiters, next_transaction, reused, commands, handles,
                 taskVars, wireVars>>

\* dispatch, first statement: a desynchronized handle refuses the request.
CheckUsable(c) ==
  /\ phase[c] \in {"assigned", "admitted"}
  /\ \/ /\ desynchronized
        /\ answer' = [answer EXCEPT ![c] = Failed("desynchronized")]
        /\ ReleasePermit(c, "done")
     \/ /\ ~desynchronized
        /\ phase' = [phase EXCEPT ![c] = "checked"]
        /\ UNCHANGED <<answer, permits, waiters>>
  /\ UNCHANGED <<transaction, next_transaction, reused, commands, handles,
                 taskVars, wireVars>>

\* super::next: the id after the highest one is 1, never 0.
NextTid(t) == IF t = MaxTid THEN 1 ELSE t + 1

\* dispatch, under the next_transaction mutex.
Allocate(c) ==
  /\ phase[c] = "checked"
  /\ phase' = [phase EXCEPT ![c] = "numbered"]
  /\ transaction' = [transaction EXCEPT ![c] = next_transaction]
  /\ next_transaction' = NextTid(next_transaction)
  /\ reused' = (reused \/ \E d \in Calls : transaction[d] = next_transaction)
  /\ UNCHANGED <<answer, permits, waiters, commands, handles, taskVars, wireVars>>

\* dispatch, the hand-over to the background task.
Enqueue(c) ==
  /\ phase[c] = "numbered"
  /\ phase' = [phase EXCEPT ![c] = "awaiting"]
  /\ commands' = Append(commands, c)
  /\ UNCHANGED <<transaction, answer, permits, waiters, next_transaction, reused,
                 handles, taskVars, wireVars>>

\* The reply arrives: the future resolves and drops its permit.
Resolve(c) ==
  /\ phase[c] = "awaiting" /\ answer[c] # NoAnswer
  /\ ReleasePermit(c, "done")
  /\ UNCHANGED <<transaction, answer, next_transaction, reused, commands, handles,
                 taskVars, wireVars>>

\* The reply channel's sender is gone without an answer: the expect on
\* reply_rx panics, and unwinding drops the permit.
Panic(c) ==
  /\ phase[c] = "awaiting" /\ answer[c] = NoAnswer
  /\ c \notin Range(commands) \cup {writing} \cup Registered
  /\ ReleasePermit(c, "panicked")
  /\ UNCHANGED <<transaction, answer, next_transaction, reused, commands, handles,
                 taskVars, wireVars>>

\* Mutant of Cancel: the permit is forgotten instead of dropped.
CancelLeakingPermit(c) ==
  /\ phase[c] \in {"assigned", "awaiting"}
  /\ phase' = [phase EXCEPT ![c] = "cancelled"]
  /\ answer' = [answer EXCEPT ![c] = NoAnswer]
  /\ UNCHANGED <<transaction, permits, waiters, next_transaction, reused, commands,
                 handles, taskVars, wireVars>>

\* The caller drops the future at one of its two await points (CL-R-087):
\* the permit, or the place in the queue for one, goes; nothing is told to
\* the background task.
Cancel(c) ==
  /\ \/ /\ phase[c] = "queued"
        /\ phase' = [phase EXCEPT ![c] = "cancelled"]
        /\ \E i \in DOMAIN waiters :
             waiters[i] = c /\ waiters' = Leave(waiters, i)
        /\ UNCHANGED permits
     \/ /\ phase[c] \in {"assigned", "awaiting"}
        /\ ReleasePermit(c, "cancelled")
  /\ answer' = [answer EXCEPT ![c] = NoAnswer]
  /\ UNCHANGED <<transaction, next_transaction, reused, commands, handles,
                 taskVars, wireVars>>

\* The last clone of the handle is dropped; a live future borrows one.
DropHandles ==
  /\ handles /\ \A c \in Calls : ~Active(c)
  /\ handles' = FALSE
  /\ UNCHANGED <<callVars, commands, taskVars, wireVars>>

-----------------------------------------------------------------------------
(* The background task.  Its select! polls the command channel, the one     *)
(* receive in progress and the earliest deadline.                           *)

Polling == task = "running" /\ writing = Nobody

\* reply.send: lost when the caller has dropped its future.
Reply(ans, c, a) == [ans EXCEPT ![c] = IF phase[c] = "awaiting" THEN a ELSE @]

\* fail_all: drain the calls still registered out of in_flight, cancel each
\* one's own timer among those pending, answer each.
FailAll(ans, registered, pending) ==
  /\ in_flight' = [t \in Tids |-> Nobody]
  /\ deadlines' = pending \ registered
  /\ answer' = [c \in Calls |-> IF c \in registered /\ phase[c] = "awaiting"
                                  THEN Failed("desynchronized") ELSE ans[c]]

Desynchronize(ans, registered, pending) ==
  desynchronized' = TRUE /\ FailAll(ans, registered, pending)

\* A command is refused on a desynchronized connection without a write.
RefuseCommand ==
  /\ Polling /\ commands # <<>> /\ desynchronized
  /\ commands' = Tail(commands)
  /\ answer' = Reply(answer, Head(commands), Failed("desynchronized"))
  /\ UNCHANGED <<phase, transaction, permits, waiters, next_transaction, reused,
                 handles, taskVars, wireVars>>

\* Mutant of StartWrite: the desynchronized flag is not consulted.
StartWriteAnyway ==
  /\ Polling /\ commands # <<>>
  /\ commands' = Tail(commands)
  /\ issued' = issued \cup {transaction[Head(commands)]}
  /\ writing' = Head(commands)
  /\ written' = written \cup {Head(commands)}
  /\ UNCHANGED <<callVars, handles, task, in_flight, deadlines, desynchronized, wireVars>>

\* Mutant of StartWrite: the id is not recorded as issued.
StartWriteUnissued ==
  /\ Polling /\ commands # <<>> /\ ~desynchronized
  /\ commands' = Tail(commands)
  /\ writing' = Head(commands)
  /\ written' = written \cup {Head(commands)}
  /\ UNCHANGED <<callVars, handles, task, in_flight, deadlines, issued, desynchronized,
                 wireVars>>

\* A command is taken and its write begins.
StartWrite ==
  /\ Polling /\ commands # <<>> /\ ~desynchronized
  /\ commands' = Tail(commands)
  /\ issued' = issued \cup {transaction[Head(commands)]}
  /\ writing' = Head(commands)
  /\ written' = written \cup {Head(commands)}
  /\ UNCHANGED <<callVars, handles, task, in_flight, deadlines, desynchronized, wireVars>>

\* The write completes: arm the timer, then register the reply channel,
\* replacing whatever was registered under that id.
FinishWrite ==
  /\ writing # Nobody
  /\ writing' = Nobody
  /\ deadlines' = deadlines \cup {writing}
  /\ in_flight' = [in_flight EXCEPT ![transaction[writing]] = writing]
  /\ UNCHANGED <<callVars, commands, handles, task, issued, desynchronized,
                 written, wireVars>>

\* Mutant of FailWrite: the request that failed is forgotten, not answered.
FailWriteSilently ==
  /\ writing # Nobody
  /\ writing' = Nobody
  /\ Desynchronize(answer, Registered, deadlines)
  /\ UNCHANGED <<phase, transaction, permits, waiters, next_transaction, reused,
                 commands, handles, task, issued, written, wireVars>>

\* The write, or the encoding before it, fails.
FailWrite ==
  /\ writing # Nobody
  /\ writing' = Nobody
  /\ Desynchronize(Reply(answer, writing, Failed("transport")), Registered, deadlines)
  /\ UNCHANGED <<phase, transaction, permits, waiters, next_transaction, reused,
                 commands, handles, task, issued, written, wireVars>>

\* Mutant of Deliver: responses are matched to requests without looking at the id.
DeliverInAnyOrder(r) ==
  \E t \in Tids :
    LET c == in_flight[t] IN
    /\ c # Nobody
    /\ in_flight' = [in_flight EXCEPT ![t] = Nobody]
    /\ deadlines' = deadlines \ {c}
    /\ answer' = Reply(answer, c, [result |-> "ok", of |-> r.of])
    /\ UNCHANGED desynchronized

\* Mutant of Deliver: the timer of an answered request stays armed.
DeliverKeepingTimer(r) ==
  LET c == in_flight[r.tid] IN
  /\ r.tid \in Tids /\ c # Nobody
  /\ in_flight' = [in_flight EXCEPT ![r.tid] = Nobody]
  /\ answer' = Reply(answer, c, [result |-> "ok", of |-> r.of])
  /\ UNCHANGED <<deadlines, desynchronized>>

\* A response to a registered id resolves it and cancels its timer.
Deliver(r) ==
  LET c == in_flight[r.tid] IN
  /\ r.tid \in Tids /\ c # Nobody
  /\ in_flight' = [in_flight EXCEPT ![r.tid] = Nobody]
  /\ deadlines' = deadlines \ {c}
  /\ answer' = Reply(answer, c, [result |-> "ok", of |-> r.of])
  /\ UNCHANGED desynchronized

\* A response to an id that was used and is resolved is dropped (CL-R-088).
Discard(r) ==
  /\ r.tid \in Tids => in_flight[r.tid] = Nobody
  /\ r.tid \in issued
  /\ UNCHANGED <<in_flight, deadlines, answer, desynchronized>>

\* A response to an id never used desynchronizes the connection (CL-R-089).
Reject(r) ==
  /\ r.tid \in Tids => in_flight[r.tid] = Nobody
  /\ r.tid \notin issued
  /\ Desynchronize(answer, Registered, deadlines)

\* The receive in progress yields a response, whose header's unit and whose
\* function code the task does not look at.
Receive(r) ==
  /\ Polling /\ link = "up" /\ r \in responses
  /\ responses' = responses \ {r}
  /\ Deliver(r) \/ Discard(r) \/ Reject(r)
  /\ UNCHANGED <<phase, transaction, permits, waiters, next_transaction, reused,
                 commands, handles, task, writing, issued, written, answers, strays, link>>

\* The receive in progress fails; the next one may work (an undecodable ADU, a
\* datagram socket's error) or fail again (the end of the stream).
FailReceive ==
  /\ Polling /\ link = "down"
  /\ link' \in {"up", "down"}
  /\ Desynchronize(answer, Registered, deadlines)
  /\ UNCHANGED <<phase, transaction, permits, waiters, next_transaction, reused,
                 commands, handles, task, writing, issued, written, answers, strays,
                 responses>>

\* Mutant of Expire: TIMEOUT_DESYNCS read the wrong way round.
ExpireInverted(k) ==
  LET t == transaction[k]
      c == in_flight[t]
      late == Reply(answer, c, Failed("timeout")) IN
  /\ Polling /\ k \in deadlines /\ c # Nobody
  /\ \/ /\ TimeoutDesyncs
        /\ in_flight' = [in_flight EXCEPT ![t] = Nobody]
        /\ deadlines' = deadlines \ {k}
        /\ answer' = late
        /\ UNCHANGED desynchronized
     \/ /\ ~TimeoutDesyncs
        /\ Desynchronize(late, Registered \ {c}, deadlines \ {k})
  /\ UNCHANGED <<phase, transaction, permits, waiters, next_transaction, reused,
                 commands, handles, task, writing, issued, written, wireVars>>

\* The timer keyed by call k expires.  It names an id, and the call
\* registered under that id now is the one that times out.
Expire(k) ==
  LET t == transaction[k]
      c == in_flight[t]
      late == Reply(answer, c, Failed("timeout")) IN
  /\ Polling /\ k \in deadlines
  /\ \/ /\ c = Nobody
        /\ deadlines' = deadlines \ {k}
        /\ UNCHANGED <<answer, in_flight, desynchronized>>
     \/ /\ c # Nobody /\ ~TimeoutDesyncs
        /\ in_flight' = [in_flight EXCEPT ![t] = Nobody]
        /\ deadlines' = deadlines \ {k}
        /\ answer' = late
        /\ UNCHANGED desynchronized
     \/ /\ c # Nobody /\ TimeoutDesyncs
        /\ Desynchronize(late, Registered \ {c}, deadlines \ {k})
  /\ UNCHANGED <<phase, transaction, permits, waiters, next_transaction, reused,
                 commands, handles, task, writing, issued, written, wireVars>>

\* Mutant of Stop: an empty command channel is taken for a closed one.
StopWhenIdle ==
  /\ Polling /\ commands = <<>>
  /\ task' = "stopped"
  /\ in_flight' = [t \in Tids |-> Nobody]
  /\ deadlines' = {}
  /\ UNCHANGED <<callVars, commands, handles, writing, issued, desynchronized,
                 written, wireVars>>

\* Mutant of Stop: the desynchronized check comes before the end of the channel.
StopUnlessDesynchronized ==
  /\ Polling /\ ~handles /\ commands = <<>> /\ ~desynchronized
  /\ task' = "stopped"
  /\ in_flight' = [t \in Tids |-> Nobody]
  /\ deadlines' = {}
  /\ UNCHANGED <<callVars, commands, handles, writing, issued, desynchronized,
                 written, wireVars>>

\* The command channel is closed and drained: `run` returns, dropping the
\* transport and every reply channel still registered (CL-R-107).
Stop ==
  /\ Polling /\ ~handles /\ commands = <<>>
  /\ task' = "stopped"
  /\ in_flight' = [t \in Tids |-> Nobody]
  /\ deadlines' = {}
  /\ UNCHANGED <<callVars, commands, handles, writing, issued, desynchronized,
                 written, wireVars>>

-----------------------------------------------------------------------------
(* The peer and the network.                                                *)

\* The peer answers a request it has; its bytes may be out before the task
\* sees the write complete.
PeerAnswer(c) ==
  /\ c \in written /\ answers[c] < MaxAnswers
  /\ answers' = [answers EXCEPT ![c] = @ + 1]
  /\ responses' = responses \cup {[tid |-> transaction[c], unit |-> UnitOf[c], of |-> c]}
  /\ UNCHANGED <<callVars, commands, handles, taskVars, strays, link>>

\* A response that answers nothing this handle sent.
PeerStray(t, u) ==
  /\ strays < MaxStrays
  /\ strays' = strays + 1
  /\ responses' = responses \cup {[tid |-> t, unit |-> u, of |-> Nobody]}
  /\ UNCHANGED <<callVars, commands, handles, taskVars, answers, link>>

\* The stream ends, or carries something that does not decode.
Break ==
  /\ link = "up"
  /\ link' = "down"
  /\ UNCHANGED <<callVars, commands, handles, taskVars, answers, strays, responses>>

CallStep(c) == CheckUsable(c) \/ Allocate(c) \/ Enqueue(c) \/ Resolve(c) \/ Panic(c)

Next ==
  \/ \E c \in Calls : Send(c) \/ TrySend(c) \/ Cancel(c) \/ CallStep(c) \/ PeerAnswer(c)
  \/ \E k \in Calls : Expire(k)
  \/ \E r \in responses : Receive(r)
  \/ \E t \in AnyTid, u \in Units : PeerStray(t, u)
  \/ DropHandles \/ RefuseCommand \/ StartWrite \/ FinishWrite \/ FailWrite
  \/ FailReceive \/ Stop \/ Break

Spec == Init /\ [][Next]_vars

\* The runtime polls a woken future, select! picks among ready branches at
\* random, and a deadline passes.  Nothing makes the peer answer, the link
\* break or a caller start.
TaskFairness ==
  /\ \A c \in Calls : WF_vars(CallStep(c)) /\ WF_vars(Expire(c))
  /\ WF_vars(RefuseCommand) /\ WF_vars(StartWrite) /\ WF_vars(FailReceive)
  /\ WF_vars(Stop)

\* The transport takes what is written to it, or fails.
WriteFairness == WF_vars(FinishWrite \/ FailWrite)

FairSpec == Spec /\ TaskFairness /\ WriteFairness

-----------------------------------------------------------------------------
(* Properties.                                                              *)

\* The pipeline's state is well typed: in particular next never hands out the id 0
\* (CL-R-011), and every reply channel holds an answer of its kind or nothing.
TypeOK ==
  /\ phase \in [Calls -> Phases]
  /\ transaction \in [Calls -> AnyTid]
  /\ answer \in [Calls -> Answers]
  /\ permits \in Nat
  /\ waiters \in Seq(Calls)
  /\ next_transaction \in Tids
  /\ reused \in BOOLEAN
  /\ commands \in Seq(Calls)
  /\ handles \in BOOLEAN
  /\ task \in {"running", "stopped"}
  /\ writing \in Calls \cup {Nobody}
  /\ in_flight \in [Tids -> Calls \cup {Nobody}]
  /\ deadlines \in SUBSET Calls
  /\ issued \in SUBSET AnyTid
  /\ desynchronized \in BOOLEAN
  /\ written \in SUBSET Calls
  /\ answers \in [Calls -> 0..MaxAnswers]
  /\ strays \in 0..MaxStrays
  /\ responses \in SUBSET Responses
  /\ link \in {"up", "down"}

\* The expect in dispatch: "every registered Send is answered before its
\* sender is dropped".  No future ever finds its reply channel closed.
NoPanic == \A c \in Calls : phase[c] # "panicked"

\* NoPanic for as long as no id has been handed out twice: until then
\* in_flight.insert never replaces a live entry, whose sender it would drop.
NoPanicBeforeReuse == reused \/ NoPanic

\* A call gets the response to its own request, unless the peer sent one
\* under its id that answers nothing; holds until an id is reused.
OwnResponse ==
  reused \/ \A c \in Calls : answer[c].result = "ok" => answer[c].of \in {c, Nobody}

\* deadlines.remove panics on a key that is not in the queue: every entry
\* of in_flight has its timer pending.  Before an id is reused no other timer
\* is pending either, so none can fire "against a *different* request".
TimersMatchEntries ==
  /\ Registered \subseteq deadlines
  /\ task = "running" /\ ~reused => deadlines = Registered

\* A desynchronized connection has no request outstanding: fail_all ran in
\* the same step, and no write was in progress that would register one more.
DesyncLeavesNothing ==
  desynchronized => writing = Nobody /\ Registered = {}

\* The expect on command_tx.send: "the background task outlives every live
\* handle", so no future hands its command to a task that has returned.
TaskOutlivesCalls ==
  task = "stopped" => ~handles /\ \A c \in Calls : ~Active(c)

\* Every permit is free or owned by one future, and none is free while a
\* call queues for one: cancelling at any await point leaks none.
PermitsConserved ==
  /\ permits + Cardinality(Holders) = MaxInFlight
  /\ permits > 0 => waiters = <<>>

\* The bookkeeping that the properties above rest on.  Who queues for a permit
\* has no permit, and queues once.
QueueKept ==
  IsInjective(waiters) /\ \A c \in Range(waiters) : phase[c] = "queued"

\* A future has an id exactly from its allocation on.
NumbersKept ==
  \A c \in Calls :
    /\ phase[c] \in {"idle", "queued", "assigned", "admitted", "checked"} => transaction[c] = 0
    /\ phase[c] \in {"numbered", "awaiting"} => transaction[c] # 0

\* The command channel and the wire hold requests of futures that have been
\* handed over, under the ids recorded as issued.
RequestsKept ==
  /\ \A c \in Range(commands) \cup written :
       transaction[c] # 0 /\ phase[c] \in {"awaiting", "done", "cancelled", "panicked"}
  /\ \A c \in written : transaction[c] \in issued
  /\ writing # Nobody => writing \in written

\* Table and timers hold written requests, each under its own id.
TableKept ==
  /\ \A t \in Tids : in_flight[t] # Nobody =>
       in_flight[t] \in written /\ transaction[in_flight[t]] = t
  /\ deadlines \subseteq written

\* A response to a request carries that request's id.
WireKept ==
  \A r \in responses : r.of # Nobody => r.of \in written /\ transaction[r.of] = r.tid

\* Until an id is reused no two futures hold the same one.
FreshIds ==
  ~reused => \A c, d \in Calls : transaction[c] = transaction[d] /\ transaction[c] # 0 => c = d

\* Until an id is reused, someone holds the sender of every unanswered reply.
NobodyForgotten ==
  ~reused => \A c \in Calls : phase[c] = "awaiting" /\ answer[c] = NoAnswer =>
               c \in Range(commands) \cup {writing} \cup Registered

\* A live future borrows a handle.
FuturesHoldHandles == ~handles => \A c \in Calls : ~Active(c)

\* All of the bookkeeping, together.
Bookkeeping ==
  /\ QueueKept /\ NumbersKept /\ RequestsKept /\ TableKept /\ WireKept
  /\ FreshIds /\ NobodyForgotten /\ FuturesHoldHandles

\* Desynchronization is permanent, and nothing is written under it
\* (CL-R-090, CL-R-092).
DesyncIsFinal ==
  [][desynchronized => desynchronized' /\ written' = written]_vars

\* A response to a request of this handle never desynchronizes it, however
\* late or often it comes (CL-R-088): issued is set before the write begins.
OwnResponseNeverRejected ==
  [][\A r \in responses \ responses' : r.of # Nobody => desynchronized' = desynchronized]_vars

\* A response timeout on UDP fails that one request (CL-R-091); on TCP it
\* desynchronizes the connection and fails every other request in the same
\* step (CL-R-090).
TimeoutScope ==
  [][\A c \in Calls : answer[c] = NoAnswer /\ answer'[c] = Failed("timeout") =>
       IF TimeoutDesyncs
         THEN /\ desynchronized'
              /\ \A d \in Registered \ {c} :
                   phase[d] = "awaiting" => answer'[d] = Failed("desynchronized")
         ELSE /\ desynchronized' = desynchronized
              /\ \A d \in Calls \ {c} : answer'[d] = answer[d]]_vars

\* Every future resolves: a request that is never answered times out, and a
\* queued one gets its permit in turn (CL-R-086, CL-R-014).
EveryCallReturns ==
  \A c \in Calls : Active(c) ~> ~Active(c)

\* Once the last handle is dropped the background task returns (CL-R-107),
\* whatever cancelled requests are still queued or in flight.
TaskStops == ~handles ~> task = "stopped"

\* The calls whose reply channel's sender is in the task's hands.
Held == Range(commands) \cup ({writing} \ {Nobody}) \cup Registered

\* The task holds each request's sender in one place, and only until it answers it; who has handed
\* nothing over has no answer.
HeldOnce ==
  /\ IsInjective(commands) /\ Range(commands) \cap written = {}
  /\ writing \notin Registered
  /\ \A c \in Held : \/ phase[c] = "awaiting" /\ answer[c] = NoAnswer
                     \/ phase[c] = "cancelled"
  /\ \A c \in Calls : phase[c] \in Phases \ {"awaiting", "done", "cancelled", "panicked"} =>
       answer[c] = NoAnswer

-----------------------------------------------------------------------------
(* What the pipelined client promises its callers is Exchanges.             *)

\* How a call stands for its caller.
Standing(c) ==
  IF phase[c] = "idle" THEN "idle"
  ELSE IF phase[c] = "cancelled" THEN "dropped"
  ELSE IF phase[c] = "panicked" THEN "panicked"
  ELSE IF answer[c] = NoAnswer THEN "pending"
  ELSE IF answer[c].result # "ok" THEN "failed"
  ELSE IF answer[c].of \in {c, Nobody} THEN "answered" ELSE "misanswered"

Promise == INSTANCE Exchanges WITH
  call <- [c \in Calls |-> Standing(c)], sent <- written, usable <- ~desynchronized

\* Until an id is reused, the handles and the background task together do what Exchanges says, and
\* nothing else: each request is written at most once, none by a desynchronized client; each call
\* ends once, with the response to its own request or an error, although many share one transport
\* and requests, responses, timers, drops and failures come in any order.
ImplementsExchanges == Promise!Init /\ [][reused' \/ Promise!Next]_(Promise!vars)

-----------------------------------------------------------------------------
(* Statements of the repository's own documents that the code does not      *)
(* keep; README.md says how each one fails.                                 *)

\* CL-R-093: max_in_flight "bounding the in-flight table", and CL-R-087:
\* dropping a future "frees its slot in the in-flight table".
TableBounded == Cardinality(Registered) <= MaxInFlight

\* CL-R-020: "for TCP both the transaction identifier and the unit identifier
\* are equal" in a response that is accepted.
UnitMatches ==
  [][\A c \in Calls : answer'[c] # answer[c] /\ answer'[c].result = "ok" =>
       \E r \in responses \ responses' : r.unit = UnitOf[c]]_vars

\* CL-R-030: "The client bounds the wait for a response by a configurable
\* response timeout", whatever the transport does with a later request.
WaitIsBounded ==
  \A c \in Calls : c \in Registered /\ phase[c] = "awaiting" ~> phase[c] # "awaiting"

\* The task is scheduled fairly, but a write may block for ever (TR-E-027).
StallingSpec == Spec /\ TaskFairness

=============================================================================
