--------------------------- MODULE PipelineProofs ---------------------------
(***************************************************************************)
(* The inductive invariant of the pipelined client and the properties that *)
(* follow from it, for any number of calls, any width of the transaction   *)
(* id, any max_in_flight and either transport; then that it implements     *)
(* Exchanges until an id is reused: every step of handles and task is one  *)
(* step of Exchanges, seen through the standing of each call, or changes   *)
(* nothing there.                                                          *)
(***************************************************************************)
EXTENDS Pipeline, TLAPS

\* A leaf that names no prover is for Zenon, or else for the SMT solver.
USE ZenonT(5), SMTT(30)

-----------------------------------------------------------------------------
(* Sequences without repetition.                                            *)

\* Appending a new element.
LEMMA AppendFacts ==
  ASSUME NEW S, NEW s \in Seq(S), NEW x \in S
  PROVE  /\ Append(s, x) \in Seq(S)
         /\ Range(Append(s, x)) = Range(s) \cup {x}
         /\ IsInjective(s) /\ x \notin Range(s) => IsInjective(Append(s, x))
<1>1. /\ Append(s, x) \in Seq(S) /\ DOMAIN Append(s, x) = 1..(Len(s) + 1)
      /\ DOMAIN s = 1..Len(s)
      /\ \A i \in 1..Len(s) : Append(s, x)[i] = s[i]
      /\ Append(s, x)[Len(s) + 1] = x
  OBVIOUS
<1> QED
  BY SMTT(30), <1>1 DEF Range, IsInjective

\* Taking the first element away.
LEMMA TailFacts ==
  ASSUME NEW S, NEW s \in Seq(S), s # <<>>
  PROVE  /\ Head(s) \in S /\ Tail(s) \in Seq(S)
         /\ Range(s) = Range(Tail(s)) \cup {Head(s)}
         /\ IsInjective(s) => IsInjective(Tail(s)) /\ Head(s) \notin Range(Tail(s))
<1>1. /\ Head(s) \in S /\ Tail(s) \in Seq(S) /\ Head(s) = s[1] /\ Len(s) \in Nat \ {0}
      /\ DOMAIN s = 1..Len(s) /\ DOMAIN Tail(s) = 1..(Len(s) - 1)
      /\ \A i \in 1..(Len(s) - 1) : Tail(s)[i] = s[i + 1]
  OBVIOUS
<1>2. Range(s) = Range(Tail(s)) \cup {Head(s)}
  <2>1. ASSUME NEW i \in DOMAIN s PROVE s[i] \in Range(Tail(s)) \cup {Head(s)}
    <3>1. CASE i = 1
      BY <1>1, <3>1
    <3>2. CASE i # 1
      <4>1. i - 1 \in DOMAIN Tail(s) /\ s[i] = Tail(s)[i - 1]
        BY SMTT(30), <1>1, <3>2
      <4> QED
        BY <4>1 DEF Range
    <3> QED
      BY <3>1, <3>2
  <2>2. ASSUME NEW i \in DOMAIN Tail(s) PROVE Tail(s)[i] \in Range(s)
    BY SMTT(30), <1>1 DEF Range
  <2>3. Head(s) \in Range(s)
    BY SMTT(30), <1>1 DEF Range
  <2>4. Range(s) \subseteq Range(Tail(s)) \cup {Head(s)}
    BY <2>1, Zenon DEF Range
  <2>5. Range(Tail(s)) \subseteq Range(s)
    BY <2>2, Zenon DEF Range
  <2> QED
    BY <2>3, <2>4, <2>5
<1>3. IsInjective(s) => IsInjective(Tail(s)) /\ Head(s) \notin Range(Tail(s))
  BY SMTT(30), <1>1 DEF Range, IsInjective
<1> QED
  BY <1>1, <1>2, <1>3

\* The first n elements of a sequence, the elements after them, and two sequences in a row.
LEMMA FirstFacts ==
  ASSUME NEW S, NEW s \in Seq(S), NEW n \in 0..Len(s)
  PROVE  /\ SubSeq(s, 1, n) \in Seq(S) /\ Len(SubSeq(s, 1, n)) = n
         /\ \A j \in 1..n : SubSeq(s, 1, n)[j] = s[j]
OBVIOUS

LEMMA RestFacts ==
  ASSUME NEW S, NEW s \in Seq(S), NEW n \in 0..Len(s)
  PROVE  /\ SubSeq(s, n + 1, Len(s)) \in Seq(S) /\ Len(SubSeq(s, n + 1, Len(s))) = Len(s) - n
         /\ \A j \in 1..(Len(s) - n) : SubSeq(s, n + 1, Len(s))[j] = s[j + n]
OBVIOUS

LEMMA JoinFacts ==
  ASSUME NEW S, NEW a \in Seq(S), NEW b \in Seq(S)
  PROVE  /\ a \o b \in Seq(S) /\ Len(a \o b) = Len(a) + Len(b)
         /\ \A j \in 1..Len(a) : (a \o b)[j] = a[j]
         /\ \A j \in 1..Len(b) : (a \o b)[Len(a) + j] = b[j]
OBVIOUS

\* Removing the element at index i.
LEMMA LeaveFacts ==
  ASSUME NEW S, NEW s \in Seq(S), NEW i \in DOMAIN s
  PROVE  /\ Leave(s, i) \in Seq(S)
         /\ Range(Leave(s, i)) \subseteq Range(s)
         /\ IsInjective(s) => IsInjective(Leave(s, i)) /\ s[i] \notin Range(Leave(s, i))
<1>1. Len(s) \in Nat /\ DOMAIN s = 1..Len(s) /\ \A j \in 1..Len(s) : s[j] \in S
  OBVIOUS
<1>0. i \in Nat /\ i - 1 \in 0..Len(s) /\ i \in 0..Len(s)
  BY <1>1
<1>2. PICK a : a = SubSeq(s, 1, i - 1)
  BY Zenon
<1>3. PICK b : b = SubSeq(s, i + 1, Len(s))
  BY Zenon
<1>4. a \in Seq(S) /\ Len(a) = i - 1 /\ \A j \in 1..(i - 1) : a[j] = s[j]
  BY <1>0, <1>2, FirstFacts, Zenon
<1>5. b \in Seq(S) /\ Len(b) = Len(s) - i /\ \A j \in 1..(Len(s) - i) : b[j] = s[j + i]
  BY <1>0, <1>3, RestFacts, Zenon
<1>6. PICK t : t = Leave(s, i)
  BY Zenon
<1>7. t = a \o b
  BY <1>2, <1>3, <1>6, Zenon DEF Leave
<1>8. /\ t \in Seq(S) /\ DOMAIN t = 1..(Len(s) - 1)
      /\ \A j \in 1..(Len(s) - 1) : t[j] = IF j < i THEN s[j] ELSE s[j + 1]
  <2>1. /\ t \in Seq(S) /\ Len(t) = Len(a) + Len(b)
        /\ \A j \in 1..Len(a) : t[j] = a[j]
        /\ \A j \in 1..Len(b) : t[Len(a) + j] = b[j]
    <3>1. a \in Seq(S) /\ b \in Seq(S)
      BY <1>4, <1>5
    <3>2. /\ a \o b \in Seq(S) /\ Len(a \o b) = Len(a) + Len(b)
          /\ \A j \in 1..Len(a) : (a \o b)[j] = a[j]
          /\ \A j \in 1..Len(b) : (a \o b)[Len(a) + j] = b[j]
      BY SMTT(30), <3>1, JoinFacts
    <3> QED
      BY <1>7, <3>2, Zenon
  <2>2. DOMAIN t = 1..(Len(s) - 1)
    <3>1. DOMAIN t = 1..Len(t)
      BY <2>1
    <3> QED
      BY SMTT(30), <1>0, <1>1, <1>4, <1>5, <2>1, <3>1
  <2>3. ASSUME NEW j \in 1..(Len(s) - 1), j < i PROVE t[j] = s[j]
    <3>1. j \in 1..(i - 1) /\ j \in 1..Len(a)
      BY <1>0, <1>1, <1>4, <2>3
    <3> QED
      BY <1>4, <2>1, <3>1
  <2>4. ASSUME NEW j \in 1..(Len(s) - 1), ~(j < i) PROVE t[j] = s[j + 1]
    <3>1. PICK k : k = j - (i - 1)
      BY Zenon
    <3>2. k \in 1..(Len(s) - i) /\ (i - 1) + k = j /\ k + i = j + 1
      BY <1>0, <1>1, <2>4, <3>1
    <3>3. t[(i - 1) + k] = b[k]
      BY <1>4, <1>5, <2>1, <3>2
    <3> QED
      BY <1>5, <3>2, <3>3
  <2> QED
    BY <2>1, <2>2, <2>3, <2>4
<1>9. ASSUME NEW j \in DOMAIN t PROVE t[j] \in Range(s)
  BY SMTT(30), <1>1, <1>8 DEF Range
<1>10. ASSUME IsInjective(s) PROVE IsInjective(t) /\ s[i] \notin Range(t)
  <2>1. \A j \in DOMAIN t : \E k \in DOMAIN s \ {i} :
          t[j] = s[k] /\ k = IF j < i THEN j ELSE j + 1
    BY <1>1, <1>8
  <2>2. IsInjective(t)
    BY SMTT(30), <1>1, <1>8, <1>10, <2>1 DEF IsInjective
  <2>3. s[i] \notin Range(t)
    BY SMTT(30), <1>10, <2>1 DEF Range, IsInjective
  <2> QED
    BY <2>2, <2>3
<1> QED
  BY <1>6, <1>8, <1>9, <1>10 DEF Range

-----------------------------------------------------------------------------
(* Type correctness.                                                        *)

\* Dropping a permit changes the phases, the permits and the waiters within
\* their types.
LEMMA ReleasePermitType ==
  ASSUME TypeOK, NEW c \in Calls, NEW p \in Phases, ReleasePermit(c, p)
  PROVE  phase' \in [Calls -> Phases] /\ permits' \in Nat /\ waiters' \in Seq(Calls)
<1>1. CASE waiters = <<>>
  <2>1. phase' = [phase EXCEPT ![c] = p] /\ permits' = permits + 1 /\ waiters' = waiters
    BY <1>1 DEF ReleasePermit
  <2> QED
    BY SMTT(30), <2>1 DEF TypeOK
<1>2. CASE waiters # <<>>
  <2>1. Head(waiters) \in Calls /\ Tail(waiters) \in Seq(Calls)
    BY <1>2, TailFacts DEF TypeOK
  <2>2. /\ phase' = [phase EXCEPT ![c] = p, ![Head(waiters)] = "assigned"]
        /\ permits' = permits /\ waiters' = Tail(waiters)
    BY <1>2 DEF ReleasePermit
  <2> QED
    BY <2>1, <2>2, Zenon DEF TypeOK, Phases
<1> QED
  BY <1>1, <1>2

\* The steps of the callers' futures preserve the types.
LEMMA CallTypes ==
  ASSUME TypeOK, NEW c \in Calls,
         Send(c) \/ TrySend(c) \/ Cancel(c) \/ CallStep(c)
  PROVE  TypeOK'
<1> USE PipelineAssumption
<1>1. \A why \in Failures : Failed(why) \in Answers
  BY DEF Failed, Answers, Failures
<1>2. CASE Send(c)
  <2>1. Append(waiters, c) \in Seq(Calls)
    BY AppendFacts DEF TypeOK
  <2>2. phase' \in [Calls -> Phases] /\ permits' \in Nat /\ waiters' \in Seq(Calls)
    <3>1. CASE permits > 0
      <4>1. /\ phase' = [phase EXCEPT ![c] = "admitted"]
            /\ permits' = permits - 1 /\ waiters' = waiters
        BY SMTT(30), <1>2, <3>1 DEF Send
      <4> QED
        BY SMTT(30), <3>1, <4>1 DEF TypeOK, Phases
    <3>2. CASE permits = 0
      <4>1. /\ phase' = [phase EXCEPT ![c] = "queued"]
            /\ permits' = permits /\ waiters' = Append(waiters, c)
        BY SMTT(30), <1>2, <3>2 DEF Send
      <4> QED
        BY <2>1, <4>1 DEF TypeOK, Phases
    <3> QED
      BY <1>2, <3>1, <3>2 DEF Send
  <2> QED
    BY <1>2, <2>2 DEF TypeOK, Send, taskVars, wireVars
<1>3. CASE TrySend(c)
  <2>1. phase' \in [Calls -> Phases] /\ permits' \in Nat /\ answer' \in [Calls -> Answers]
    <3>1. CASE permits > 0
      <4>1. /\ phase' = [phase EXCEPT ![c] = "admitted"]
            /\ permits' = permits - 1 /\ answer' = answer
        BY SMTT(30), <1>3, <3>1 DEF TrySend
      <4> QED
        BY SMTT(30), <3>1, <4>1 DEF TypeOK, Phases
    <3>2. CASE permits = 0
      <4>1. /\ phase' = [phase EXCEPT ![c] = "done"] /\ permits' = permits
            /\ answer' = [answer EXCEPT ![c] = Failed("too_many")]
        BY SMTT(30), <1>3, <3>2 DEF TrySend
      <4> QED
        BY <1>1, <4>1 DEF TypeOK, Phases, Failures
    <3> QED
      BY <1>3, <3>1, <3>2 DEF TrySend
  <2> QED
    BY <1>3, <2>1 DEF TypeOK, TrySend, taskVars, wireVars
<1>4. CASE Cancel(c)
  <2>1. phase' \in [Calls -> Phases] /\ permits' \in Nat /\ waiters' \in Seq(Calls)
    <3>1. CASE phase[c] = "queued"
      <4>1. PICK i \in DOMAIN waiters : waiters' = Leave(waiters, i)
        BY <1>4, <3>1 DEF Cancel
      <4>2. phase' = [phase EXCEPT ![c] = "cancelled"] /\ permits' = permits
        BY <1>4, <3>1 DEF Cancel
      <4>3. waiters' \in Seq(Calls)
        BY <4>1, LeaveFacts DEF TypeOK
      <4> QED
        BY <4>2, <4>3 DEF TypeOK, Phases
    <3>2. CASE phase[c] # "queued"
      BY <1>4, <3>2, ReleasePermitType DEF Cancel, Phases
    <3> QED
      BY <3>1, <3>2
  <2>2. answer' \in [Calls -> Answers]
    BY <1>1, <1>4 DEF TypeOK, Cancel, NoAnswer, Failures
  <2> QED
    BY <1>4, <2>1, <2>2 DEF TypeOK, Cancel, taskVars, wireVars
<1>5. CASE CheckUsable(c)
  <2>1. phase' \in [Calls -> Phases] /\ permits' \in Nat /\ waiters' \in Seq(Calls)
    BY <1>5, ReleasePermitType, Zenon DEF TypeOK, CheckUsable, Phases
  <2>2. answer' \in [Calls -> Answers]
    <3>1. answer' = answer \/ answer' = [answer EXCEPT ![c] = Failed("desynchronized")]
      BY <1>5, Zenon DEF CheckUsable
    <3>2. Failed("desynchronized") \in Answers /\ answer \in [Calls -> Answers]
      BY <1>1 DEF TypeOK, Failures
    <3> QED
      BY <3>1, <3>2
  <2> QED
    BY <1>5, <2>1, <2>2 DEF TypeOK, CheckUsable, taskVars, wireVars
<1>6. CASE Allocate(c)
  <2>1. NextTid(next_transaction) \in Tids /\ next_transaction \in AnyTid
    BY SMTT(30) DEF TypeOK, NextTid, Tids, AnyTid
  <2> QED
    BY <1>6, <2>1 DEF TypeOK, Allocate, Phases, taskVars, wireVars
<1>7. CASE Enqueue(c)
  <2>1. Append(commands, c) \in Seq(Calls)
    BY AppendFacts DEF TypeOK
  <2> QED
    BY <1>7, <2>1 DEF TypeOK, Enqueue, Phases, taskVars, wireVars
<1>8. CASE Resolve(c)
  <2>1. phase' \in [Calls -> Phases] /\ permits' \in Nat /\ waiters' \in Seq(Calls)
    BY <1>8, ReleasePermitType DEF Resolve, Phases
  <2> QED
    BY <1>8, <2>1 DEF TypeOK, Resolve, taskVars, wireVars
<1>9. CASE Panic(c)
  <2>1. phase' \in [Calls -> Phases] /\ permits' \in Nat /\ waiters' \in Seq(Calls)
    BY <1>9, ReleasePermitType DEF Panic, Phases
  <2> QED
    BY <1>9, <2>1 DEF TypeOK, Panic, taskVars, wireVars
<1> QED
  BY <1>2, <1>3, <1>4, <1>5, <1>6, <1>7, <1>8, <1>9 DEF CallStep

\* Answers that reply.send and fail_all put into the reply channels are answers.
LEMMA ReplyType ==
  ASSUME NEW ans \in [Calls -> Answers], NEW c, NEW a \in Answers
  PROVE  Reply(ans, c, a) \in [Calls -> Answers]
BY Zenon DEF Reply

\* What fail_all leaves in the table, the timers and the reply channels is well typed.
LEMMA FailAllType ==
  ASSUME NEW ans \in [Calls -> Answers], NEW registered, NEW pending \in SUBSET Calls,
         FailAll(ans, registered, pending)
  PROVE  /\ in_flight' \in [Tids -> Calls \cup {Nobody}] /\ deadlines' \in SUBSET Calls
         /\ answer' \in [Calls -> Answers]
<1>1. Failed("desynchronized") \in Answers
  BY DEF Failed, Answers, Failures
<1>2. answer' \in [Calls -> Answers]
  BY <1>1 DEF FailAll
<1> QED
  BY <1>2 DEF FailAll

\* The steps of the background task preserve the types.
LEMMA TaskTypes ==
  ASSUME TypeOK,
         \/ \E k \in Calls : Expire(k)
         \/ \E r \in responses : Receive(r)
         \/ RefuseCommand \/ StartWrite \/ FinishWrite \/ FailWrite \/ FailReceive \/ Stop
  PROVE  TypeOK'
<1> USE PipelineAssumption
<1>1. \A why \in Failures : Failed(why) \in Answers
  BY DEF Failed, Answers, Failures
<1>2. answer \in [Calls -> Answers] /\ deadlines \in SUBSET Calls
  BY DEF TypeOK
<1>3. ASSUME NEW k \in Calls, Expire(k) PROVE TypeOK'
  <2> DEFINE late == Reply(answer, in_flight[transaction[k]], Failed("timeout"))
  <2>1. late \in [Calls -> Answers]
    <3>1. Failed("timeout") \in Answers
      BY <1>1 DEF Failures
    <3> QED
      BY <1>2, <3>1, ReplyType, Zenon
  <2>2. /\ in_flight' \in [Tids -> Calls \cup {Nobody}] /\ deadlines' \in SUBSET Calls
        /\ answer' \in [Calls -> Answers] /\ desynchronized' \in BOOLEAN
    <3>1. CASE in_flight[transaction[k]] = Nobody \/ ~TimeoutDesyncs
      BY <1>2, <1>3, <2>1, <3>1, Zenon DEF TypeOK, Expire
    <3>2. CASE in_flight[transaction[k]] # Nobody /\ TimeoutDesyncs
      <4>1. /\ FailAll(late, Registered \ {in_flight[transaction[k]]}, deadlines \ {k})
            /\ desynchronized'
        BY <1>3, <3>2, Zenon DEF Expire, Desynchronize
      <4> HIDE DEF late
      <4> QED
        BY SMTT(30), <1>2, <2>1, <4>1, FailAllType
    <3> QED
      BY <3>1, <3>2
  <2> QED
    BY <1>3, <2>2 DEF TypeOK, Expire, wireVars
<1>4. ASSUME NEW r \in responses, Receive(r) PROVE TypeOK'
  <2>1. [result |-> "ok", of |-> r.of] \in Answers
    BY Zenon DEF TypeOK, Answers, Responses
  <2>2. /\ in_flight' \in [Tids -> Calls \cup {Nobody}] /\ deadlines' \in SUBSET Calls
        /\ answer' \in [Calls -> Answers] /\ desynchronized' \in BOOLEAN
    <3>1. CASE Deliver(r)
      BY <1>2, <2>1, <3>1, ReplyType, Zenon DEF TypeOK, Deliver
    <3>2. CASE Discard(r)
      BY <3>2 DEF TypeOK, Discard
    <3>3. CASE Reject(r)
      BY <1>2, <3>3, FailAllType DEF Reject, Desynchronize
    <3> QED
      BY <1>4, <3>1, <3>2, <3>3 DEF Receive
  <2> QED
    BY <1>4, <2>2 DEF TypeOK, Receive
<1>5. ASSUME commands # <<>> PROVE Head(commands) \in Calls /\ Tail(commands) \in Seq(Calls)
  BY <1>5, TailFacts DEF TypeOK
<1>6. CASE RefuseCommand
  <2>1. answer' \in [Calls -> Answers]
    BY <1>1, <1>2, <1>6, ReplyType DEF RefuseCommand, Failures
  <2> QED
    BY <1>5, <1>6, <2>1 DEF TypeOK, RefuseCommand, taskVars, wireVars
<1>7. CASE StartWrite
  BY <1>5, <1>7 DEF TypeOK, StartWrite, callVars, wireVars
<1>8. CASE FinishWrite
  BY <1>8, Zenon DEF TypeOK, FinishWrite, callVars, wireVars
<1>9. CASE FailWrite
  <2> DEFINE refused == Reply(answer, writing, Failed("transport"))
  <2>1. refused \in [Calls -> Answers]
    BY <1>1, <1>2, ReplyType DEF Failures
  <2>2. FailAll(refused, Registered, deadlines) /\ desynchronized'
    BY <1>9 DEF FailWrite, Desynchronize
  <2> HIDE DEF refused
  <2>3. /\ in_flight' \in [Tids -> Calls \cup {Nobody}] /\ deadlines' \in SUBSET Calls
        /\ answer' \in [Calls -> Answers]
    BY <1>2, <2>1, <2>2, FailAllType
  <2> QED
    BY <1>9, <2>2, <2>3 DEF TypeOK, FailWrite, wireVars
<1>10. CASE FailReceive
  <2>1. FailAll(answer, Registered, deadlines) /\ desynchronized'
    BY <1>10 DEF FailReceive, Desynchronize
  <2>2. /\ in_flight' \in [Tids -> Calls \cup {Nobody}] /\ deadlines' \in SUBSET Calls
        /\ answer' \in [Calls -> Answers]
    BY <1>2, <2>1, FailAllType
  <2> QED
    BY <1>10, <2>1, <2>2 DEF TypeOK, FailReceive
<1>11. CASE Stop
  BY <1>11 DEF TypeOK, Stop, callVars, wireVars
<1> QED
  BY <1>3, <1>4, <1>6, <1>7, <1>8, <1>9, <1>10, <1>11

\* The callers, the task, the peer and the network, and the end of the
\* handles: every step of the pipelined client preserves the types.
LEMMA TypesPreserved == TypeOK /\ [Next]_vars => TypeOK'
<1> SUFFICES ASSUME TypeOK, [Next]_vars PROVE TypeOK'
  OBVIOUS
<1> USE PipelineAssumption
<1>1. ASSUME NEW c \in Calls, PeerAnswer(c) PROVE TypeOK'
  <2>1. [tid |-> transaction[c], unit |-> UnitOf[c], of |-> c] \in Responses
    BY DEF TypeOK, Responses
  <2>2. answers' \in [Calls -> 0..MaxAnswers]
    BY SMTT(30), <1>1 DEF TypeOK, PeerAnswer
  <2> QED
    BY <1>1, <2>1, <2>2 DEF TypeOK, PeerAnswer, callVars, taskVars
<1>2. ASSUME NEW t \in AnyTid, NEW u \in Units, PeerStray(t, u) PROVE TypeOK'
  <2>1. [tid |-> t, unit |-> u, of |-> Nobody] \in Responses
    BY DEF Responses
  <2> QED
    BY SMTT(30), <1>2, <2>1 DEF TypeOK, PeerStray, callVars, taskVars
<1>3. CASE DropHandles
  BY <1>3, Zenon DEF TypeOK, DropHandles, callVars, taskVars, wireVars
<1>4. CASE Break
  BY <1>4 DEF TypeOK, Break, callVars, taskVars
<1>5. CASE UNCHANGED vars
  BY <1>5 DEF TypeOK, vars, callVars, taskVars, wireVars
<1> QED
  BY <1>1, <1>2, <1>3, <1>4, <1>5, CallTypes, TaskTypes DEF Next

\* A new pipeline is well typed.
LEMMA TypesInitially == Init => TypeOK
<1> SUFFICES ASSUME Init PROVE TypeOK
  OBVIOUS
<1>1. NoAnswer \in Answers
  BY DEF NoAnswer, Failed, Answers, Failures
<1>2. <<>> \in Seq(Calls) /\ 1 \in Tids /\ 0 \in AnyTid
  BY SMTT(30), PipelineAssumption DEF Tids, AnyTid
<1>3. /\ phase \in [Calls -> Phases] /\ transaction \in [Calls -> AnyTid]
      /\ answer \in [Calls -> Answers] /\ permits \in Nat /\ waiters \in Seq(Calls)
      /\ next_transaction \in Tids /\ reused \in BOOLEAN
  BY <1>1, <1>2, PipelineAssumption, Zenon DEF Init, Phases
<1>4. /\ commands \in Seq(Calls) /\ handles \in BOOLEAN /\ task \in {"running", "stopped"}
      /\ writing \in Calls \cup {Nobody} /\ in_flight \in [Tids -> Calls \cup {Nobody}]
      /\ deadlines \in SUBSET Calls /\ issued \in SUBSET AnyTid
      /\ desynchronized \in BOOLEAN /\ written \in SUBSET Calls
  BY <1>2, Zenon DEF Init
<1>5. /\ answers \in [Calls -> 0..MaxAnswers] /\ strays \in 0..MaxStrays
      /\ responses \in SUBSET Responses /\ link \in {"up", "down"}
  BY SMTT(30), PipelineAssumption DEF Init
<1> QED
  BY <1>3, <1>4, <1>5 DEF TypeOK

\* Every reachable state of the pipelined client is well typed: in particular
\* the id counter never holds 0 (CL-R-011) and no reply channel holds anything
\* but an answer of its kind.
THEOREM TypeCorrect == Spec => []TypeOK
BY TypesInitially, TypesPreserved, PTL DEF Spec

-----------------------------------------------------------------------------
(* Safety.  What each group of steps leaves alone.                          *)

Polls(c) == Send(c) \/ TrySend(c) \/ Cancel(c) \/ CheckUsable(c) \/ Resolve(c) \/ Panic(c)

TaskStep ==
  \/ \E k \in Calls : Expire(k)
  \/ \E r \in responses : Receive(r)
  \/ RefuseCommand \/ StartWrite \/ FinishWrite \/ FailWrite \/ FailReceive \/ Stop

PeerStep ==
  \/ \E c \in Calls : PeerAnswer(c)
  \/ \E t \in AnyTid, u \in Units : PeerStray(t, u)
  \/ Break

\* Polling a call's future up to its permit and after its answer touches no id, command,
\* table entry or timer, nor the wire.
LEMMA PollsFrame ==
  ASSUME NEW c \in Calls, Polls(c)
  PROVE  UNCHANGED <<transaction, next_transaction, reused, commands, handles, task, writing,
                     in_flight, deadlines, issued, desynchronized, written,
                     answers, strays, responses, link>>
<1> USE DEF taskVars, wireVars
<1>1. CASE Send(c)
  BY <1>1 DEF Send
<1>2. CASE TrySend(c)
  BY <1>2 DEF TrySend
<1>3. CASE Cancel(c)
  BY <1>3 DEF Cancel
<1>4. CASE CheckUsable(c)
  BY <1>4 DEF CheckUsable
<1>5. CASE Resolve(c)
  BY <1>5 DEF Resolve
<1>6. CASE Panic(c)
  BY <1>6 DEF Panic
<1> QED
  BY <1>1, <1>2, <1>3, <1>4, <1>5, <1>6 DEF Polls

\* Taking an id changes nothing but the id counter and the call's own state.
LEMMA AllocateFrame ==
  ASSUME NEW c \in Calls, Allocate(c)
  PROVE  UNCHANGED <<answer, permits, waiters, commands, handles, task, writing, in_flight,
                     deadlines, issued, desynchronized, written,
                     answers, strays, responses, link>>
BY DEF Allocate, taskVars, wireVars

\* Sending a command changes nothing but the channel and the call's own state.
LEMMA EnqueueFrame ==
  ASSUME NEW c \in Calls, Enqueue(c)
  PROVE  UNCHANGED <<transaction, answer, permits, waiters, next_transaction, reused, handles,
                     task, writing, in_flight, deadlines, issued, desynchronized, written,
                     answers, strays, responses, link>>
BY DEF Enqueue, taskVars, wireVars

\* Dropping the handles changes nothing the calls or the task work on.
LEMMA DropHandlesFrame ==
  ASSUME DropHandles
  PROVE  UNCHANGED <<phase, transaction, answer, permits, waiters, next_transaction, reused,
                     commands, task, writing, in_flight, deadlines, issued, desynchronized,
                     written, answers, strays, responses, link>>
BY DEF DropHandles, callVars, taskVars, wireVars

\* The task never touches a call's phase or id, the permits or the counter, and it only
\* takes responses off the wire.
LEMMA TaskFrame ==
  ASSUME TaskStep
  PROVE  /\ UNCHANGED <<phase, transaction, permits, waiters, next_transaction, reused, handles,
                        answers, strays>>
         /\ responses' \subseteq responses
<1> USE DEF callVars, wireVars
<1>1. ASSUME NEW k \in Calls, Expire(k)
      PROVE  /\ UNCHANGED <<phase, transaction, permits, waiters, next_transaction, reused,
                            handles, answers, strays>>
             /\ responses' \subseteq responses
  BY <1>1 DEF Expire
<1>2. ASSUME NEW r \in responses, Receive(r)
      PROVE  /\ UNCHANGED <<phase, transaction, permits, waiters, next_transaction, reused,
                            handles, answers, strays>>
             /\ responses' \subseteq responses
  BY <1>2 DEF Receive
<1>3. CASE RefuseCommand
  BY <1>3 DEF RefuseCommand
<1>4. CASE StartWrite
  BY <1>4 DEF StartWrite
<1>5. CASE FinishWrite
  BY <1>5 DEF FinishWrite
<1>6. CASE FailWrite
  BY <1>6 DEF FailWrite
<1>7. CASE FailReceive
  BY <1>7 DEF FailReceive
<1>8. CASE Stop
  BY <1>8 DEF Stop
<1> QED
  BY <1>1, <1>2, <1>3, <1>4, <1>5, <1>6, <1>7, <1>8 DEF TaskStep

\* The peer and the network change nothing but the wire.
LEMMA PeerFrame ==
  ASSUME PeerStep
  PROVE  UNCHANGED <<phase, transaction, answer, permits, waiters, next_transaction, reused,
                     commands, handles, task, writing, in_flight, deadlines, issued,
                     desynchronized, written>>
<1> USE DEF callVars, taskVars
<1>1. CASE \E c \in Calls : PeerAnswer(c)
  BY <1>1 DEF PeerAnswer
<1>2. CASE \E t \in AnyTid, u \in Units : PeerStray(t, u)
  BY <1>2 DEF PeerStray
<1>3. CASE Break
  BY <1>3 DEF Break
<1> QED
  BY <1>1, <1>2, <1>3 DEF PeerStep

\* Every step is one of these, or changes nothing.
LEMMA StepCases ==
  ASSUME [Next]_vars
  PROVE  \/ \E c \in Calls : Polls(c) \/ Allocate(c) \/ Enqueue(c)
         \/ DropHandles \/ TaskStep \/ PeerStep
         \/ UNCHANGED <<phase, transaction, answer, permits, waiters, next_transaction, reused,
                        commands, handles, task, writing, in_flight, deadlines, issued,
                        desynchronized, written, answers, strays, responses, link>>
<1>1. CASE Next
  BY <1>1 DEF Next, CallStep, Polls, TaskStep, PeerStep
<1>2. CASE UNCHANGED vars
  BY <1>2 DEF vars, callVars, taskVars, wireVars
<1> QED
  BY <1>1, <1>2

-----------------------------------------------------------------------------
(* How the phases of the futures move.                             *)

Early == {"idle", "queued", "assigned", "admitted", "checked"}
Late == {"awaiting", "done", "cancelled", "panicked"}

\* What one step may do to the phase of one future d: nothing, hand a queued
\* one its permit, or move it forward.
PhaseStep(d) ==
  /\ phase'[d] \in Early => phase[d] \in Early
  /\ phase'[d] = "numbered" => phase[d] = "numbered" \/ Allocate(d)
  /\ phase'[d] = "awaiting" => phase[d] = "awaiting" \/ Enqueue(d)
  /\ phase'[d] = "panicked" => phase[d] = "panicked" \/ Panic(d)
  /\ phase[d] \in Late => phase'[d] \in Late
  /\ Active(d)' => handles

\* Dropping a permit hands it to a queued future, if any.
LEMMA ReleaseFacts ==
  ASSUME TypeOK, QueueKept, FuturesHoldHandles, NEW c \in Calls, NEW p \in Phases,
         phase[c] # "queued", Active(c), ReleasePermit(c, p)
  PROVE  /\ phase'[c] = p
         /\ \A d \in Calls \ {c} : \/ phase'[d] = phase[d]
                                   \/ phase[d] = "queued" /\ phase'[d] = "assigned"
         /\ handles
         /\ QueueKept'
<1>1. handles
  BY DEF FuturesHoldHandles
<1>2. CASE waiters = <<>>
  <2>1. phase' = [phase EXCEPT ![c] = p] /\ waiters' = waiters
    BY <1>2 DEF ReleasePermit
  <2>2. Range(waiters) = {} /\ IsInjective(waiters)
    BY SMTT(30), <1>2 DEF Range, IsInjective
  <2> QED
    BY <1>1, <2>1, <2>2 DEF TypeOK, QueueKept
<1>3. CASE waiters # <<>>
  <2>1. /\ Head(waiters) \in Calls /\ Head(waiters) \in Range(waiters)
        /\ IsInjective(Tail(waiters)) /\ Head(waiters) \notin Range(Tail(waiters))
        /\ Range(Tail(waiters)) \subseteq Range(waiters)
    BY SMTT(30), <1>3, TailFacts DEF TypeOK, QueueKept
  <2>2. /\ phase' = [phase EXCEPT ![c] = p, ![Head(waiters)] = "assigned"]
        /\ waiters' = Tail(waiters)
    BY <1>3 DEF ReleasePermit
  <2>3. Head(waiters) # c /\ c \notin Range(waiters)
    BY <2>1 DEF QueueKept
  <2>4. /\ phase'[c] = p /\ phase'[Head(waiters)] = "assigned"
        /\ \A d \in Calls \ {c, Head(waiters)} : phase'[d] = phase[d]
    BY <2>1, <2>2, <2>3 DEF TypeOK
  <2>5. ASSUME NEW d \in Range(waiters') PROVE phase'[d] = "queued"
    <3>1. d \in Calls
      BY SMTT(30), <1>3, <2>2, TailFacts DEF TypeOK, Range
    <3> QED
      BY <2>1, <2>2, <2>3, <2>4, <3>1, Zenon DEF QueueKept
  <2> QED
    BY <1>1, <2>1, <2>2, <2>4, <2>5, Zenon DEF QueueKept
<1> QED
  BY <1>2, <1>3

\* Every step moves each future as PhaseStep says and keeps the queue.
LEMMA PhaseFacts ==
  ASSUME TypeOK, QueueKept, FuturesHoldHandles, [Next]_vars
  PROVE  QueueKept' /\ \A d \in Calls : PhaseStep(d)
<1> USE DEF Early, Late, Active
<1>1. ASSUME NEW c \in Calls, Send(c) PROVE QueueKept' /\ \A d \in Calls : PhaseStep(d)
  <2>1. CASE permits > 0
    <3>1. phase' = [phase EXCEPT ![c] = "admitted"] /\ waiters' = waiters
          /\ phase[c] = "idle" /\ handles
      BY SMTT(30), <1>1, <2>1 DEF Send, TypeOK
    <3>2. Range(waiters) \subseteq Calls
      BY SMTT(30) DEF TypeOK, Range
    <3> QED
      BY <3>1, <3>2 DEF TypeOK, QueueKept, PhaseStep, FuturesHoldHandles
  <2>2. CASE permits = 0
    <3>1. phase' = [phase EXCEPT ![c] = "queued"] /\ waiters' = Append(waiters, c)
          /\ phase[c] = "idle" /\ handles
      BY SMTT(30), <1>1, <2>2 DEF Send, TypeOK
    <3>2. Range(waiters) \subseteq Calls
      BY SMTT(30) DEF TypeOK, Range
    <3>3. c \notin Range(waiters)
      BY <3>1 DEF QueueKept
    <3>4. IsInjective(waiters') /\ Range(waiters') = Range(waiters) \cup {c}
      BY SMTT(30), <3>1, <3>3, AppendFacts DEF TypeOK, QueueKept
    <3> QED
      BY SMTT(30), <3>1, <3>2, <3>4 DEF TypeOK, QueueKept, PhaseStep, FuturesHoldHandles
  <2> QED
    BY <1>1, <2>1, <2>2 DEF Send
<1>2. ASSUME NEW c \in Calls, NEW p \in Phases \ {"queued"},
             phase' = [phase EXCEPT ![c] = p], waiters' = waiters, phase[c] # "queued"
      PROVE  QueueKept' /\ phase'[c] = p /\ \A d \in Calls \ {c} : phase'[d] = phase[d]
  <2>1. Range(waiters) \subseteq Calls
    BY SMTT(30) DEF TypeOK, Range
  <2> QED
    BY <1>2, <2>1 DEF TypeOK, QueueKept
<1>3. ASSUME NEW c \in Calls, TrySend(c) PROVE QueueKept' /\ \A d \in Calls : PhaseStep(d)
  <2>1. /\ phase' = [phase EXCEPT ![c] = "admitted"] \/ phase' = [phase EXCEPT ![c] = "done"]
        /\ waiters' = waiters /\ phase[c] = "idle" /\ handles
    BY <1>3 DEF TrySend
  <2> QED
    BY <1>2, <2>1 DEF PhaseStep, Phases
<1>4. ASSUME NEW c \in Calls, Cancel(c) PROVE QueueKept' /\ \A d \in Calls : PhaseStep(d)
  <2>1. CASE phase[c] = "queued"
    <3>1. PICK i \in DOMAIN waiters : waiters[i] = c /\ waiters' = Leave(waiters, i)
      BY <1>4, <2>1 DEF Cancel
    <3>2. phase' = [phase EXCEPT ![c] = "cancelled"]
      BY <1>4, <2>1 DEF Cancel
    <3>3. Range(waiters) \subseteq Calls
      BY SMTT(30) DEF TypeOK, Range
    <3>4. /\ IsInjective(waiters') /\ Range(waiters') \subseteq Range(waiters)
          /\ c \notin Range(waiters')
      BY <3>1, LeaveFacts DEF TypeOK, QueueKept
    <3>5. handles
      BY <2>1 DEF FuturesHoldHandles
    <3> QED
      BY <3>2, <3>3, <3>4, <3>5 DEF TypeOK, QueueKept, PhaseStep
  <2>2. CASE phase[c] # "queued"
    <3>1. phase[c] \in {"assigned", "awaiting"} /\ ReleasePermit(c, "cancelled")
      BY <1>4, <2>2 DEF Cancel
    <3> QED
      BY <3>1, ReleaseFacts DEF PhaseStep, Phases
  <2> QED
    BY <2>1, <2>2
<1>5. ASSUME NEW c \in Calls, CheckUsable(c) PROVE QueueKept' /\ \A d \in Calls : PhaseStep(d)
  <2>1. CASE desynchronized
    <3>1. phase[c] \in {"assigned", "admitted"} /\ ReleasePermit(c, "done")
      BY <1>5, <2>1 DEF CheckUsable
    <3> QED
      BY <3>1, ReleaseFacts DEF PhaseStep, Phases
  <2>2. CASE ~desynchronized
    <3>1. /\ phase[c] \in {"assigned", "admitted"} /\ waiters' = waiters
          /\ phase' = [phase EXCEPT ![c] = "checked"]
      BY <1>5, <2>2 DEF CheckUsable
    <3>2. handles
      BY <3>1 DEF FuturesHoldHandles
    <3>3. QueueKept' /\ phase'[c] = "checked" /\ \A d \in Calls \ {c} : phase'[d] = phase[d]
      BY <1>2, <3>1, Zenon DEF Phases
    <3> QED
      BY <3>1, <3>2, <3>3 DEF PhaseStep
  <2> QED
    BY <2>1, <2>2
<1>6. ASSUME NEW c \in Calls, Allocate(c) PROVE QueueKept' /\ \A d \in Calls : PhaseStep(d)
  <2>1. /\ phase[c] = "checked" /\ waiters' = waiters
        /\ phase' = [phase EXCEPT ![c] = "numbered"]
    BY <1>6 DEF Allocate
  <2>2. handles
    BY <2>1 DEF FuturesHoldHandles
  <2>3. QueueKept' /\ phase'[c] = "numbered" /\ \A d \in Calls \ {c} : phase'[d] = phase[d]
    BY <1>2, <2>1, Zenon DEF Phases
  <2> QED
    BY <1>6, <2>1, <2>2, <2>3 DEF PhaseStep
<1>7. ASSUME NEW c \in Calls, Enqueue(c) PROVE QueueKept' /\ \A d \in Calls : PhaseStep(d)
  <2>1. /\ phase[c] = "numbered" /\ waiters' = waiters
        /\ phase' = [phase EXCEPT ![c] = "awaiting"]
    BY <1>7 DEF Enqueue
  <2>2. handles
    BY <2>1 DEF FuturesHoldHandles
  <2>3. QueueKept' /\ phase'[c] = "awaiting" /\ \A d \in Calls \ {c} : phase'[d] = phase[d]
    BY <1>2, <2>1, Zenon DEF Phases
  <2> QED
    BY <1>7, <2>1, <2>2, <2>3 DEF PhaseStep
<1>8. ASSUME NEW c \in Calls, Resolve(c) PROVE QueueKept' /\ \A d \in Calls : PhaseStep(d)
  <2>1. phase[c] = "awaiting" /\ ReleasePermit(c, "done")
    BY <1>8 DEF Resolve
  <2> QED
    BY <2>1, ReleaseFacts DEF PhaseStep, Phases
<1>9. ASSUME NEW c \in Calls, Panic(c) PROVE QueueKept' /\ \A d \in Calls : PhaseStep(d)
  <2>1. phase[c] = "awaiting" /\ ReleasePermit(c, "panicked")
    BY <1>9 DEF Panic
  <2> QED
    BY <1>9, <2>1, ReleaseFacts DEF PhaseStep, Phases
<1>10. ASSUME phase' = phase, waiters' = waiters
       PROVE  QueueKept' /\ \A d \in Calls : PhaseStep(d)
  BY <1>10 DEF QueueKept, PhaseStep, FuturesHoldHandles
<1>11. \/ phase' = phase /\ waiters' = waiters
       \/ \E c \in Calls : Send(c) \/ TrySend(c) \/ Cancel(c) \/ CallStep(c)
  BY StepCases, DropHandlesFrame, TaskFrame, PeerFrame DEF Polls, CallStep
<1> QED
  BY <1>1, <1>3, <1>4, <1>5, <1>6, <1>7, <1>8, <1>9, <1>10, <1>11 DEF CallStep

-----------------------------------------------------------------------------
(* How ids, commands and written requests move.                             *)

\* An id is given once, to a future that has none; reused tells.
LEMMA TransactionFacts ==
  ASSUME TypeOK, [Next]_vars
  PROVE  \/ transaction' = transaction /\ reused' = reused
         \/ \E c \in Calls :
              /\ phase[c] = "checked" /\ phase' = [phase EXCEPT ![c] = "numbered"]
              /\ transaction' = [transaction EXCEPT ![c] = next_transaction]
              /\ reused' = (reused \/ \E d \in Calls : transaction[d] = next_transaction)
              /\ UNCHANGED <<answer, permits, waiters, commands, handles, taskVars, wireVars>>
<1>1. \/ transaction' = transaction /\ reused' = reused
      \/ \E c \in Calls : Allocate(c)
  BY StepCases, PollsFrame, EnqueueFrame, DropHandlesFrame, TaskFrame, PeerFrame
<1> QED
  BY <1>1 DEF Allocate

\* A call has an id exactly from its allocation in dispatch onwards.
LEMMA NumbersPreserved ==
  ASSUME TypeOK, QueueKept, FuturesHoldHandles, NumbersKept, [Next]_vars
  PROVE  NumbersKept'
<1>1. \A d \in Calls : PhaseStep(d)
  BY PhaseFacts
<1>2. CASE transaction' = transaction
  <2> SUFFICES ASSUME NEW d \in Calls
               PROVE  /\ phase'[d] \in Early => transaction[d] = 0
                      /\ phase'[d] \in {"numbered", "awaiting"} => transaction[d] # 0
    BY <1>2 DEF NumbersKept, Early
  <2>1. Enqueue(d) => phase[d] = "numbered"
    BY DEF Enqueue
  <2>2. Allocate(d) => transaction[d] # 0
    BY SMTT(30), <1>2, PipelineAssumption DEF Allocate, TypeOK, Tids
  <2> QED
    BY <1>1, <2>1, <2>2 DEF NumbersKept, PhaseStep, Early
<1>3. ASSUME NEW c \in Calls, phase' = [phase EXCEPT ![c] = "numbered"],
             transaction' = [transaction EXCEPT ![c] = next_transaction]
      PROVE  NumbersKept'
  <2>1. next_transaction # 0
    BY SMTT(30), PipelineAssumption DEF TypeOK, Tids
  <2> QED
    BY <1>3, <2>1 DEF NumbersKept, TypeOK
<1> QED
  BY <1>2, <1>3, TransactionFacts

\* Until reused is set, no two calls hold the same id.
LEMMA FreshIdsPreserved ==
  ASSUME TypeOK, FreshIds, [Next]_vars
  PROVE  FreshIds'
<1>1. CASE transaction' = transaction /\ reused' = reused
  BY <1>1 DEF FreshIds
<1>2. ASSUME NEW c \in Calls,
             transaction' = [transaction EXCEPT ![c] = next_transaction],
             reused' = (reused \/ \E d \in Calls : transaction[d] = next_transaction)
      PROVE  FreshIds'
  <2> SUFFICES ASSUME ~reused', NEW x \in Calls, NEW y \in Calls,
                      transaction'[x] = transaction'[y], transaction'[x] # 0
               PROVE  x = y
    BY DEF FreshIds
  <2>1. ~reused /\ \A d \in Calls : transaction[d] # next_transaction
    BY <1>2, Zenon
  <2>2. ASSUME NEW d \in Calls
        PROVE  transaction'[d] = IF d = c THEN next_transaction ELSE transaction[d]
    BY <1>2 DEF TypeOK
  <2> QED
    BY <2>1, <2>2 DEF FreshIds
<1> QED
  BY <1>1, <1>2, TransactionFacts

\* A request, once handed over, keeps its id and stays handed over.
LEMMA LateFacts ==
  ASSUME TypeOK, QueueKept, FuturesHoldHandles, [Next]_vars,
         NEW d \in Calls, phase[d] \in Late
  PROVE  phase'[d] \in Late /\ transaction'[d] = transaction[d]
<1>1. PhaseStep(d)
  BY PhaseFacts
<1>2. transaction'[d] = transaction[d]
  <2>1. CASE transaction' = transaction
    BY <2>1
  <2>2. ASSUME NEW c \in Calls, phase[c] = "checked",
               transaction' = [transaction EXCEPT ![c] = next_transaction]
        PROVE  transaction'[d] = transaction[d]
    BY <2>2 DEF TypeOK, Late
  <2> QED
    BY <2>1, <2>2, TransactionFacts
<1> QED
  BY <1>1, <1>2 DEF PhaseStep

\* The command channel gains what Enqueue puts in and loses its head; the wire
\* gains the head whose write begins.
LEMMA CommandFacts ==
  ASSUME TypeOK, [Next]_vars
  PROVE  \/ commands' = commands /\ written' = written /\ issued' = issued
         \/ \E c \in Calls : Enqueue(c)
         \/ RefuseCommand \/ StartWrite
<1>1. ASSUME TaskStep
      PROVE  \/ commands' = commands /\ written' = written /\ issued' = issued
             \/ RefuseCommand \/ StartWrite
  <2>1. ASSUME NEW k \in Calls, Expire(k)
        PROVE  commands' = commands /\ written' = written /\ issued' = issued
    BY <2>1 DEF Expire
  <2>2. ASSUME NEW r \in responses, Receive(r)
        PROVE  commands' = commands /\ written' = written /\ issued' = issued
    BY <2>2 DEF Receive
  <2>3. FinishWrite \/ Stop => commands' = commands /\ written' = written /\ issued' = issued
    BY DEF FinishWrite, Stop
  <2>4. FailWrite \/ FailReceive =>
          commands' = commands /\ written' = written /\ issued' = issued
    BY DEF FailWrite, FailReceive
  <2> QED
    BY <1>1, <2>1, <2>2, <2>3, <2>4 DEF TaskStep
<1> QED
  BY <1>1, StepCases, PollsFrame, AllocateFrame, DropHandlesFrame, PeerFrame

\* What is in the command channel, being written or written belongs to a call that has its
\* id and has been handed over.
LEMMA RequestsPreserved ==
  ASSUME TypeOK, QueueKept, FuturesHoldHandles, NumbersKept, RequestsKept, [Next]_vars
  PROVE  RequestsKept'
<1> DEFINE Handed(d) == transaction[d] # 0 /\ phase[d] \in Late
<1>1. Range(commands) \cup written \subseteq Calls
  BY SMTT(30) DEF TypeOK, Range
<1>2. \A d \in Range(commands) \cup written : Handed(d)'
  BY <1>1, LateFacts DEF RequestsKept, Late
<1>3. \A d \in written : transaction'[d] = transaction[d]
  BY <1>1, LateFacts DEF RequestsKept, Late
<1>4. writing' = writing \/ writing' = Nobody \/ StartWrite
  <2>1. ASSUME NEW k \in Calls, Expire(k) PROVE writing' = writing
    BY <2>1 DEF Expire
  <2>2. ASSUME NEW r \in responses, Receive(r) PROVE writing' = writing
    BY <2>2 DEF Receive
  <2>3. FinishWrite \/ FailWrite => writing' = Nobody
    BY DEF FinishWrite, FailWrite
  <2>4. Stop \/ FailReceive \/ RefuseCommand => writing' = writing
    BY DEF Stop, FailReceive, RefuseCommand, taskVars
  <2>5. TaskStep => writing' = writing \/ writing' = Nobody \/ StartWrite
    BY <2>1, <2>2, <2>3, <2>4 DEF TaskStep
  <2> QED
    BY <2>5, StepCases, PollsFrame, AllocateFrame, EnqueueFrame, DropHandlesFrame, PeerFrame
<1>5. CASE commands' = commands /\ written' = written /\ issued' = issued
  <2>1. StartWrite => writing' \in written'
    BY DEF StartWrite
  <2> QED
    BY <1>2, <1>3, <1>4, <1>5, <2>1 DEF RequestsKept, Late
<1>6. ASSUME NEW c \in Calls, Enqueue(c) PROVE RequestsKept'
  <2>1. /\ phase[c] = "numbered" /\ phase' = [phase EXCEPT ![c] = "awaiting"]
        /\ commands' = Append(commands, c) /\ transaction' = transaction
        /\ written' = written /\ issued' = issued /\ writing' = writing
    BY <1>6 DEF Enqueue, taskVars
  <2>2. Range(commands') = Range(commands) \cup {c}
    BY SMTT(30), <2>1, AppendFacts DEF TypeOK
  <2>3. Handed(c)'
    BY <2>1 DEF NumbersKept, TypeOK, Late
  <2> QED
    BY <1>2, <1>3, <2>1, <2>2, <2>3 DEF RequestsKept, Late
<1>7. ASSUME commands # <<>> PROVE /\ Head(commands) \in Range(commands)
                                   /\ Range(Tail(commands)) \subseteq Range(commands)
  BY SMTT(30), <1>7, TailFacts DEF TypeOK
<1>8. CASE RefuseCommand
  <2>1. /\ commands # <<>> /\ commands' = Tail(commands)
        /\ written' = written /\ issued' = issued /\ writing' = writing
    BY <1>8 DEF RefuseCommand, taskVars
  <2> QED
    BY <1>2, <1>3, <1>7, <2>1 DEF RequestsKept, Late
<1>9. CASE StartWrite
  <2>1. /\ commands # <<>> /\ commands' = Tail(commands)
        /\ issued' = issued \cup {transaction[Head(commands)]}
        /\ writing' = Head(commands) /\ written' = written \cup {Head(commands)}
        /\ transaction' = transaction
    BY <1>9 DEF StartWrite, callVars
  <2> QED
    BY <1>2, <1>7, <2>1 DEF RequestsKept, Late
<1> QED
  BY <1>5, <1>6, <1>8, <1>9, CommandFacts

\* The set of written requests only grows.
LEMMA WrittenGrows == ASSUME TypeOK, [Next]_vars PROVE written \subseteq written'
<1>1. \A c \in Calls : Enqueue(c) => written' = written
  BY EnqueueFrame
<1>2. RefuseCommand => written' = written
  BY DEF RefuseCommand, taskVars
<1>3. StartWrite => written \subseteq written'
  BY DEF StartWrite
<1> QED
  BY <1>1, <1>2, <1>3, CommandFacts

\* Every response on the wire that answers a request carries the id the request was
\* written under.
LEMMA WirePreserved ==
  ASSUME TypeOK, QueueKept, FuturesHoldHandles, RequestsKept, WireKept, [Next]_vars
  PROVE  WireKept'
<1>1. written \subseteq Calls /\ written \subseteq written'
  BY WrittenGrows DEF TypeOK
<1>2. \A d \in written : transaction'[d] = transaction[d]
  BY <1>1, LateFacts DEF RequestsKept, Late
<1>3. ASSUME NEW r \in responses', r \notin responses
      PROVE  r.of # Nobody => r.of \in written /\ transaction[r.of] = r.tid
  <2>1. \/ \E c \in Calls : PeerAnswer(c)
        \/ \E t \in AnyTid, u \in Units : PeerStray(t, u)
    <3>1. PeerStep
      BY <1>3, StepCases, PollsFrame, AllocateFrame, EnqueueFrame, DropHandlesFrame, TaskFrame
    <3>2. Break => responses' = responses
      BY DEF Break
    <3> QED
      BY <1>3, <3>1, <3>2 DEF PeerStep
  <2>2. ASSUME NEW c \in Calls, PeerAnswer(c)
        PROVE  r.of # Nobody => r.of \in written /\ transaction[r.of] = r.tid
    <3>1. c \in written /\ r = [tid |-> transaction[c], unit |-> UnitOf[c], of |-> c]
      BY <1>3, <2>2 DEF PeerAnswer
    <3> QED
      BY <3>1
  <2>3. ASSUME NEW t \in AnyTid, NEW u \in Units, PeerStray(t, u)
        PROVE  r.of = Nobody
    <3>1. r = [tid |-> t, unit |-> u, of |-> Nobody]
      BY <1>3, <2>3 DEF PeerStray
    <3> QED
      BY <3>1
  <2> QED
    BY <2>1, <2>2, <2>3
<1> QED
  BY <1>1, <1>2, <1>3 DEF WireKept

-----------------------------------------------------------------------------
(* The in-flight table and its timers.                                      *)

\* Who is registered is found under their own id, and only there.
LEMMA RegisteredFacts ==
  ASSUME TypeOK, TableKept
  PROVE  /\ Registered \subseteq written /\ Registered \subseteq Calls
         /\ \A c \in Calls : c \in Registered <=>
              transaction[c] \in Tids /\ in_flight[transaction[c]] = c
<1>1. \A t \in Tids : in_flight[t] \in Calls \cup {Nobody}
  BY DEF TypeOK
<1> QED
  BY SMTT(30), <1>1, PipelineAssumption DEF TableKept, Registered, TypeOK

\* Ids of written requests are ids of the table.
LEMMA WrittenTids ==
  ASSUME TypeOK, RequestsKept, NEW c \in written
  PROVE  c \in Calls /\ transaction[c] \in Tids
BY SMTT(30), PipelineAssumption DEF TypeOK, RequestsKept, Tids, AnyTid

\* Only these steps touch table, timers, flag or write in progress.
LEMMA TableCases ==
  ASSUME [Next]_vars
  PROVE  \/ UNCHANGED <<in_flight, deadlines, desynchronized, writing, task>>
         \/ StartWrite \/ FinishWrite \/ FailWrite \/ FailReceive \/ Stop
         \/ \E r \in responses : Receive(r)
         \/ \E k \in Calls : Expire(k)
<1>1. RefuseCommand => UNCHANGED <<in_flight, deadlines, desynchronized, writing, task>>
  BY DEF RefuseCommand, taskVars
<1>2. TaskStep => \/ RefuseCommand \/ StartWrite \/ FinishWrite \/ FailWrite \/ FailReceive
                  \/ Stop \/ \E r \in responses : Receive(r)
                  \/ \E k \in Calls : Expire(k)
  BY DEF TaskStep
<1> QED
  BY <1>1, <1>2, StepCases, PollsFrame, AllocateFrame, EnqueueFrame, DropHandlesFrame, PeerFrame, Zenon

\* A stopped task does not start again.
LEMMA TaskKept == ASSUME [Next]_vars PROVE task' = "running" => task = "running"
<1>1. StartWrite \/ FinishWrite => task' = task
  BY DEF StartWrite, FinishWrite
<1>2. FailWrite \/ FailReceive => task' = task
  BY DEF FailWrite, FailReceive
<1>3. Stop => task' = "stopped"
  BY DEF Stop
<1>4. \A r \in responses : Receive(r) => task' = task
  BY DEF Receive
<1>5. \A k \in Calls : Expire(k) => task' = task
  BY DEF Expire
<1> QED
  BY <1>1, <1>2, <1>3, <1>4, <1>5, TableCases

\* An id once reused stays reused.
LEMMA ReusedKept == ASSUME TypeOK, [Next]_vars PROVE ~reused' => ~reused
<1>1. CASE reused' = reused
  BY <1>1
<1>2. ASSUME reused' = (reused \/ \E d \in Calls : transaction[d] = next_transaction)
      PROVE  ~reused' => ~reused
  BY <1>2, Zenon
<1> QED
  BY <1>1, <1>2, TransactionFacts

\* fail_all empties the table.
LEMMA FailAllFacts ==
  ASSUME NEW ans, NEW registered, NEW pending, FailAll(ans, registered, pending)
  PROVE  /\ \A t \in Tids : in_flight'[t] = Nobody
         /\ Registered' = {}
         /\ deadlines' = pending \ registered
BY DEF FailAll, Registered

\* The three ways a step changes table and timers: one entry is registered
\* and its timer armed; the entry under the id of k goes with k's timer; all
\* entries go.
RegisterEntry ==
  /\ writing \in written /\ ~desynchronized /\ UNCHANGED desynchronized
  /\ writing' = Nobody
  /\ in_flight' = [in_flight EXCEPT ![transaction[writing]] = writing]
  /\ deadlines' = deadlines \cup {writing}
  /\ UNCHANGED <<transaction, reused, task>>

RemoveEntry(k) ==
  /\ k \in deadlines \cup Registered
  /\ in_flight' = [in_flight EXCEPT ![transaction[k]] = Nobody]
  /\ deadlines' = deadlines \ {k}
  /\ UNCHANGED <<transaction, reused, task, desynchronized, writing>>

ClearTable ==
  /\ \A t \in Tids : in_flight'[t] = Nobody
  /\ Registered' = {}
  /\ deadlines' \subseteq deadlines
  /\ \/ task' = "stopped"
     \/ deadlines' = deadlines \ Registered
     \/ \E k \in deadlines :
          deadlines' = (deadlines \ {k}) \ (Registered \ {in_flight[transaction[k]]})
  /\ UNCHANGED <<transaction, reused>>

\* A step leaves the in-flight table alone, registers the request just written, removes one
\* entry, or clears the table.
LEMMA TableSteps ==
  ASSUME TypeOK, RequestsKept, TableKept, DesyncLeavesNothing, [Next]_vars
  PROVE  \/ UNCHANGED <<in_flight, deadlines>>
         \/ RegisterEntry
         \/ \E k \in Calls : RemoveEntry(k)
         \/ ClearTable
<1>1. CASE StartWrite
  BY <1>1 DEF StartWrite
<1>2. CASE FinishWrite
  <2>1. writing # Nobody /\ UNCHANGED <<transaction, reused, task, desynchronized>>
    BY <1>2 DEF FinishWrite, callVars
  <2>2. writing \in written /\ ~desynchronized
    BY <2>1 DEF RequestsKept, DesyncLeavesNothing
  <2> QED
    BY <1>2, <2>1, <2>2 DEF FinishWrite, RegisterEntry
<1>3. CASE FailWrite
  <2>1. FailAll(Reply(answer, writing, Failed("transport")), Registered, deadlines)
        /\ UNCHANGED <<transaction, reused>>
    BY <1>3 DEF FailWrite, Desynchronize
  <2> QED
    BY SMTT(30), <2>1, FailAllFacts DEF ClearTable
<1>4. CASE FailReceive
  <2>1. FailAll(answer, Registered, deadlines) /\ UNCHANGED <<transaction, reused>>
    BY <1>4 DEF FailReceive, Desynchronize
  <2> QED
    BY SMTT(30), <2>1, FailAllFacts DEF ClearTable
<1>5. CASE Stop
  <2>1. /\ in_flight' = [t \in Tids |-> Nobody] /\ deadlines' = {} /\ task' = "stopped"
        /\ UNCHANGED <<transaction, reused>>
    BY <1>5 DEF Stop, callVars
  <2>2. Registered' = {} /\ \A t \in Tids : in_flight'[t] = Nobody
    BY <2>1 DEF Registered
  <2> QED
    BY <2>1, <2>2 DEF ClearTable
<1>6. ASSUME NEW r \in responses, Receive(r)
      PROVE  \/ UNCHANGED <<in_flight, deadlines>>
             \/ \E k \in Calls : RemoveEntry(k)
             \/ ClearTable
  <2>1. UNCHANGED <<transaction, reused, task, writing>>
    BY <1>6 DEF Receive
  <2>2. CASE Deliver(r)
    <3>1. PICK c : c = in_flight[r.tid]
      OBVIOUS
    <3>2. /\ r.tid \in Tids /\ c # Nobody
          /\ in_flight' = [in_flight EXCEPT ![r.tid] = Nobody]
          /\ deadlines' = deadlines \ {c} /\ UNCHANGED desynchronized
      BY <2>2, <3>1 DEF Deliver
    <3>3. c \in Registered /\ transaction[c] = r.tid /\ c \in Calls
      BY <3>1, <3>2 DEF TableKept, Registered, TypeOK
    <3>4. RemoveEntry(c)
      BY <2>1, <3>2, <3>3 DEF RemoveEntry
    <3> QED
      BY <3>3, <3>4
  <2>3. CASE Discard(r)
    BY <2>3 DEF Discard
  <2>4. CASE Reject(r)
    <3>1. FailAll(answer, Registered, deadlines)
      BY <2>4 DEF Reject, Desynchronize
    <3> QED
      BY SMTT(30), <2>1, <3>1, FailAllFacts DEF ClearTable
  <2> QED
    BY <1>6, <2>2, <2>3, <2>4 DEF Receive
<1>7. ASSUME NEW k \in Calls, Expire(k) PROVE RemoveEntry(k) \/ ClearTable
  <2>1. PICK t : t = transaction[k]
    OBVIOUS
  <2>2. PICK c : c = in_flight[t]
    OBVIOUS
  <2>3. k \in deadlines /\ UNCHANGED <<transaction, reused, task, writing>>
    BY <1>7 DEF Expire
  <2>4. t \in Tids
    BY <2>1, <2>3, WrittenTids DEF TableKept
  <2>5. CASE c = Nobody
    <3>1. in_flight' = in_flight
      BY <1>7, <2>1, <2>2, <2>5 DEF Expire
    <3>2. deadlines' = deadlines \ {k} /\ UNCHANGED desynchronized
      BY <1>7, <2>1, <2>2, <2>5 DEF Expire
    <3>3. in_flight = [in_flight EXCEPT ![t] = Nobody]
      <4>1. in_flight \in [Tids -> Calls \cup {Nobody}] /\ in_flight[t] = Nobody
        BY <2>2, <2>5 DEF TypeOK
      <4> QED
        BY <2>4, <4>1
    <3>4. in_flight' = [in_flight EXCEPT ![t] = Nobody]
      BY <3>1, <3>3
    <3> QED
      BY <2>1, <2>3, <3>2, <3>4 DEF RemoveEntry
  <2>6. CASE c # Nobody /\ ~TimeoutDesyncs
    <3>1. /\ deadlines' = deadlines \ {k} /\ in_flight' = [in_flight EXCEPT ![t] = Nobody]
          /\ UNCHANGED desynchronized
      BY <1>7, <2>1, <2>2, <2>6 DEF Expire
    <3> QED
      BY <2>1, <2>3, <3>1 DEF RemoveEntry
  <2>7. CASE c # Nobody /\ TimeoutDesyncs
    <3>1. FailAll(Reply(answer, c, Failed("timeout")), Registered \ {c}, deadlines \ {k})
      BY <1>7, <2>1, <2>2, <2>7 DEF Expire, Desynchronize
    <3>2. /\ in_flight' = [u \in Tids |-> Nobody]
          /\ deadlines' = (deadlines \ {k}) \ (Registered \ {c})
      BY <3>1, Zenon DEF FailAll
    <3>3. Registered' = {} /\ \A u \in Tids : in_flight'[u] = Nobody
      BY <3>2 DEF Registered
    <3>4. c = in_flight[transaction[k]]
      BY <2>1, <2>2
    <3> QED
      BY <2>3, <3>2, <3>3, <3>4 DEF ClearTable
  <2> QED
    BY <2>5, <2>6, <2>7, PipelineAssumption
<1> QED
  BY <1>1, <1>2, <1>3, <1>4, <1>5, <1>6, <1>7, TableCases

\* Table and timers keep to written requests under their own ids.
LEMMA TablePreserved ==
  ASSUME TypeOK, QueueKept, FuturesHoldHandles, RequestsKept, TableKept, DesyncLeavesNothing,
         [Next]_vars
  PROVE  TableKept'
<1>1. /\ \A d \in written : transaction'[d] = transaction[d]
      /\ written \subseteq written'
  <2>1. written \subseteq Calls
    BY DEF TypeOK
  <2>2. \A d \in written : transaction'[d] = transaction[d]
    BY <2>1, LateFacts DEF RequestsKept, Late
  <2> QED
    BY <2>2, WrittenGrows
<1>2. CASE UNCHANGED <<in_flight, deadlines>>
  BY <1>1, <1>2 DEF TableKept
<1>3. CASE RegisterEntry
  <2>1. ASSUME NEW t \in Tids
        PROVE  in_flight'[t] = IF t = transaction[writing] THEN writing ELSE in_flight[t]
    BY <1>3 DEF RegisterEntry, TypeOK
  <2> QED
    BY SMTT(30), <1>1, <1>3, <2>1 DEF TableKept, RegisterEntry
<1>4. ASSUME NEW k \in Calls, RemoveEntry(k) PROVE TableKept'
  <2>1. ASSUME NEW t \in Tids
        PROVE  in_flight'[t] = IF t = transaction[k] THEN Nobody ELSE in_flight[t]
    BY <1>4 DEF RemoveEntry, TypeOK
  <2> QED
    BY SMTT(30), <1>1, <1>4, <2>1 DEF TableKept, RemoveEntry
<1>5. CASE ClearTable
  BY <1>1, <1>5, Zenon DEF TableKept, ClearTable
<1> QED
  BY <1>2, <1>3, <1>4, <1>5, TableSteps

\* Every entry keeps its timer, and until an id is reused there is no other.
LEMMA TimersPreserved ==
  ASSUME TypeOK, RequestsKept, TableKept, FreshIds, DesyncLeavesNothing, TimersMatchEntries,
         [Next]_vars
  PROVE  TimersMatchEntries'
<1> DEFINE Entry(c) == transaction[c] \in Tids /\ in_flight[transaction[c]] = c
<1>1. Registered \subseteq Calls /\ \A c \in Calls : c \in Registered <=> Entry(c)
  BY RegisteredFacts
<1>2. deadlines \subseteq written /\ written \subseteq Calls
  BY DEF TableKept, TypeOK
<1>3. CASE UNCHANGED <<in_flight, deadlines>>
  <2>1. (task' = "running" => task = "running") /\ (~reused' => ~reused)
    BY TaskKept, ReusedKept
  <2> QED
    BY <1>3, <2>1 DEF TimersMatchEntries, Registered
<1>4. CASE RegisterEntry
  <2>1. PICK w : w = writing
    OBVIOUS
  <2>2. w \in Calls /\ transaction[w] \in Tids
    BY <1>4, <2>1, WrittenTids DEF RegisterEntry
  <2>3. ASSUME NEW t \in Tids
        PROVE  in_flight'[t] = IF t = transaction[w] THEN w ELSE in_flight[t]
    BY <1>4, <2>1 DEF RegisterEntry, TypeOK
  <2>4. Registered' \subseteq Registered \cup {w} /\ w \in Registered'
    BY SMTT(30), <2>2, <2>3, PipelineAssumption DEF Registered
  <2>5. ASSUME ~reused, NEW d \in Registered PROVE d \in Registered'
    <3>1. Entry(d) /\ d \in Calls
      BY <1>1
    <3>2. transaction[d] = transaction[w] => d = w
      BY SMTT(30), <2>2, <2>5, <3>1, PipelineAssumption DEF FreshIds, Tids
    <3>3. in_flight'[transaction[d]] = d
      BY <2>3, <3>1, <3>2
    <3> QED
      BY <3>1, <3>3, PipelineAssumption DEF Registered
  <2> QED
    BY <1>4, <2>1, <2>4, <2>5 DEF TimersMatchEntries, RegisterEntry
<1>5. ASSUME NEW k \in Calls, RemoveEntry(k) PROVE TimersMatchEntries'
  <2>1. k \in written /\ transaction[k] \in Tids
    BY <1>2, <1>5, RegisteredFacts, WrittenTids DEF RemoveEntry
  <2>2. ASSUME NEW t \in Tids
        PROVE  in_flight'[t] = IF t = transaction[k] THEN Nobody ELSE in_flight[t]
    BY <1>5 DEF RemoveEntry, TypeOK
  <2>3. Registered' = {c \in Registered : transaction[c] # transaction[k]}
    <3>1. ASSUME NEW c \in Registered' PROVE c \in Registered /\ transaction[c] # transaction[k]
      BY SMTT(30), <2>2 DEF Registered, TableKept
    <3>2. ASSUME NEW c \in Registered, transaction[c] # transaction[k] PROVE c \in Registered'
      <4>1. transaction[c] \in Tids /\ in_flight'[transaction[c]] = c /\ c # Nobody
        BY <1>1, <2>2, <3>2 DEF Registered
      <4> QED
        BY <4>1 DEF Registered
    <3> QED
      BY <3>1, <3>2
  <2>4. ASSUME ~reused, NEW c \in Registered, transaction[c] = transaction[k] PROVE c = k
    BY SMTT(30), <1>1, <2>1, <2>4, PipelineAssumption DEF FreshIds, Tids
  <2> QED
    BY <1>5, <2>3, <2>4 DEF TimersMatchEntries, RemoveEntry
<1>6. CASE ClearTable
  <2>1. ASSUME task' = "running", ~reused' PROVE deadlines' = {}
    <3>1. deadlines = Registered
      BY <1>6, <2>1, TaskKept DEF TimersMatchEntries, ClearTable
    <3>2. \A k \in deadlines : in_flight[transaction[k]] = k
      BY <1>1, <3>1
    <3> QED
      BY <1>6, <2>1, <3>1, <3>2 DEF ClearTable
  <2> QED
    BY <1>6, <2>1 DEF TimersMatchEntries, ClearTable
<1> QED
  BY <1>3, <1>4, <1>5, <1>6, TableSteps

-----------------------------------------------------------------------------
(* Desynchronization, the task and its callers.                             *)

\* Desynchronizing empties the table, and nothing is registered afterwards.
LEMMA DesyncPreserved ==
  ASSUME TypeOK, DesyncLeavesNothing, [Next]_vars
  PROVE  DesyncLeavesNothing'
<1>1. CASE UNCHANGED <<in_flight, deadlines, desynchronized, writing, task>>
  BY <1>1 DEF DesyncLeavesNothing, Registered
<1>2. CASE StartWrite
  BY <1>2 DEF StartWrite, DesyncLeavesNothing
<1>3. CASE FinishWrite
  <2>1. ~desynchronized'
    BY <1>3 DEF FinishWrite, DesyncLeavesNothing
  <2> QED
    BY <2>1 DEF DesyncLeavesNothing
<1>4. CASE FailWrite
  <2>1. /\ writing' = Nobody
        /\ FailAll(Reply(answer, writing, Failed("transport")), Registered, deadlines)
    BY <1>4 DEF FailWrite, Desynchronize
  <2> QED
    BY <2>1, FailAllFacts DEF DesyncLeavesNothing
<1>5. CASE FailReceive
  <2>1. writing' = Nobody /\ FailAll(answer, Registered, deadlines)
    BY <1>5 DEF FailReceive, Desynchronize, Polling
  <2> QED
    BY <2>1, FailAllFacts DEF DesyncLeavesNothing
<1>6. CASE Stop
  BY <1>6 DEF Stop, Polling, DesyncLeavesNothing, Registered
<1>7. ASSUME NEW r \in responses, Receive(r) PROVE DesyncLeavesNothing'
  <2>1. writing' = Nobody
    BY <1>7 DEF Receive, Polling
  <2>2. CASE Deliver(r)
    <3>1. ~desynchronized'
      BY <2>2 DEF Deliver, DesyncLeavesNothing, Registered
    <3> QED
      BY <3>1 DEF DesyncLeavesNothing
  <2>3. CASE Discard(r)
    BY <2>1, <2>3 DEF Discard, DesyncLeavesNothing, Registered
  <2>4. CASE Reject(r)
    <3>1. FailAll(answer, Registered, deadlines)
      BY <2>4 DEF Reject, Desynchronize
    <3> QED
      BY <2>1, <3>1, FailAllFacts DEF DesyncLeavesNothing
  <2> QED
    BY <1>7, <2>2, <2>3, <2>4 DEF Receive
<1>8. ASSUME NEW k \in Calls, Expire(k) PROVE DesyncLeavesNothing'
  <2>1. PICK c : c = in_flight[transaction[k]]
    OBVIOUS
  <2>2. writing' = Nobody
    BY <1>8 DEF Expire, Polling
  <2>3. CASE c = Nobody
    <3>1. in_flight' = in_flight /\ desynchronized' = desynchronized
      BY <1>8, <2>1, <2>3 DEF Expire
    <3> QED
      BY <2>2, <3>1 DEF DesyncLeavesNothing, Registered
  <2>4. CASE c # Nobody /\ ~TimeoutDesyncs
    <3>1. /\ desynchronized' = desynchronized
          /\ in_flight' = [in_flight EXCEPT ![transaction[k]] = Nobody]
      BY <1>8, <2>1, <2>4 DEF Expire
    <3>2. Registered' \subseteq Registered
      BY <3>1, Zenon DEF Registered, TypeOK
    <3> QED
      BY <2>2, <3>1, <3>2 DEF DesyncLeavesNothing
  <2>5. CASE c # Nobody /\ TimeoutDesyncs
    <3>1. FailAll(Reply(answer, c, Failed("timeout")), Registered \ {c}, deadlines \ {k})
      BY <1>8, <2>1, <2>5 DEF Expire, Desynchronize
    <3> QED
      BY <2>2, <3>1, FailAllFacts DEF DesyncLeavesNothing
  <2> QED
    BY <2>3, <2>4, <2>5, PipelineAssumption
<1> QED
  BY <1>1, <1>2, <1>3, <1>4, <1>5, <1>6, <1>7, <1>8, TableCases

\* A future that is alive keeps a handle alive, and a live handle the task.
LEMMA HandlesPreserved ==
  ASSUME TypeOK, QueueKept, FuturesHoldHandles, TaskOutlivesCalls, [Next]_vars
  PROVE  FuturesHoldHandles' /\ TaskOutlivesCalls'
<1>1. \A d \in Calls : Active(d)' => handles
  BY PhaseFacts DEF PhaseStep
<1>2. CASE handles' = handles
  <2>1. FuturesHoldHandles'
    BY <1>1, <1>2 DEF FuturesHoldHandles
  <2>2. task' = "stopped" => task = "stopped" \/ Stop
    <3>1. StartWrite \/ FinishWrite => task' = task
      BY DEF StartWrite, FinishWrite
    <3>2. FailWrite \/ FailReceive => task' = task
      BY DEF FailWrite, FailReceive
    <3>3. \A r \in responses : Receive(r) => task' = task
      BY DEF Receive
    <3>4. \A k \in Calls : Expire(k) => task' = task
      BY DEF Expire
    <3> QED
      BY <3>1, <3>2, <3>3, <3>4, TableCases
  <2>3. Stop => ~handles
    BY DEF Stop
  <2> QED
    BY <1>2, <2>1, <2>2, <2>3 DEF FuturesHoldHandles, TaskOutlivesCalls
<1>3. CASE DropHandles
  <2>1. /\ handles /\ \A c \in Calls : ~Active(c)
        /\ ~handles' /\ phase' = phase /\ task' = task
    BY <1>3 DEF DropHandles, callVars, taskVars
  <2> QED
    BY <2>1 DEF FuturesHoldHandles, TaskOutlivesCalls, Active
<1> QED
  BY <1>2, <1>3, StepCases, PollsFrame, AllocateFrame, EnqueueFrame, TaskFrame, PeerFrame

-----------------------------------------------------------------------------
(* Answers.                                                                 *)

\* A reply replaces the answer of one future that waits for it.
LEMMA ReplyFacts ==
  ASSUME NEW ans \in [Calls -> Answers], NEW c, NEW a
  PROVE  \A d \in Calls : Reply(ans, c, a)[d] = IF d = c /\ phase[d] = "awaiting" THEN a ELSE ans[d]
BY DEF Reply

\* fail_all answers the registered requests somebody still waits for, and no others.
LEMMA FailAllAnswers ==
  ASSUME NEW ans, NEW registered, NEW pending, FailAll(ans, registered, pending)
  PROVE  \A d \in Calls : answer'[d] = IF d \in registered /\ phase[d] = "awaiting"
                                         THEN Failed("desynchronized") ELSE ans[d]
BY DEF FailAll

\* Polling a future leaves the answers of all who still wait afterwards.
LEMMA PollsAnswers ==
  ASSUME TypeOK, QueueKept, FuturesHoldHandles, NEW c \in Calls, Polls(c)
  PROVE  /\ \A d \in Calls \ {c} : answer'[d] = answer[d]
         /\ answer'[c] = answer[c] \/ answer'[c].result # "ok"
         /\ phase'[c] # "awaiting"
<1> USE DEF Failed, NoAnswer
<1>1. CASE Send(c)
  BY <1>1 DEF Send, TypeOK
<1>2. CASE TrySend(c)
  BY SMTT(30), <1>2 DEF TrySend, TypeOK
<1>3. CASE Cancel(c)
  <2>1. phase'[c] # "awaiting"
    BY <1>3, ReleaseFacts DEF Cancel, TypeOK, Phases, Active
  <2> QED
    BY <1>3, <2>1 DEF Cancel, TypeOK
<1>4. CASE CheckUsable(c)
  <2>1. phase'[c] # "awaiting"
    <3>1. CASE desynchronized
      <4>1. phase[c] \in {"assigned", "admitted"} /\ ReleasePermit(c, "done")
        BY <1>4, <3>1 DEF CheckUsable
      <4> QED
        BY <4>1, ReleaseFacts DEF Phases, Active
    <3>2. CASE ~desynchronized
      <4>1. phase' = [phase EXCEPT ![c] = "checked"]
        BY <1>4, <3>2 DEF CheckUsable
      <4> QED
        BY <4>1 DEF TypeOK
    <3> QED
      BY <3>1, <3>2
  <2> QED
    BY SMTT(30), <1>4, <2>1 DEF CheckUsable, TypeOK
<1>5. CASE Resolve(c)
  <2>1. phase'[c] # "awaiting"
    <3>1. phase[c] = "awaiting" /\ ReleasePermit(c, "done")
      BY <1>5 DEF Resolve
    <3> QED
      BY <3>1, ReleaseFacts DEF Phases, Active
  <2> QED
    BY <1>5, <2>1 DEF Resolve
<1>6. CASE Panic(c)
  <2>1. phase'[c] # "awaiting"
    <3>1. phase[c] = "awaiting" /\ ReleasePermit(c, "panicked")
      BY <1>6 DEF Panic
    <3> QED
      BY <3>1, ReleaseFacts DEF Phases, Active
  <2> QED
    BY <1>6, <2>1 DEF Panic
<1> QED
  BY <1>1, <1>2, <1>3, <1>4, <1>5, <1>6 DEF Polls


\* Until an id is reused, someone keeps the sender of every unanswered reply.
LEMMA ForgottenPreserved ==
  ASSUME TypeOK, QueueKept, RequestsKept, TableKept, FreshIds, FuturesHoldHandles,
         DesyncLeavesNothing, NobodyForgotten, [Next]_vars
  PROVE  NobodyForgotten'
<1> SUFFICES ASSUME ~reused', NEW d \in Calls, phase'[d] = "awaiting", answer'[d] = NoAnswer
             PROVE  d \in Range(commands') \cup {writing'} \cup Registered'
  BY DEF NobodyForgotten
<1> DEFINE Kept == d \in Range(commands') \cup {writing'} \cup Registered'
<1>1. ~reused
  BY ReusedKept
<1>2. ASSUME phase[d] = "awaiting", answer[d] = NoAnswer
      PROVE  d \in Range(commands) \cup {writing} \cup Registered
  BY <1>1, <1>2 DEF NobodyForgotten
<1>0. answer \in [Calls -> Answers]
  BY DEF TypeOK
<1>3. /\ Failed("desynchronized") # NoAnswer /\ Failed("transport") # NoAnswer
      /\ Failed("timeout") # NoAnswer
  BY DEF Failed, NoAnswer
<1>4. ASSUME answer'[d] = answer[d], phase'[d] = phase[d], commands' = commands,
             writing' = writing, in_flight' = in_flight
      PROVE  Kept
  BY <1>2, <1>4 DEF Registered
<1>5. ASSUME NEW c \in Calls, Polls(c) PROVE Kept
  <2>1. c # d
    BY <1>5, PollsAnswers
  <2>2. phase[d] = "awaiting"
    <3>1. phase[d] = "awaiting" \/ Enqueue(d)
      BY PhaseFacts DEF PhaseStep
    <3>2. Enqueue(d) => Len(commands') = Len(commands) + 1
      BY SMTT(30) DEF Enqueue, TypeOK
    <3>3. commands' = commands /\ Len(commands) \in Nat
      BY SMTT(30), <1>5, PollsFrame DEF TypeOK
    <3> QED
      BY <3>1, <3>2, <3>3
  <2> QED
    BY <1>4, <1>5, <2>1, <2>2, PollsAnswers, PollsFrame
<1>6. ASSUME NEW c \in Calls, Allocate(c) PROVE Kept
  <2>1. phase' = [phase EXCEPT ![c] = "numbered"]
    BY <1>6 DEF Allocate
  <2>2. phase'[d] = phase[d]
    BY <2>1 DEF TypeOK
  <2> QED
    BY <1>4, <1>6, <2>2, AllocateFrame
<1>7. ASSUME NEW c \in Calls, Enqueue(c) PROVE Kept
  <2>1. phase' = [phase EXCEPT ![c] = "awaiting"] /\ commands' = Append(commands, c)
    BY <1>7 DEF Enqueue
  <2>2. Range(commands') = Range(commands) \cup {c}
    BY SMTT(30), <2>1, AppendFacts DEF TypeOK
  <2>3. Registered' = Registered /\ writing' = writing /\ answer' = answer
    BY <1>7, EnqueueFrame DEF Registered
  <2>4. d # c => phase[d] = "awaiting"
    BY <2>1 DEF TypeOK
  <2> QED
    BY <1>2, <2>2, <2>3, <2>4
<1>8. ASSUME TaskStep PROVE Kept
  <2>1. phase' = phase
    BY <1>8, TaskFrame
  <2>2. CASE RefuseCommand
    <3>1. /\ commands # <<>> /\ commands' = Tail(commands)
          /\ answer' = Reply(answer, Head(commands), Failed("desynchronized"))
          /\ UNCHANGED taskVars
      BY <2>2 DEF RefuseCommand
    <3>2. Registered' = Registered /\ writing' = writing
      BY <3>1 DEF taskVars, Registered
    <3>3. Range(commands) \subseteq Range(commands') \cup {Head(commands)}
      BY <3>1, TailFacts DEF TypeOK
    <3>4. d # Head(commands) /\ answer[d] = NoAnswer
      BY SMTT(30), <1>0, <1>3, <2>1, <3>1, ReplyFacts
    <3> QED
      BY <1>2, <2>1, <3>2, <3>3, <3>4
  <2>3. CASE StartWrite
    <3>1. /\ commands # <<>> /\ commands' = Tail(commands) /\ writing' = Head(commands)
          /\ in_flight' = in_flight /\ answer' = answer /\ writing = Nobody
      BY <2>3 DEF StartWrite, callVars, Polling
    <3>2. Range(commands) \subseteq Range(commands') \cup {Head(commands)}
      BY <3>1, TailFacts DEF TypeOK
    <3> QED
      BY <1>2, <2>1, <3>1, <3>2, PipelineAssumption DEF Registered
  <2>4. CASE FinishWrite
    <3>1. /\ commands' = commands /\ writing \in written /\ answer' = answer
          /\ in_flight' = [in_flight EXCEPT ![transaction[writing]] = writing]
      BY <2>4 DEF FinishWrite, callVars, RequestsKept
    <3>2. writing \in Calls /\ transaction[writing] \in Tids
      BY <3>1, WrittenTids
    <3>3. writing \in Registered'
      BY <3>1, <3>2, PipelineAssumption DEF Registered, TypeOK
    <3>4. ASSUME d \in Registered PROVE d \in Registered'
      <4>1. transaction[d] \in Tids /\ in_flight[transaction[d]] = d
        BY <3>4, RegisteredFacts
      <4>2. CASE transaction[d] = transaction[writing]
        <5>1. d = writing
          BY SMTT(30), <1>1, <3>2, <4>1, <4>2 DEF FreshIds, Tids
        <5> QED
          BY <3>3, <5>1
      <4>3. CASE transaction[d] # transaction[writing]
        <5>1. in_flight'[transaction[d]] = d
          BY <3>1, <4>1, <4>3 DEF TypeOK
        <5> QED
          BY <4>1, <5>1, PipelineAssumption DEF Registered
      <4> QED
        BY <4>2, <4>3
    <3> QED
      BY <1>2, <2>1, <3>1, <3>3, <3>4
  <2>5. ASSUME NEW ans \in [Calls -> Answers], NEW R, NEW P, FailAll(ans, R, P)
        PROVE  d \notin R /\ ans[d] = NoAnswer
    BY <1>3, <2>1, <2>5, FailAllAnswers
  <2>6. CASE FailWrite
    <3>1. /\ commands' = commands /\ writing # Nobody
          /\ FailAll(Reply(answer, writing, Failed("transport")), Registered, deadlines)
      BY <2>6 DEF FailWrite, Desynchronize
    <3>2. Failed("transport") \in Answers
      BY DEF Failed, Answers, Failures
    <3>3. Reply(answer, writing, Failed("transport")) \in [Calls -> Answers]
      BY <1>0, <3>2, ReplyType
    <3>4. d \notin Registered /\ Reply(answer, writing, Failed("transport"))[d] = NoAnswer
      BY <2>5, <3>1, <3>3
    <3>5. d # writing /\ answer[d] = NoAnswer
      BY SMTT(30), <1>0, <1>3, <2>1, <3>4, ReplyFacts
    <3> QED
      BY <1>2, <2>1, <3>1, <3>4, <3>5
  <2>7. ASSUME FailAll(answer, Registered, deadlines), writing = Nobody, commands' = commands
        PROVE  Kept
    <3>1. d \notin Registered /\ answer[d] = NoAnswer
      BY <1>0, <2>5, <2>7
    <3> QED
      BY <1>2, <2>1, <2>7, <3>1, PipelineAssumption
  <2>8. CASE FailReceive
    BY <2>7, <2>8 DEF FailReceive, Desynchronize, Polling
  <2>9. CASE Stop
    BY <2>1, <2>9 DEF Stop, FuturesHoldHandles, Active
  <2>10. ASSUME NEW c \in Calls, c \in Registered, commands' = commands, writing = Nobody,
                in_flight' = [in_flight EXCEPT ![transaction[c]] = Nobody],
                d # c, answer[d] = NoAnswer
         PROVE  Kept
    <3>2. d \in Range(commands) \cup Registered
      BY <1>2, <2>1, <2>10, PipelineAssumption
    <3>3. ASSUME d \in Registered PROVE d \in Registered'
      <4>1. transaction[d] \in Tids /\ in_flight[transaction[d]] = d
        BY <3>3, RegisteredFacts
      <4>2. transaction[c] \in Tids /\ in_flight[transaction[c]] = c
        BY <2>10, RegisteredFacts
      <4>3. in_flight'[transaction[d]] = d
        BY <2>10, <4>1, <4>2 DEF TypeOK
      <4> QED
        BY <4>1, <4>3, PipelineAssumption DEF Registered
    <3> QED
      BY <2>10, <3>2, <3>3
  <2>11. ASSUME NEW r \in responses, Receive(r) PROVE Kept
    <3>1. writing = Nobody /\ commands' = commands /\ writing' = writing
      BY <2>11 DEF Receive, Polling
    <3>2. CASE Deliver(r)
      <4>1. PICK c : c = in_flight[r.tid]
        OBVIOUS
      <4>2. /\ r.tid \in Tids /\ c # Nobody
            /\ in_flight' = [in_flight EXCEPT ![r.tid] = Nobody]
            /\ answer' = Reply(answer, c, [result |-> "ok", of |-> r.of])
        BY <3>2, <4>1 DEF Deliver
      <4>3. c \in Registered /\ c \in Calls /\ transaction[c] = r.tid
        BY <4>1, <4>2 DEF Registered, TypeOK, TableKept
      <4>4. [result |-> "ok", of |-> r.of] # NoAnswer
        BY DEF NoAnswer, Failed
      <4> QED
        <5>1. in_flight' = [in_flight EXCEPT ![transaction[c]] = Nobody]
          BY <4>2, <4>3
        <5>2. d # c /\ answer[d] = NoAnswer
          BY SMTT(30), <1>0, <2>1, <4>2, <4>4, ReplyFacts
        <5> QED
          BY <2>10, <3>1, <4>3, <5>1, <5>2, Zenon
    <3>3. CASE Discard(r)
      BY <1>4, <2>1, <3>1, <3>3 DEF Discard
    <3>4. CASE Reject(r)
      BY <2>7, <3>1, <3>4 DEF Reject, Desynchronize
    <3> QED
      BY <2>11, <3>2, <3>3, <3>4 DEF Receive
  <2>12. ASSUME NEW k \in Calls, Expire(k) PROVE Kept
    <3>1. PICK c : c = in_flight[transaction[k]]
      OBVIOUS
    <3>2. writing = Nobody /\ commands' = commands /\ writing' = writing /\ k \in written
      BY <2>12 DEF Expire, Polling, TableKept
    <3>3. transaction[k] \in Tids
      BY <3>2, WrittenTids
    <3>4. Failed("timeout") \in Answers /\ Failed("timeout") # NoAnswer
      BY DEF Failed, NoAnswer, Answers, Failures
    <3>5. CASE c = Nobody
      BY <1>4, <2>1, <2>12, <3>1, <3>2, <3>5 DEF Expire
    <3>6. CASE c # Nobody /\ ~TimeoutDesyncs
      <4>1. /\ in_flight' = [in_flight EXCEPT ![transaction[k]] = Nobody]
            /\ answer' = Reply(answer, c, Failed("timeout"))
        BY <2>12, <3>1, <3>6 DEF Expire
      <4>2. c \in Registered /\ c \in Calls /\ transaction[c] = transaction[k]
        BY <3>1, <3>3, <3>6 DEF Registered, TypeOK, TableKept
      <4> QED
        <5>1. in_flight' = [in_flight EXCEPT ![transaction[c]] = Nobody]
          BY <4>1, <4>2
        <5>2. d # c /\ answer[d] = NoAnswer
          BY SMTT(30), <1>0, <2>1, <3>4, <4>1, ReplyFacts
        <5> QED
          BY <2>10, <3>2, <4>2, <5>1, <5>2, Zenon
    <3>7. CASE c # Nobody /\ TimeoutDesyncs
      <4>1. FailAll(Reply(answer, c, Failed("timeout")), Registered \ {c}, deadlines \ {k})
        BY <2>12, <3>1, <3>7, Zenon DEF Expire, Desynchronize
      <4>2. c \in Calls
        BY <3>1, <3>3, <3>7, Zenon DEF TypeOK
      <4>3. Reply(answer, c, Failed("timeout")) \in [Calls -> Answers]
        BY <1>0, <3>4, <4>2, ReplyType
      <4>4. d \notin Registered \ {c} /\ Reply(answer, c, Failed("timeout"))[d] = NoAnswer
        BY <2>5, <4>1, <4>3
      <4>5. d # c /\ answer[d] = NoAnswer
        BY SMTT(30), <1>0, <2>1, <3>4, <4>4, ReplyFacts
      <4> QED
        BY <1>2, <2>1, <3>2, <4>4, <4>5, PipelineAssumption
    <3> QED
      BY <3>5, <3>6, <3>7, PipelineAssumption
  <2> QED
    BY <1>8, <2>2, <2>3, <2>4, <2>6, <2>8, <2>9, <2>11, <2>12 DEF TaskStep
<1>9. ASSUME DropHandles \/ PeerStep PROVE Kept
  BY <1>4, <1>9, DropHandlesFrame, PeerFrame
<1>10. ASSUME UNCHANGED <<phase, answer, commands, writing, in_flight>> PROVE Kept
  BY <1>4, <1>10
<1> QED
  BY <1>5, <1>6, <1>7, <1>8, <1>9, <1>10, StepCases


\* A future panics only if its reply's sender was dropped, so not before an
\* id is reused.
LEMMA NoPanicPreserved ==
  ASSUME TypeOK, QueueKept, FuturesHoldHandles, NobodyForgotten, NoPanicBeforeReuse, [Next]_vars
  PROVE  NoPanicBeforeReuse'
<1> SUFFICES ASSUME ~reused', NEW d \in Calls, phase'[d] = "panicked" PROVE FALSE
  BY DEF NoPanicBeforeReuse, NoPanic
<1>1. ~reused
  BY ReusedKept
<1>2. phase[d] = "panicked" \/ Panic(d)
  BY PhaseFacts DEF PhaseStep
<1>3. ~Panic(d)
  BY <1>1 DEF Panic, NobodyForgotten
<1> QED
  BY <1>1, <1>2, <1>3 DEF NoPanicBeforeReuse, NoPanic

\* A new answer that is a response comes from Deliver.
LEMMA ResponseAnswers ==
  ASSUME TypeOK, QueueKept, TableKept, FuturesHoldHandles, [Next]_vars,
         NEW d \in Calls, answer'[d] # answer[d], answer'[d].result = "ok"
  PROVE  \E r \in responses : /\ Receive(r) /\ r.tid \in Tids
                              /\ in_flight[r.tid] = d /\ answer'[d].of = r.of
<1> DEFINE Delivered == \E r \in responses : /\ Receive(r) /\ r.tid \in Tids
                                             /\ in_flight[r.tid] = d /\ answer'[d].of = r.of
<1>0. answer \in [Calls -> Answers]
  BY DEF TypeOK
<1>1. /\ Failed("desynchronized").result # "ok" /\ Failed("transport").result # "ok"
      /\ Failed("timeout").result # "ok"
  BY DEF Failed
<1>2. ASSUME NEW c \in Calls, Polls(c) PROVE FALSE
  BY <1>2, PollsAnswers
<1>3. TaskStep
  BY <1>2, StepCases, AllocateFrame, EnqueueFrame, DropHandlesFrame, PeerFrame
<1>4. phase' = phase
  BY <1>3, TaskFrame
<1>5. ~RefuseCommand
  <2> SUFFICES ASSUME RefuseCommand PROVE FALSE
    OBVIOUS
  <2>1. answer' = Reply(answer, Head(commands), Failed("desynchronized"))
    BY DEF RefuseCommand
  <2> QED
    BY SMTT(30), <1>0, <1>1, <2>1, ReplyFacts
<1>6. ~StartWrite /\ ~FinishWrite /\ ~Stop
  BY Zenon DEF StartWrite, FinishWrite, Stop, callVars
<1>7. ASSUME NEW ans \in [Calls -> Answers], NEW R, NEW P, FailAll(ans, R, P)
      PROVE  answer'[d] = ans[d]
  BY <1>1, <1>7, FailAllAnswers
<1>8. ~FailReceive
  BY <1>0, <1>7 DEF FailReceive, Desynchronize
<1>9. ~FailWrite
  <2> SUFFICES ASSUME FailWrite PROVE FALSE
    OBVIOUS
  <2>1. FailAll(Reply(answer, writing, Failed("transport")), Registered, deadlines)
    BY DEF FailWrite, Desynchronize
  <2>2. Failed("transport") \in Answers
    BY DEF Failed, Answers, Failures
  <2>3. Reply(answer, writing, Failed("transport")) \in [Calls -> Answers]
    BY <1>0, <2>2, ReplyType
  <2>4. answer'[d] = Reply(answer, writing, Failed("transport"))[d]
    BY <1>7, <2>1, <2>3
  <2> QED
    BY SMTT(30), <1>0, <1>1, <2>4, ReplyFacts
<1>10. ASSUME NEW k \in Calls, Expire(k) PROVE FALSE
  <2>1. PICK c : c = in_flight[transaction[k]]
    OBVIOUS
  <2>2. Failed("timeout") \in Answers
    BY DEF Failed, Answers, Failures
  <2>3. Reply(answer, c, Failed("timeout")) \in [Calls -> Answers]
    BY <1>0, <2>2, ReplyType
  <2>4. \/ answer' = answer
        \/ answer' = Reply(answer, c, Failed("timeout"))
        \/ FailAll(Reply(answer, c, Failed("timeout")), Registered \ {c}, deadlines \ {k})
    BY <1>10, <2>1 DEF Expire, Desynchronize
  <2>5. answer'[d] = Reply(answer, c, Failed("timeout"))[d]
    BY <1>7, <2>3, <2>4
  <2> QED
    BY SMTT(30), <1>0, <1>1, <2>5, ReplyFacts
<1>11. ASSUME NEW r \in responses, Receive(r) PROVE Delivered
  <2>1. ~Discard(r)
    BY DEF Discard
  <2>2. ~Reject(r)
    BY <1>0, <1>7 DEF Reject, Desynchronize
  <2>3. PICK c : c = in_flight[r.tid]
    OBVIOUS
  <2>4. /\ r.tid \in Tids
        /\ answer' = Reply(answer, c, [result |-> "ok", of |-> r.of])
    <3>1. Deliver(r)
      BY <1>11, <2>1, <2>2, Zenon DEF Receive
    <3> QED
      BY <2>3, <3>1 DEF Deliver
  <2>5. d = c /\ answer'[d] = [result |-> "ok", of |-> r.of]
    BY SMTT(30), <1>0, <2>4, ReplyFacts
  <2> QED
    BY SMTT(30), <1>11, <2>3, <2>4, <2>5
<1> QED
  BY <1>3, <1>5, <1>6, <1>8, <1>9, <1>10, <1>11 DEF TaskStep

\* A response found under an id is the response to the request registered
\* there, as long as no two requests have had that id.
LEMMA OwnResponsePreserved ==
  ASSUME TypeOK, QueueKept, TableKept, WireKept, FreshIds, FuturesHoldHandles, OwnResponse,
         [Next]_vars
  PROVE  OwnResponse'
<1> SUFFICES ASSUME ~reused', NEW d \in Calls, answer'[d].result = "ok"
             PROVE  answer'[d].of \in {d, Nobody}
  BY DEF OwnResponse
<1>1. ~reused
  BY ReusedKept
<1>2. CASE answer'[d] = answer[d]
  BY <1>1, <1>2 DEF OwnResponse
<1>3. CASE answer'[d] # answer[d]
  <2>1. PICK r \in responses : r.tid \in Tids /\ in_flight[r.tid] = d /\ answer'[d].of = r.of
    BY <1>3, ResponseAnswers
  <2>2. transaction[d] = r.tid /\ r.tid # 0
    BY SMTT(30), <2>1, PipelineAssumption DEF TableKept, Tids
  <2>3. ASSUME r.of # Nobody PROVE r.of = d
    <3>1. r.of \in Calls /\ transaction[r.of] = r.tid
      BY <2>3 DEF WireKept, TypeOK
    <3> QED
      BY <1>1, <2>2, <3>1 DEF FreshIds
  <2> QED
    BY <2>1, <2>3
<1> QED
  BY <1>2, <1>3

-----------------------------------------------------------------------------
(* The inductive invariant and what it gives.                               *)

IInv ==
  /\ TypeOK /\ Bookkeeping /\ TimersMatchEntries /\ DesyncLeavesNothing
  /\ TaskOutlivesCalls /\ NoPanicBeforeReuse /\ OwnResponse

\* A new pipeline satisfies the invariant.
LEMMA InvariantInitially == Init => IInv
<1> SUFFICES ASSUME Init PROVE IInv
  OBVIOUS
<1>1. TypeOK
  BY TypesInitially
<1>2. Range(<<>>) = {} /\ IsInjective(<<>>)
  BY DEF Range, IsInjective
<1>3. Registered = {}
  BY DEF Init, Registered
<1>4. QueueKept /\ NumbersKept /\ RequestsKept
  BY <1>2 DEF Init, QueueKept, NumbersKept, RequestsKept
<1>5. TableKept /\ WireKept /\ FreshIds
  BY DEF Init, TableKept, WireKept, FreshIds
<1>6. NobodyForgotten /\ FuturesHoldHandles /\ TaskOutlivesCalls
  BY DEF Init, NobodyForgotten, FuturesHoldHandles, TaskOutlivesCalls
<1>7. TimersMatchEntries /\ DesyncLeavesNothing
  BY <1>3 DEF Init, TimersMatchEntries, DesyncLeavesNothing
<1>8. NoPanicBeforeReuse /\ OwnResponse
  BY DEF Init, NoPanicBeforeReuse, NoPanic, OwnResponse, NoAnswer, Failed
<1> QED
  BY <1>1, <1>4, <1>5, <1>6, <1>7, <1>8 DEF IInv, Bookkeeping

\* Every step preserves the invariant.
LEMMA InvariantPreserved == IInv /\ [Next]_vars => IInv'
<1> SUFFICES ASSUME TypeOK, Bookkeeping, TimersMatchEntries, DesyncLeavesNothing,
                    TaskOutlivesCalls, NoPanicBeforeReuse, OwnResponse, [Next]_vars
             PROVE  IInv'
  BY DEF IInv
<1>1. /\ QueueKept /\ NumbersKept /\ RequestsKept /\ TableKept /\ WireKept
      /\ FreshIds /\ NobodyForgotten /\ FuturesHoldHandles
  BY DEF Bookkeeping
<1>2. TypeOK'
  BY TypesPreserved
<1>3. QueueKept' /\ NumbersKept' /\ RequestsKept'
  BY <1>1, PhaseFacts, NumbersPreserved, RequestsPreserved
<1>4. TableKept' /\ WireKept' /\ FreshIds'
  BY <1>1, TablePreserved, WirePreserved, FreshIdsPreserved
<1>5. NobodyForgotten' /\ FuturesHoldHandles' /\ TaskOutlivesCalls'
  BY <1>1, ForgottenPreserved, HandlesPreserved
<1>6. TimersMatchEntries' /\ DesyncLeavesNothing'
  BY <1>1, TimersPreserved, DesyncPreserved
<1>7. NoPanicBeforeReuse' /\ OwnResponse'
  BY <1>1, NoPanicPreserved, OwnResponsePreserved
<1> QED
  BY <1>2, <1>3, <1>4, <1>5, <1>6, <1>7 DEF IInv, Bookkeeping

\* The bookkeeping of the pipeline is kept in every reachable state.
THEOREM BookkeepingHolds == Spec => []IInv
BY InvariantInitially, InvariantPreserved, PTL DEF Spec

\* The expect on the reply channel in dispatch never fails before an id is
\* handed out twice: every request's sender stays in the command channel, the
\* write in progress or the table until the request is answered.
THEOREM NobodyPanics == Spec => []NoPanicBeforeReuse
<1>1. IInv => NoPanicBeforeReuse
  BY DEF IInv
<1> QED
  BY <1>1, BookkeepingHolds, PTL

\* Responses are dispatched to the requests they answer, in whatever order,
\* number and delay they arrive, until an id is handed out twice.
THEOREM DispatchIsExact == Spec => []OwnResponse
<1>1. IInv => OwnResponse
  BY DEF IInv
<1> QED
  BY <1>1, BookkeepingHolds, PTL

\* deadlines.remove never meets a missing key, and no timer outlives its
\* request before an id is reused.
THEOREM TimersAreExact == Spec => []TimersMatchEntries
<1>1. IInv => TimersMatchEntries
  BY DEF IInv
<1> QED
  BY <1>1, BookkeepingHolds, PTL

\* After desynchronization nothing is outstanding (CL-R-090).
THEOREM DesyncIsClean == Spec => []DesyncLeavesNothing
<1>1. IInv => DesyncLeavesNothing
  BY DEF IInv
<1> QED
  BY <1>1, BookkeepingHolds, PTL

\* The expect on command_tx.send never fails: the task outlives the futures.
THEOREM TaskIsThere == Spec => []TaskOutlivesCalls
<1>1. IInv => TaskOutlivesCalls
  BY DEF IInv
<1> QED
  BY <1>1, BookkeepingHolds, PTL


\* A step of a desynchronized pipeline leaves it desynchronized and writes nothing.
LEMMA DesyncKept ==
  ASSUME TypeOK, [Next]_vars, desynchronized
  PROVE  desynchronized' /\ written' = written
<1>1. ~StartWrite
  BY DEF StartWrite
<1>2. written' = written
  <2>1. \A c \in Calls : Enqueue(c) => written' = written
    BY Zenon, EnqueueFrame
  <2>2. RefuseCommand => written' = written
    BY DEF RefuseCommand, taskVars
  <2> QED
    BY <1>1, <2>1, <2>2, CommandFacts
<1>3. desynchronized'
  <2>1. FinishWrite \/ Stop => desynchronized'
    BY Zenon DEF FinishWrite, Stop
  <2>2. FailWrite \/ FailReceive => desynchronized'
    BY DEF FailWrite, FailReceive, Desynchronize
  <2>3. \A r \in responses : Receive(r) => desynchronized'
    BY Zenon DEF Receive, Deliver, Discard, Reject, Desynchronize
  <2>4. \A k \in Calls : Expire(k) => desynchronized'
    BY Zenon DEF Expire, Desynchronize
  <2> QED
    BY <1>1, <2>1, <2>2, <2>3, <2>4, TableCases, Zenon
<1> QED
  BY <1>2, <1>3

\* Desynchronization is permanent and ends all writing (CL-R-090, CL-R-092).
THEOREM DesyncIsForever == Spec => DesyncIsFinal
<1>1. TypeOK /\ [Next]_vars =>
        [desynchronized => desynchronized' /\ written' = written]_vars
  BY DesyncKept
<1> QED
  BY <1>1, TypeCorrect, PTL DEF Spec, DesyncIsFinal

\* A late or repeated response to an own request is never taken for a
\* response nobody asked for (CL-R-088): its id was recorded as issued before
\* the request could reach the peer.
THEOREM LateResponsesAreHarmless == Spec => OwnResponseNeverRejected
<1>1. ASSUME TypeOK, RequestsKept, WireKept, [Next]_vars,
             NEW r \in responses \ responses', r.of # Nobody
      PROVE  desynchronized' = desynchronized
  <2>1. \E q \in responses : Receive(q)
    <3>1. PeerStep => responses \subseteq responses'
      BY DEF PeerStep, PeerAnswer, PeerStray, Break
    <3>2. TaskStep
      BY <1>1, <3>1, StepCases, PollsFrame, AllocateFrame, EnqueueFrame, DropHandlesFrame
    <3>3. RefuseCommand \/ StartWrite \/ FinishWrite => responses' = responses
      BY DEF RefuseCommand, StartWrite, FinishWrite, wireVars
    <3>4. FailWrite \/ FailReceive \/ Stop => responses' = responses
      BY DEF FailWrite, FailReceive, Stop, wireVars
    <3>5. \A k \in Calls : Expire(k) => responses' = responses
      BY DEF Expire, wireVars
    <3> QED
      BY <1>1, <3>2, <3>3, <3>4, <3>5 DEF TaskStep
  <2>2. PICK q \in responses : Receive(q)
    BY <2>1
  <2>3. q = r
    BY <1>1, <2>2 DEF Receive
  <2>4. r.tid \in issued
    BY <1>1 DEF WireKept, RequestsKept
  <2>5. ~Reject(r)
    BY <2>4 DEF Reject
  <2> QED
    BY <2>2, <2>3, <2>5 DEF Receive, Deliver, Discard
<1>2. IInv => TypeOK /\ RequestsKept /\ WireKept
  BY DEF IInv, Bookkeeping
<1>3. IInv /\ [Next]_vars =>
        [\A r \in responses \ responses' : r.of # Nobody => desynchronized' = desynchronized]_vars
  BY <1>1, <1>2
<1> QED
  BY <1>3, BookkeepingHolds, PTL DEF Spec, OwnResponseNeverRejected

\* A timeout costs one request on UDP (CL-R-091) and the whole connection on
\* TCP, where every other request fails in the same step (CL-R-090).
THEOREM TimeoutsAreContained == Spec => TimeoutScope
<1>1. ASSUME TypeOK, QueueKept, TableKept, FuturesHoldHandles, [Next]_vars, NEW c \in Calls,
             answer[c] = NoAnswer, answer'[c] = Failed("timeout")
      PROVE  IF TimeoutDesyncs
               THEN /\ desynchronized'
                    /\ \A d \in Registered \ {c} :
                         phase[d] = "awaiting" => answer'[d] = Failed("desynchronized")
               ELSE /\ desynchronized' = desynchronized
                    /\ \A d \in Calls \ {c} : answer'[d] = answer[d]
  <2>1. answer \in [Calls -> Answers] /\ Registered \subseteq Calls
    BY <1>1, RegisteredFacts DEF TypeOK
  <2>2. /\ Failed("timeout") # NoAnswer /\ Failed("timeout") # Failed("transport")
        /\ Failed("timeout") # Failed("desynchronized") /\ Failed("timeout") \in Answers
        /\ Failed("timeout") # Failed("too_many") /\ Failed("transport") \in Answers
    BY DEF Failed, NoAnswer, Answers, Failures
  <2>3. PICK k \in Calls : Expire(k)
    <3>1. ASSUME NEW ans \in [Calls -> Answers], NEW R, NEW P, FailAll(ans, R, P)
          PROVE  answer'[c] = ans[c]
      <4>1. answer'[c] = IF c \in R /\ phase[c] = "awaiting"
                           THEN Failed("desynchronized") ELSE ans[c]
        BY <3>1, FailAllAnswers, Zenon
      <4> QED
        BY <1>1, <2>2, <4>1, Zenon
    <3>2. ASSUME NEW d \in Calls, Polls(d) PROVE FALSE
      BY <1>1, <2>2, <3>2, Zenon DEF Polls, Send, TrySend, Cancel, CheckUsable, Resolve, Panic, TypeOK
    <3>3. ~RefuseCommand
      <4> SUFFICES ASSUME RefuseCommand PROVE FALSE
        OBVIOUS
      <4>1. answer' = Reply(answer, Head(commands), Failed("desynchronized"))
        BY Zenon DEF RefuseCommand
      <4>2. answer'[c] = IF c = Head(commands) /\ phase[c] = "awaiting"
                           THEN Failed("desynchronized") ELSE answer[c]
        BY SMTT(30), <2>1, <4>1, ReplyFacts
      <4> QED
        BY <1>1, <2>2, <4>2, Zenon
    <3>4. ~StartWrite /\ ~FinishWrite /\ ~Stop
      BY <1>1, <2>2 DEF StartWrite, FinishWrite, Stop, callVars
    <3>5. ~FailReceive
      BY <1>1, <2>1, <2>2, <3>1 DEF FailReceive, Desynchronize
    <3>6. ~FailWrite
      <4> SUFFICES ASSUME FailWrite PROVE FALSE
        OBVIOUS
      <4>1. FailAll(Reply(answer, writing, Failed("transport")), Registered, deadlines)
        BY DEF FailWrite, Desynchronize
      <4>2. Reply(answer, writing, Failed("transport")) \in [Calls -> Answers]
        BY <2>1, <2>2, ReplyType
      <4>3. answer'[c] = Reply(answer, writing, Failed("transport"))[c]
        BY <3>1, <4>1, <4>2
      <4> QED
        BY SMTT(30), <1>1, <2>1, <2>2, <4>3, ReplyFacts
    <3>7. ASSUME NEW r \in responses, Receive(r) PROVE FALSE
      <4>1. ~Discard(r) /\ ~Reject(r)
        BY <1>1, <2>1, <2>2, <3>1 DEF Discard, Reject, Desynchronize
      <4>2. answer' = Reply(answer, in_flight[r.tid], [result |-> "ok", of |-> r.of])
        BY <3>7, <4>1 DEF Receive, Deliver
      <4>3. [result |-> "ok", of |-> r.of] # Failed("timeout")
        BY DEF Failed
      <4> QED
        BY SMTT(30), <1>1, <2>1, <2>2, <4>2, <4>3, ReplyFacts
    <3>8. answer' # answer
      BY <1>1, <2>2
    <3>9. TaskStep
      BY <1>1, <3>2, <3>8, StepCases, AllocateFrame, EnqueueFrame, DropHandlesFrame, PeerFrame,
         Zenon
    <3> QED
      BY <3>3, <3>4, <3>5, <3>6, <3>7, <3>9, Zenon DEF TaskStep
  <2>4. PICK e : e = in_flight[transaction[k]]
    OBVIOUS
  <2>5. e # Nobody
    BY <1>1, <2>2, <2>3, <2>4, Zenon DEF Expire
  <2>6. CASE ~TimeoutDesyncs
    <3>1. answer' = Reply(answer, e, Failed("timeout")) /\ desynchronized' = desynchronized
      BY <2>3, <2>4, <2>5, <2>6 DEF Expire
    <3>2. \A d \in Calls \ {e} : answer'[d] = answer[d]
      BY SMTT(30), <2>1, <3>1, ReplyFacts
    <3>3. c = e
      BY <1>1, <2>2, <3>2
    <3> QED
      BY <2>6, <3>1, <3>2, <3>3
  <2>7. CASE TimeoutDesyncs
    <3>1. /\ desynchronized'
          /\ FailAll(Reply(answer, e, Failed("timeout")), Registered \ {e}, deadlines \ {k})
      BY <2>3, <2>4, <2>5, <2>7 DEF Expire, Desynchronize
    <3>2. Reply(answer, e, Failed("timeout")) \in [Calls -> Answers]
      BY <2>1, <2>2, ReplyType
    <3>3. \A d \in Calls \ {e} : Reply(answer, e, Failed("timeout"))[d] = answer[d]
      BY SMTT(30), <2>1, ReplyFacts
    <3>4. \A d \in Calls : answer'[d] = IF d \in Registered \ {e} /\ phase[d] = "awaiting"
                                          THEN Failed("desynchronized")
                                          ELSE Reply(answer, e, Failed("timeout"))[d]
      BY <3>1, <3>2, FailAllAnswers
    <3>5. c = e
      BY <1>1, <2>2, <3>3, <3>4
    <3> QED
      BY <2>1, <2>7, <3>1, <3>4, <3>5
  <2> QED
    BY <2>6, <2>7, PipelineAssumption
<1>2. IInv => TypeOK /\ QueueKept /\ TableKept /\ FuturesHoldHandles
  BY DEF IInv, Bookkeeping
<1>3. IInv /\ [Next]_vars =>
        [\A c \in Calls : answer[c] = NoAnswer /\ answer'[c] = Failed("timeout") =>
           IF TimeoutDesyncs
             THEN /\ desynchronized'
                  /\ \A d \in Registered \ {c} :
                       phase[d] = "awaiting" => answer'[d] = Failed("desynchronized")
             ELSE /\ desynchronized' = desynchronized
                  /\ \A d \in Calls \ {c} : answer'[d] = answer[d]]_vars
  BY <1>1, <1>2
<1> QED
  BY <1>3, BookkeepingHolds, PTL DEF Spec, TimeoutScope

-----------------------------------------------------------------------------
(* A reply's sender is used once.                                           *)

\* The task takes over no sender but the one a future hands it, and parts with the sender of a
\* request it answers.
LEMMA TaskAnswers ==
  ASSUME TypeOK, QueueKept, RequestsKept, TableKept, FuturesHoldHandles, HeldOnce, TaskStep
  PROVE  /\ Held' \subseteq Held
         /\ IsInjective(commands') /\ Range(commands') \cap written' = {}
         /\ writing' \notin Registered'
         /\ \A d \in Calls : answer'[d] # answer[d] =>
              phase[d] = "awaiting" /\ d \in Held /\ d \notin Held'
<1> DEFINE Goal == /\ Held' \subseteq Held
                   /\ IsInjective(commands') /\ Range(commands') \cap written' = {}
                   /\ writing' \notin Registered'
                   /\ \A d \in Calls : answer'[d] # answer[d] =>
                        phase[d] = "awaiting" /\ d \in Held /\ d \notin Held'
<1>0. /\ answer \in [Calls -> Answers] /\ commands \in Seq(Calls)
      /\ Registered \subseteq written /\ Registered \subseteq Calls /\ written \subseteq Calls
      /\ Nobody \notin Calls /\ writing \in Calls \cup {Nobody}
  BY RegisteredFacts, PipelineAssumption DEF TypeOK
<1>1. IsInjective(commands) /\ Range(commands) \cap written = {} /\ writing \notin Registered
  BY DEF HeldOnce
<1>2. writing # Nobody => writing \in written /\ writing \notin Range(commands)
  BY <1>1 DEF RequestsKept
<1>3. ASSUME commands # <<>>
      PROVE  /\ Head(commands) \in Calls /\ Head(commands) \notin written
             /\ Range(commands) = Range(Tail(commands)) \cup {Head(commands)}
             /\ IsInjective(Tail(commands)) /\ Head(commands) \notin Range(Tail(commands))
             /\ Range(Tail(commands)) \cap written = {}
  BY <1>0, <1>1, <1>3, TailFacts
<1>4. CASE RefuseCommand
  <2>1. /\ commands # <<>> /\ commands' = Tail(commands) /\ UNCHANGED taskVars
        /\ answer' = Reply(answer, Head(commands), Failed("desynchronized"))
    BY <1>4 DEF RefuseCommand
  <2>2. Registered' = Registered /\ writing' = writing /\ written' = written
    BY <2>1 DEF taskVars, Registered
  <2>3. \A d \in Calls : answer'[d] # answer[d] => d = Head(commands) /\ phase[d] = "awaiting"
    BY SMTT(30), <1>0, <2>1, ReplyFacts
  <2>4. Head(commands) \in Held /\ Head(commands) \notin Held'
    BY <1>0, <1>2, <1>3, <2>1, <2>2 DEF Held
  <2>5. Held' \subseteq Held
    BY <1>3, <2>1, <2>2 DEF Held
  <2> QED
    BY <1>1, <1>3, <2>1, <2>2, <2>3, <2>4, <2>5
<1>5. CASE StartWrite
  <2>1. /\ commands # <<>> /\ commands' = Tail(commands) /\ writing' = Head(commands)
        /\ written' = written \cup {Head(commands)} /\ answer' = answer /\ in_flight' = in_flight
    BY <1>5 DEF StartWrite, callVars
  <2>2. Registered' = Registered
    BY <2>1 DEF Registered
  <2>3. Held' \subseteq Held
    BY <1>3, <2>1, <2>2 DEF Held
  <2> QED
    BY <1>0, <1>3, <2>1, <2>2, <2>3
<1>6. CASE FinishWrite
  <2>1. /\ writing # Nobody /\ writing' = Nobody /\ answer' = answer
        /\ in_flight' = [in_flight EXCEPT ![transaction[writing]] = writing]
        /\ commands' = commands /\ written' = written
    BY <1>6 DEF FinishWrite, callVars
  <2>2. Registered' \subseteq Registered \cup {writing} /\ Nobody \notin Registered'
    BY <2>1 DEF Registered, TypeOK
  <2>3. Held' \subseteq Held
    BY <2>1, <2>2 DEF Held
  <2> QED
    BY <1>1, <2>1, <2>2, <2>3
<1>7. CASE Stop
  <2>1. /\ answer' = answer /\ in_flight' = [t \in Tids |-> Nobody]
        /\ commands' = commands /\ written' = written /\ writing' = writing
    BY <1>7 DEF Stop, callVars
  <2>2. Registered' = {}
    BY <2>1 DEF Registered
  <2>3. Held' \subseteq Held
    BY <2>1, <2>2 DEF Held
  <2> QED
    BY <1>1, <2>1, <2>2, <2>3
<1>8. ASSUME NEW c, NEW a \in Answers, NEW R \in SUBSET Registered, NEW P,
             FailAll(Reply(answer, c, a), R, P), c \in Registered \cup {writing},
             commands' = commands, written' = written, writing' = Nobody
      PROVE  Goal
  <2>1. Registered' = {}
    BY <1>8, FailAllFacts
  <2>2. Reply(answer, c, a) \in [Calls -> Answers]
    BY <1>0, <1>8, ReplyType
  <2>3. \A d \in Calls : answer'[d] # answer[d] => phase[d] = "awaiting" /\ d \in R \cup {c}
    BY SMTT(30), <1>0, <1>8, <2>2, FailAllAnswers, ReplyFacts
  <2>4. Held' = Range(commands) /\ Held' \subseteq Held
    BY <1>8, <2>1 DEF Held
  <2>5. \A d \in Calls : d \in R \cup {c} => d \in Held /\ d \notin Held'
    BY SMTT(30), <1>0, <1>1, <1>2, <1>8, <2>4 DEF Held
  <2> QED
    BY <1>1, <1>8, <2>1, <2>3, <2>4, <2>5
<1>9. ASSUME FailAll(answer, Registered, deadlines), writing = Nobody,
             commands' = commands, written' = written, writing' = writing
      PROVE  Goal
  <2>1. Registered' = {}
    BY <1>9, FailAllFacts
  <2>2. \A d \in Calls : answer'[d] # answer[d] => phase[d] = "awaiting" /\ d \in Registered
    BY <1>9, FailAllAnswers
  <2>3. Held' = Range(commands) /\ Held' \subseteq Held
    BY <1>9, <2>1 DEF Held
  <2>4. \A d \in Registered : d \in Held /\ d \notin Held'
    BY <1>0, <1>1, <2>3 DEF Held
  <2> QED
    BY <1>1, <1>9, <2>1, <2>2, <2>3, <2>4
<1>10. CASE FailWrite
  <2>1. /\ writing # Nobody /\ writing' = Nobody /\ commands' = commands /\ written' = written
        /\ FailAll(Reply(answer, writing, Failed("transport")), Registered, deadlines)
    BY <1>10 DEF FailWrite, Desynchronize
  <2>2. Failed("transport") \in Answers
    BY DEF Failed, Answers, Failures
  <2> QED
    BY <1>8, <2>1, <2>2
<1>11. CASE FailReceive
  BY <1>9, <1>11 DEF FailReceive, Desynchronize, Polling
<1>12. ASSUME NEW c \in Calls, NEW a \in Answers, c \in Registered,
              in_flight' = [in_flight EXCEPT ![transaction[c]] = Nobody],
              answer' = Reply(answer, c, a), writing = Nobody,
              commands' = commands, written' = written, writing' = writing
       PROVE  Goal
  <2>1. transaction[c] \in Tids /\ \A t \in Tids : in_flight[t] = c => t = transaction[c]
    BY <1>12, RegisteredFacts, PipelineAssumption DEF TableKept
  <2>2. c \notin Registered' /\ Registered' \subseteq Registered
    BY <1>12, <2>1, PipelineAssumption DEF Registered, TypeOK
  <2>3. \A d \in Calls : answer'[d] # answer[d] => d = c /\ phase[d] = "awaiting"
    BY SMTT(30), <1>0, <1>12, ReplyFacts
  <2>4. Held' \subseteq Held
    BY <1>12, <2>2 DEF Held
  <2>5. c \in Held /\ c \notin Held'
    BY <1>0, <1>1, <1>12, <2>2 DEF Held
  <2> QED
    BY <1>0, <1>1, <1>12, <2>2, <2>3, <2>4, <2>5
<1>13. ASSUME answer' = answer, in_flight' = in_flight, commands' = commands, written' = written,
              writing' = writing
       PROVE  Goal
  <2>1. Registered' = Registered
    BY <1>13 DEF Registered
  <2>2. Held' = Held
    BY <1>13, <2>1 DEF Held
  <2> QED
    BY <1>1, <1>13, <2>1, <2>2
<1>14. ASSUME NEW r \in responses, Receive(r) PROVE Goal
  <2>1. writing = Nobody /\ commands' = commands /\ written' = written /\ writing' = writing
    BY <1>14 DEF Receive, Polling
  <2>2. CASE Deliver(r)
    <3>1. PICK c : c = in_flight[r.tid]
      OBVIOUS
    <3>2. /\ r.tid \in Tids /\ c # Nobody
          /\ in_flight' = [in_flight EXCEPT ![r.tid] = Nobody]
          /\ answer' = Reply(answer, c, [result |-> "ok", of |-> r.of])
      BY <2>2, <3>1 DEF Deliver
    <3>3. c \in Registered /\ c \in Calls /\ transaction[c] = r.tid
      BY <3>1, <3>2 DEF Registered, TypeOK, TableKept
    <3>4. [result |-> "ok", of |-> r.of] \in Answers
      <4>1. r.of \in Calls \cup {Nobody}
        BY DEF TypeOK, Responses
      <4> QED
        BY <4>1 DEF Answers
    <3> QED
      BY Zenon, <1>12, <2>1, <3>2, <3>3, <3>4
  <2>3. CASE Discard(r)
    BY <1>13, <2>1, <2>3 DEF Discard
  <2>4. CASE Reject(r)
    BY <1>9, <2>1, <2>4 DEF Reject, Desynchronize
  <2> QED
    BY <1>14, <2>2, <2>3, <2>4 DEF Receive
<1>15. ASSUME NEW k \in Calls, Expire(k) PROVE Goal
  <2>1. PICK c : c = in_flight[transaction[k]]
    OBVIOUS
  <2>2. /\ writing = Nobody /\ commands' = commands /\ written' = written /\ writing' = writing
        /\ k \in written
    BY <1>15 DEF Expire, Polling, TableKept
  <2>3. transaction[k] \in Tids
    BY <2>2, WrittenTids
  <2>4. Failed("timeout") \in Answers
    BY DEF Failed, Answers, Failures
  <2>5. CASE c = Nobody
    <3>1. UNCHANGED <<answer, in_flight>>
      BY <1>15, <2>1, <2>5 DEF Expire
    <3> QED
      BY <1>13, <2>2, <3>1
  <2>6. ASSUME c # Nobody PROVE c \in Registered /\ c \in Calls /\ transaction[c] = transaction[k]
    BY <2>1, <2>3, <2>6 DEF Registered, TypeOK, TableKept
  <2>7. CASE c # Nobody /\ ~TimeoutDesyncs
    <3>1. /\ in_flight' = [in_flight EXCEPT ![transaction[k]] = Nobody]
          /\ answer' = Reply(answer, c, Failed("timeout"))
      BY <1>15, <2>1, <2>7 DEF Expire
    <3>2. in_flight' = [in_flight EXCEPT ![transaction[c]] = Nobody]
      BY Zenon, <2>6, <2>7, <3>1
    <3> QED
      BY Zenon, <1>12, <2>2, <2>4, <2>6, <2>7, <3>1, <3>2
  <2>8. CASE c # Nobody /\ TimeoutDesyncs
    <3>1. FailAll(Reply(answer, c, Failed("timeout")), Registered \ {c}, deadlines \ {k})
      BY <1>15, <2>1, <2>8, Zenon DEF Expire, Desynchronize
    <3> QED
      BY <1>8, <2>2, <2>4, <2>6, <2>8, <3>1
  <2> QED
    BY <2>5, <2>7, <2>8, PipelineAssumption
<1> QED
  BY <1>4, <1>5, <1>6, <1>7, <1>10, <1>11, <1>14, <1>15 DEF TaskStep

\* Polling a future moves its own phase, and hands its permit to a queued one.
LEMMA PollsPhases ==
  ASSUME TypeOK, QueueKept, FuturesHoldHandles, NEW c \in Calls, Polls(c)
  PROVE  \A d \in Calls \ {c} : \/ phase'[d] = phase[d]
                                \/ phase[d] = "queued" /\ phase'[d] = "assigned"
<1> DEFINE Goal == \A d \in Calls \ {c} : \/ phase'[d] = phase[d]
                                          \/ phase[d] = "queued" /\ phase'[d] = "assigned"
<1>1. ASSUME NEW p \in Phases, phase' = [phase EXCEPT ![c] = p] PROVE Goal
  BY <1>1 DEF TypeOK
<1>2. ASSUME NEW p \in Phases, phase[c] \in {"assigned", "admitted", "awaiting"},
             ReleasePermit(c, p)
      PROVE  Goal
  <2>1. Active(c) /\ phase[c] # "queued"
    BY <1>2 DEF Active
  <2> QED
    BY <1>2, <2>1, ReleaseFacts
<1>3. CASE Send(c) \/ TrySend(c)
  BY <1>1, <1>3 DEF Send, TrySend, Phases
<1>4. CASE Cancel(c)
  BY <1>1, <1>2, <1>4 DEF Cancel, Phases
<1>5. CASE CheckUsable(c)
  BY <1>1, <1>2, <1>5 DEF CheckUsable, Phases
<1>6. CASE Resolve(c) \/ Panic(c)
  BY <1>2, <1>6 DEF Resolve, Panic, Phases
<1> QED
  BY <1>3, <1>4, <1>5, <1>6 DEF Polls

\* What polling a future means to its caller: it begins, is refused, is dropped, learns its answer,
\* finds its sender gone, or goes on.
LEMMA PollsOutcome ==
  ASSUME TypeOK, QueueKept, FuturesHoldHandles, NEW c \in Calls, Polls(c)
  PROVE  \/ /\ phase[c] = "idle"
            /\ \/ phase'[c] \in {"admitted", "queued"} /\ answer'[c] = answer[c]
               \/ phase'[c] = "done" /\ answer'[c] = Failed("too_many")
         \/ phase[c] \in {"queued", "assigned", "awaiting"} /\ phase'[c] = "cancelled"
         \/ /\ phase[c] \in {"assigned", "admitted"}
            /\ \/ phase'[c] = "done" /\ answer'[c] = Failed("desynchronized")
               \/ phase'[c] = "checked" /\ answer'[c] = answer[c]
         \/ /\ phase[c] = "awaiting" /\ phase'[c] = "done"
            /\ answer[c] # NoAnswer /\ answer'[c] = answer[c]
         \/ Panic(c) /\ phase'[c] = "panicked"
<1>1. ASSUME NEW p \in Phases, phase[c] \in {"assigned", "admitted", "awaiting"},
             ReleasePermit(c, p)
      PROVE  phase'[c] = p
  BY <1>1, ReleaseFacts DEF Active
<1>2. CASE Send(c)
  BY <1>2 DEF Send, TypeOK
<1>3. CASE TrySend(c)
  BY <1>3 DEF TrySend, TypeOK
<1>4. CASE Cancel(c)
  <2>1. phase[c] \in {"queued", "assigned", "awaiting"}
    BY <1>4 DEF Cancel
  <2>2. phase'[c] = "cancelled"
    BY <1>1, <1>4 DEF Cancel, Phases, TypeOK
  <2> QED
    BY <2>1, <2>2
<1>5. CASE CheckUsable(c)
  <2>1. CASE desynchronized
    <3>1. /\ phase[c] \in {"assigned", "admitted"} /\ ReleasePermit(c, "done")
          /\ answer' = [answer EXCEPT ![c] = Failed("desynchronized")]
      BY <1>5, <2>1 DEF CheckUsable
    <3> QED
      BY <1>1, <3>1 DEF Phases, TypeOK
  <2>2. CASE ~desynchronized
    <3>1. /\ phase[c] \in {"assigned", "admitted"} /\ phase' = [phase EXCEPT ![c] = "checked"]
          /\ answer' = answer
      BY <1>5, <2>2 DEF CheckUsable
    <3> QED
      BY <3>1 DEF TypeOK
  <2> QED
    BY <2>1, <2>2
<1>6. CASE Resolve(c)
  <2>1. /\ phase[c] = "awaiting" /\ answer[c] # NoAnswer /\ answer' = answer
        /\ ReleasePermit(c, "done")
    BY <1>6 DEF Resolve
  <2> QED
    BY <1>1, <2>1 DEF Phases
<1>7. CASE Panic(c)
  <2>1. phase[c] = "awaiting" /\ ReleasePermit(c, "panicked")
    BY <1>7 DEF Panic
  <2> QED
    BY <1>1, <1>7, <2>1 DEF Phases
<1> QED
  BY <1>2, <1>3, <1>4, <1>5, <1>6, <1>7 DEF Polls

LEMMA HeldOnceInitially == ASSUME Init PROVE HeldOnce
<1>1. Range(<<>>) = {} /\ IsInjective(<<>>)
  BY SMTT(30) DEF Range, IsInjective
<1>2. Registered = {}
  BY DEF Init, Registered
<1>3. Held = {}
  BY <1>1, <1>2 DEF Init, Held
<1> QED
  BY <1>1, <1>2, <1>3 DEF Init, HeldOnce

\* The task holds each sender once, until it answers.
LEMMA HeldOncePreserved ==
  ASSUME TypeOK, QueueKept, RequestsKept, TableKept, FuturesHoldHandles, HeldOnce, [Next]_vars
  PROVE  HeldOnce'
<1> DEFINE Unanswered(d) == \/ phase[d] = "awaiting" /\ answer[d] = NoAnswer
                            \/ phase[d] = "cancelled"
           Before == Phases \ {"awaiting", "done", "cancelled", "panicked"}
<1>0. Held \subseteq Calls
  BY SMTT(30), RegisteredFacts DEF Held, Range, TypeOK
<1>1. ASSUME NEW c \in Calls, Polls(c) PROVE HeldOnce'
  <2>1. /\ UNCHANGED <<commands, writing, written>> /\ Held' = Held /\ Registered' = Registered
    BY <1>1, PollsFrame DEF Held, Registered
  <2>2. ASSUME NEW d \in Held PROVE Unanswered(d)'
    <3>1. CASE d = c
      <4>1. ~Panic(c)
        BY <2>2, <3>1, PipelineAssumption DEF Panic, Held
      <4> QED
        BY <1>0, <1>1, <2>2, <3>1, <4>1, PollsOutcome DEF HeldOnce
    <3>2. CASE d # c
      <4>1. answer'[d] = answer[d] /\ phase'[d] = phase[d]
        BY <1>0, <1>1, <2>2, <3>2, PollsAnswers, PollsPhases DEF HeldOnce
      <4> QED
        BY <2>2, <4>1 DEF HeldOnce
    <3> QED
      BY <3>1, <3>2
  <2>3. ASSUME NEW d \in Calls, phase'[d] \in Before PROVE answer'[d] = NoAnswer
    <3>1. CASE d = c
      BY <1>1, <2>3, <3>1, PollsOutcome DEF HeldOnce, Phases
    <3>2. CASE d # c
      <4>1. phase[d] \in Before /\ answer'[d] = answer[d]
        BY <1>1, <2>3, <3>2, PollsAnswers, PollsPhases DEF Phases
      <4> QED
        BY <4>1 DEF HeldOnce
    <3> QED
      BY <3>1, <3>2
  <2> QED
    BY <2>1, <2>2, <2>3 DEF HeldOnce
<1>2. ASSUME NEW c \in Calls, Allocate(c) PROVE HeldOnce'
  <2>1. phase[c] = "checked" /\ phase' = [phase EXCEPT ![c] = "numbered"]
    BY <1>2 DEF Allocate
  <2>2. UNCHANGED <<commands, writing, written, answer>> /\ Held' = Held /\ Registered' = Registered
    BY <1>2, AllocateFrame DEF Held, Registered
  <2>3. c \notin Held /\ answer[c] = NoAnswer
    BY <2>1 DEF HeldOnce, Phases
  <2>4. \A d \in Calls \ {c} : phase'[d] = phase[d]
    BY <2>1 DEF TypeOK
  <2> QED
    BY <1>0, <2>2, <2>3, <2>4 DEF HeldOnce
<1>3. ASSUME NEW c \in Calls, Enqueue(c) PROVE HeldOnce'
  <2>1. /\ phase[c] = "numbered" /\ phase' = [phase EXCEPT ![c] = "awaiting"]
        /\ commands' = Append(commands, c)
    BY <1>3 DEF Enqueue
  <2>2. UNCHANGED <<writing, written, answer>> /\ Registered' = Registered
    BY <1>3, EnqueueFrame DEF Registered
  <2>3. c \notin Range(commands) \cup written /\ answer[c] = NoAnswer
    BY <2>1 DEF HeldOnce, RequestsKept, Phases
  <2>4. Range(commands') = Range(commands) \cup {c} /\ IsInjective(commands')
    BY SMTT(30), <2>1, <2>3, AppendFacts DEF TypeOK, HeldOnce
  <2>5. Held' = Held \cup {c}
    BY <2>2, <2>4 DEF Held
  <2>6. phase'[c] = "awaiting" /\ \A d \in Calls \ {c} : phase'[d] = phase[d]
    BY <2>1 DEF TypeOK
  <2> QED
    BY <1>0, <2>2, <2>3, <2>4, <2>5, <2>6 DEF HeldOnce
<1>4. CASE TaskStep
  <2>1. phase' = phase
    BY <1>4, TaskFrame
  <2>2. \A d \in Held' : d \in Held /\ answer'[d] = answer[d]
    BY <1>0, <1>4, TaskAnswers
  <2>3. \A d \in Calls : phase[d] \in Before => answer'[d] = answer[d]
    BY <1>4, TaskAnswers DEF Phases
  <2> QED
    BY <1>4, <2>1, <2>2, <2>3, TaskAnswers DEF HeldOnce
<1>5. ASSUME UNCHANGED <<phase, answer, commands, writing, written, in_flight>> PROVE HeldOnce'
  <2>1. Held' = Held /\ Registered' = Registered
    BY <1>5 DEF Held, Registered
  <2> QED
    BY <1>5, <2>1 DEF HeldOnce
<1>6. ASSUME DropHandles \/ PeerStep PROVE HeldOnce'
  BY <1>5, <1>6, DropHandlesFrame, PeerFrame
<1> QED
  BY <1>1, <1>2, <1>3, <1>4, <1>5, <1>6, StepCases

-----------------------------------------------------------------------------
(* How steps look to the callers.                                           *)

\* Phases in which a caller's future is there and its reply channel says how it stands.
There == Phases \ {"idle", "cancelled", "panicked"}

\* A call's standing follows from its phase and its answer.
LEMMA StandingFacts ==
  ASSUME NEW c \in Calls
  PROVE  /\ phase[c] = "idle" => Standing(c) = "idle"
         /\ phase[c] = "cancelled" => Standing(c) = "dropped"
         /\ phase[c] \in There /\ answer[c] = NoAnswer => Standing(c) = "pending"
         /\ phase[c] \in There /\ answer[c] # NoAnswer /\ answer[c].result # "ok" =>
              Standing(c) = "failed"
         /\ phase[c] \in There /\ answer[c].result = "ok" /\ answer[c].of \in {c, Nobody} =>
              Standing(c) = "answered"
BY DEF Standing, There, NoAnswer, Failed

\* So does its standing after a step.
LEMMA StandingAfter ==
  ASSUME NEW c \in Calls
  PROVE  /\ phase'[c] = "cancelled" => Standing(c)' = "dropped"
         /\ phase'[c] \in There /\ answer'[c] = NoAnswer => Standing(c)' = "pending"
         /\ phase'[c] \in There /\ answer'[c] # NoAnswer /\ answer'[c].result # "ok" =>
              Standing(c)' = "failed"
         /\ phase'[c] \in There /\ answer'[c].result = "ok" /\ answer'[c].of \in {c, Nobody} =>
              Standing(c)' = "answered"
BY SMTT(30) DEF Standing, There, NoAnswer, Failed

\* A future that stays there with its answer, or stays away, stands as before.
LEMMA StandingKept ==
  ASSUME NEW c \in Calls, answer'[c] = answer[c],
         phase'[c] = phase[c] \/ {phase[c], phase'[c]} \subseteq There
  PROVE  Standing(c)' = Standing(c)
BY DEF Standing, There

\* The step of Exchanges a step of the pipeline makes, from the standings alone.
LEMMA AsStutter ==
  ASSUME \A d \in Calls : Standing(d)' = Standing(d), UNCHANGED <<written, desynchronized>>
  PROVE  UNCHANGED Promise!vars
BY DEF Promise!vars

\* One call begins.
LEMMA AsBegin ==
  ASSUME NEW c \in Calls, Standing(c) = "idle", Standing(c)' \in {"pending", "failed"},
         \A d \in Calls \ {c} : Standing(d)' = Standing(d), UNCHANGED <<written, desynchronized>>
  PROVE  Promise!Next
<1>1. Promise!Begin(c)
  BY Zenon DEF Promise!Begin
<1> QED
  BY <1>1 DEF Promise!Next

\* One call's request goes out.
LEMMA AsTransmit ==
  ASSUME NEW c \in Calls, ~desynchronized, Standing(c) \in {"pending", "dropped"},
         c \notin written, \A d \in Calls : Standing(d)' = Standing(d),
         written' = written \cup {c}, UNCHANGED desynchronized
  PROVE  Promise!Next
<1>1. Promise!Transmit(c)
  BY DEF Promise!Transmit
<1> QED
  BY <1>1 DEF Promise!Next

\* One call is answered.
LEMMA AsAnswer ==
  ASSUME NEW c \in Calls, ~desynchronized, Standing(c) = "pending", c \in written,
         Standing(c)' = "answered", \A d \in Calls \ {c} : Standing(d)' = Standing(d),
         UNCHANGED <<written, desynchronized>>
  PROVE  Promise!Next
<1>1. Promise!Answer(c)
  BY Zenon DEF Promise!Answer
<1> QED
  BY <1>1 DEF Promise!Next

\* One call is dropped.
LEMMA AsDrop ==
  ASSUME NEW c \in Calls, Standing(c) # "idle", Standing(c)' = "dropped",
         \A d \in Calls \ {c} : Standing(d)' = Standing(d), UNCHANGED <<written, desynchronized>>
  PROVE  Promise!Next
<1>1. Promise!Drop(c)
  BY Zenon DEF Promise!Drop
<1> QED
  BY <1>1 DEF Promise!Next

\* Some calls fail, and perhaps the connection.
LEMMA AsFail ==
  ASSUME NEW S \in SUBSET Calls, \A d \in S : Standing(d) = "pending" /\ Standing(d)' = "failed",
         \A d \in Calls \ S : Standing(d)' = Standing(d), written' = written,
         desynchronized \in BOOLEAN, desynchronized' \in BOOLEAN, desynchronized => desynchronized'
  PROVE  Promise!Next
<1>1. (~desynchronized') \in {~desynchronized, FALSE}
  BY Zenon
<1>2. [d \in Calls |-> Standing(d)'] =
        [d \in Calls |-> IF d \in S THEN "failed" ELSE [e \in Calls |-> Standing(e)][d]]
  OBVIOUS
<1>3. Promise!Fail(S)
  BY Zenon, <1>1, <1>2 DEF Promise!Fail
<1> QED
  BY <1>3 DEF Promise!Next

-----------------------------------------------------------------------------
(* The refinement.                                                          *)

\* Polling a future is a step of its caller's, or goes unnoticed; a panic comes only after an id
\* was reused.
LEMMA PollsImplement ==
  ASSUME IInv, HeldOnce, NEW c \in Calls, Polls(c), ~reused
  PROVE  Promise!Next \/ UNCHANGED Promise!vars
<1>0. TypeOK /\ QueueKept /\ FuturesHoldHandles /\ NobodyForgotten
  BY DEF IInv, Bookkeeping
<1>1. UNCHANGED <<written, desynchronized>> /\ desynchronized \in BOOLEAN
  BY <1>0, PollsFrame DEF TypeOK
<1>2. \A d \in Calls \ {c} : Standing(d)' = Standing(d)
  <2>1. {"queued", "assigned"} \subseteq There
    BY DEF There, Phases
  <2>2. ASSUME NEW d \in Calls \ {c} PROVE Standing(d)' = Standing(d)
    <3>1. answer'[d] = answer[d] /\ (phase'[d] = phase[d] \/ {phase[d], phase'[d]} \subseteq There)
      BY <1>0, <2>1, PollsAnswers, PollsPhases
    <3> QED
      BY <3>1, StandingKept
  <2> QED
    BY <2>2
<1>3. ~Panic(c)
  BY <1>0 DEF Panic, NobodyForgotten
<1>4. /\ {"queued", "assigned", "admitted", "checked", "awaiting", "done"} \subseteq There
      /\ Failed("too_many") # NoAnswer /\ Failed("too_many").result # "ok"
      /\ Failed("desynchronized") # NoAnswer /\ Failed("desynchronized").result # "ok"
  BY DEF There, Phases, Failed, NoAnswer
<1>5. phase[c] \in {"idle", "queued", "assigned", "admitted"} => answer[c] = NoAnswer
  BY DEF HeldOnce, Phases
<1>6. CASE /\ phase[c] = "idle"
           /\ \/ phase'[c] \in {"admitted", "queued"} /\ answer'[c] = answer[c]
              \/ phase'[c] = "done" /\ answer'[c] = Failed("too_many")
  <2>1. Standing(c) = "idle" /\ Standing(c)' \in {"pending", "failed"}
    BY <1>4, <1>5, <1>6, StandingFacts, StandingAfter
  <2> QED
    BY <1>1, <1>2, <2>1, AsBegin
<1>7. CASE phase[c] \in {"queued", "assigned", "awaiting"} /\ phase'[c] = "cancelled"
  <2>1. Standing(c) # "idle" /\ Standing(c)' = "dropped"
    BY <1>7, StandingAfter DEF Standing
  <2> QED
    BY <1>1, <1>2, <2>1, AsDrop
<1>8. CASE /\ phase[c] \in {"assigned", "admitted"}
           /\ phase'[c] = "done" /\ answer'[c] = Failed("desynchronized")
  <2>1. Standing(c) = "pending" /\ Standing(c)' = "failed"
    BY <1>4, <1>5, <1>8, StandingFacts, StandingAfter
  <2>2. {c} \in SUBSET Calls /\ desynchronized' \in BOOLEAN /\ (desynchronized => desynchronized')
    BY <1>1
  <2> QED
    BY Zenon, <1>1, <1>2, <2>1, <2>2, AsFail
<1>9. CASE {phase[c], phase'[c]} \subseteq There /\ answer'[c] = answer[c]
  <2>1. \A d \in Calls : Standing(d)' = Standing(d)
    BY <1>2, <1>9, StandingKept
  <2> QED
    BY <1>1, <2>1, AsStutter
<1> QED
  BY <1>0, <1>3, <1>4, <1>6, <1>7, <1>8, <1>9, PollsOutcome

\* A step of the task transmits one request, answers one call, or fails some.
LEMMA TaskImplements ==
  ASSUME IInv, HeldOnce, [Next]_vars, TaskStep, OwnResponse', ~reused'
  PROVE  Promise!Next \/ UNCHANGED Promise!vars
<1>0. /\ TypeOK /\ QueueKept /\ RequestsKept /\ TableKept /\ FuturesHoldHandles
      /\ DesyncLeavesNothing
  BY DEF IInv, Bookkeeping
<1>1. phase' = phase /\ answer \in [Calls -> Answers] /\ "awaiting" \in There
  BY <1>0, TaskFrame DEF TypeOK, There, Phases
<1>2. \A d \in Calls : answer'[d] = answer[d] => Standing(d)' = Standing(d)
  BY <1>1, StandingKept
<1>3. ASSUME NEW d \in Calls, answer'[d] # answer[d]
      PROVE  phase[d] = "awaiting" /\ answer[d] = NoAnswer /\ Standing(d) = "pending"
  <2>1. phase[d] = "awaiting" /\ d \in Held
    BY <1>0, <1>3, TaskAnswers
  <2>2. answer[d] = NoAnswer
    BY <2>1 DEF HeldOnce
  <2> QED
    BY <1>1, <2>1, <2>2, StandingFacts
<1>4. CASE StartWrite
  <2>1. /\ commands # <<>> /\ ~desynchronized /\ desynchronized' = desynchronized
        /\ written' = written \cup {Head(commands)} /\ answer' = answer
    BY <1>4 DEF StartWrite, callVars
  <2>2. Head(commands) \in Calls /\ Head(commands) \in Range(commands)
    BY SMTT(30), <1>0, <2>1, TailFacts DEF TypeOK
  <2>3. Head(commands) \notin written /\ Head(commands) \in Held
    BY <2>2 DEF HeldOnce, Held
  <2>4. Standing(Head(commands)) \in {"pending", "dropped"}
    BY <1>1, <2>2, <2>3, StandingFacts DEF HeldOnce
  <2>5. \A d \in Calls : Standing(d)' = Standing(d)
    BY <1>2, <2>1
  <2> QED
    BY <2>1, <2>2, <2>3, <2>4, <2>5, AsTransmit
<1>5. ASSUME ~StartWrite PROVE written' = written
  <2>1. \A e \in Calls : Enqueue(e) => written' = written
    BY EnqueueFrame
  <2>2. RefuseCommand => written' = written
    BY DEF RefuseCommand, taskVars
  <2> QED
    BY <1>0, <1>5, <2>1, <2>2, CommandFacts
<1>6. ASSUME ~StartWrite, NEW d \in Calls, answer'[d] # answer[d], answer'[d].result = "ok"
      PROVE  Promise!Next
  <2>1. PICK r \in responses : /\ Receive(r) /\ r.tid \in Tids
                              /\ in_flight[r.tid] = d /\ answer'[d].of = r.of
    BY <1>0, <1>6, ResponseAnswers
  <2>2. d \in Registered /\ d \in written /\ d # Nobody
    BY <1>0, <2>1, PipelineAssumption DEF Registered, TableKept
  <2>3. ~desynchronized
    BY <1>0, <2>2 DEF DesyncLeavesNothing
  <2>4. Deliver(r)
    BY <2>1, <2>2 DEF Receive, Discard, Reject
  <2>5. answer' = Reply(answer, d, [result |-> "ok", of |-> r.of]) /\ desynchronized' = desynchronized
    BY <2>1, <2>4 DEF Deliver
  <2>6. \A e \in Calls \ {d} : Standing(e)' = Standing(e)
    BY SMTT(30), <1>1, <1>2, <2>5, ReplyFacts
  <2>7. answer'[d].of \in {d, Nobody}
    BY <1>6 DEF OwnResponse
  <2>8. Standing(d) = "pending" /\ Standing(d)' = "answered"
    BY <1>1, <1>3, <1>6, <2>7, StandingAfter
  <2> QED
    BY <1>5, <1>6, <2>2, <2>3, <2>5, <2>6, <2>8, AsAnswer
<1>7. ASSUME ~StartWrite, \A d \in Calls : answer'[d] # answer[d] => answer'[d].result # "ok"
      PROVE  Promise!Next
  <2>1. PICK S : S = {d \in Calls : answer'[d] # answer[d]}
    BY Zenon
  <2>2. \A d \in S : Standing(d) = "pending" /\ Standing(d)' = "failed"
    BY <1>1, <1>3, <1>7, <2>1, StandingAfter
  <2>3. \A d \in Calls \ S : Standing(d)' = Standing(d)
    BY <1>2, <2>1
  <2>4. /\ S \in SUBSET Calls /\ desynchronized \in BOOLEAN /\ desynchronized' \in BOOLEAN
        /\ desynchronized => desynchronized'
    BY <1>0, <2>1, TypesPreserved, DesyncKept DEF TypeOK
  <2> QED
    BY <1>5, <1>7, <2>2, <2>3, <2>4, AsFail
<1> QED
  BY <1>4, <1>6, <1>7

\* Every step of the pipeline up to the reuse of an id is a step of Exchanges, or none.
LEMMA StepsImplement ==
  ASSUME IInv, HeldOnce, [Next]_vars, ~reused'
  PROVE  Promise!Next \/ UNCHANGED Promise!vars
<1>0. TypeOK /\ ~reused /\ IInv'
  BY InvariantPreserved, ReusedKept DEF IInv
<1>1. ASSUME NEW c \in Calls, Polls(c) PROVE Promise!Next \/ UNCHANGED Promise!vars
  BY <1>0, <1>1, PollsImplement
<1>2. CASE TaskStep
  BY <1>0, <1>2, TaskImplements DEF IInv
<1>3. ASSUME NEW c \in Calls, Allocate(c) \/ Enqueue(c)
      PROVE  Promise!Next \/ UNCHANGED Promise!vars
  <2>1. /\ phase[c] \in {"checked", "numbered"}
        /\ \E p \in {"numbered", "awaiting"} : phase' = [phase EXCEPT ![c] = p]
    BY <1>3 DEF Allocate, Enqueue
  <2>2. UNCHANGED <<answer, written, desynchronized>>
    BY <1>3, AllocateFrame, EnqueueFrame
  <2>3. \A d \in Calls : phase'[d] = phase[d] \/ {phase[d], phase'[d]} \subseteq There
    BY <1>0, <2>1 DEF TypeOK, There, Phases
  <2>4. \A d \in Calls : Standing(d)' = Standing(d)
    BY <2>2, <2>3, StandingKept
  <2> QED
    BY <2>2, <2>4, AsStutter
<1>4. ASSUME UNCHANGED <<phase, answer, written, desynchronized>> PROVE UNCHANGED Promise!vars
  <2>1. \A d \in Calls : Standing(d)' = Standing(d)
    BY <1>4, StandingKept
  <2> QED
    BY <1>4, <2>1, AsStutter
<1>5. ASSUME DropHandles \/ PeerStep PROVE UNCHANGED Promise!vars
  BY <1>4, <1>5, DropHandlesFrame, PeerFrame
<1> QED
  BY <1>1, <1>2, <1>3, <1>4, <1>5, StepCases

\* Whatever handles, task, timers and peer do, and in whatever order, the callers see only what
\* Exchanges allows until an id is handed out twice: each request is written at most once, none on
\* a desynchronized connection, and each call ends once, with its own response or an error.
THEOREM PipelineImplementsExchanges == Spec => ImplementsExchanges
<1>1. Init => Promise!Init
  BY DEF Init, Promise!Init, Standing
<1>2. Init => HeldOnce
  BY HeldOnceInitially
<1>3. IInv /\ HeldOnce /\ [Next]_vars => HeldOnce'
  BY HeldOncePreserved DEF IInv, Bookkeeping
<1>4. IInv /\ HeldOnce /\ [Next]_vars => [reused' \/ Promise!Next]_(Promise!vars)
  BY StepsImplement
<1> QED
  BY <1>1, <1>2, <1>3, <1>4, BookkeepingHolds, PTL DEF Spec, ImplementsExchanges

=============================================================================
