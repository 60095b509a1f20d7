------------------------------- MODULE Device -------------------------------
(***************************************************************************)
(* Typed and blocking clients, the server's loop for each connection, and  *)
(* the in-memory device of examples/interop_server.rs, end to end.         *)
(*                                                                         *)
(* Each client has a connection of its own.  The handlers of two           *)
(* connections run on two threads and meet at the lock of a table; inside  *)
(* it they go from address to address.  PDUs travel as the bytes of Pdu;   *)
(* framing is the business of Framings, and losing a connection that of    *)
(* Client and Server.                                                      *)
(***************************************************************************)
EXTENDS Typed

CONSTANTS
  Clients,   \* one connection each
  Serial,    \* a serial framing, where unit 0 is everyone
  SIZE,      \* addresses of each table
  Unit,      \* ServerConfig::unit
  Calls,     \* for each client, what it may call: how, unit, typed, p
  Imposters, \* clients whose device is of another make, and may answer short
  MaxCalls   \* bound: calls of each client

ASSUME DeviceAssumption ==
  /\ Serial \in BOOLEAN /\ SIZE \in 1..65536 /\ Unit \in 1..247 /\ MaxCalls \in Nat
  /\ Imposters \subseteq Clients
  /\ \A c \in Clients : \A call \in Calls[c] :
       call.how \in {"async", "blocking", "blocking inside a runtime"} /\ IsPdu("Request", call.p)

VARIABLES
  table,    \* coils, discrete, holding, input: what each address holds
  lock,     \* for each table, the connections whose handler is inside
  client,   \* for each client, "ready", "waiting" or "unusable", and its last call
  server,   \* for each connection, where its task is, with the request and its progress
  toServer, \* requests on the wire
  toClient, \* responses on the wire
  result,   \* history: what the last call returned
  applied,  \* history: for each call, how often the device carried out its write
  seen      \* history: what the last call's addresses have held since it began

vars == <<table, lock, client, server, toServer, toClient, result, applied, seen>>

-----------------------------------------------------------------------------
(* The device.                                                              *)

Tables == {"coils", "discrete", "holding", "input"}

\* Device::default.
Default ==
  [coils |-> [at \in 0..(SIZE - 1) |-> FALSE],
   discrete |-> [at \in 0..(SIZE - 1) |-> at % 2 = 0],
   holding |-> [at \in 0..(SIZE - 1) |-> at],
   input |-> [at \in 0..(SIZE - 1) |-> 100 + at]]

\* The table a request is about, if the device implements it (on_request).
Implemented(p) == ~p.custom /\ p.code \in {1, 2, 3, 4, 5, 6, 15, 16}

TableOf(p) ==
  CASE p.code \in {1, 5, 15} -> "coils"
    [] p.code = 2 -> "discrete"
    [] p.code \in {3, 6, 16} -> "holding"
    [] p.code = 4 -> "input"

\* What it writes there.
ValuesOf(p) ==
  CASE p.code = 5 -> <<p.on>>
    [] p.code = 6 -> <<p.value>>
    [] p.code = 15 -> p.coils
    [] p.code = 16 -> p.registers

IsWrite(p) == p.code \in WriteMethods
IsRead(p) == p.code \in 1..4
Extends(p) == IF IsRead(p) THEN p.quantity ELSE Len(ValuesOf(p))

\* The response to a request that was carried out; values is what was read.
ResponseTo(p, values) ==
  CASE p.code \in {1, 2} -> [code |-> p.code, custom |-> FALSE, coils |-> values]
    [] p.code \in {3, 4} -> [code |-> p.code, custom |-> FALSE, registers |-> values]
    [] p.code \in {5, 6} -> p
    [] p.code \in {15, 16} ->
         [code |-> p.code, custom |-> FALSE, address |-> p.address, quantity |-> Len(ValuesOf(p))]

ExceptionTo(p, raw) ==
  [code |-> 128, custom |-> FALSE, function |-> RequestFunction(p),
   exception |-> [other |-> FALSE, raw |-> raw]]

IllegalFunction == 1
IllegalDataAddress == 2

-----------------------------------------------------------------------------
NoCall == [how |-> "async", unit |-> Unit, typed |-> TRUE, p |-> [code |-> 7, custom |-> FALSE]]

Init ==
  /\ table = Default
  /\ lock = [t \in Tables |-> {}]
  /\ client = [c \in Clients |-> [state |-> "ready", calls |-> 0, call |-> NoCall]]
  /\ server = [c \in Clients |-> [at |-> "reading"]]
  /\ toServer = [c \in Clients |-> <<>>]
  /\ toClient = [c \in Clients |-> <<>>]
  /\ result = [c \in Clients |-> [is |-> "None"]]
  /\ applied = [c \in Clients |-> [n \in 1..MaxCalls |-> 0]]
  /\ seen = [c \in Clients |-> {}]

-----------------------------------------------------------------------------
(* A client.                                                                *)

\* refuse_inside_a_runtime, the broadcast rule of exchange, and the two early returns of call,
\* in this order.
Refusals(c, call) ==
  CASE call.how = "blocking inside a runtime" -> "BlockingInAsyncContext"
    [] call.how # "blocking inside a runtime" /\ call.typed /\ ~IsWrite(call.p)
         /\ IsBroadcast(Serial, call.unit) -> "IllegalValue"
    [] OTHER -> IF client[c].state = "unusable" THEN "Desynchronized"
                ELSE IF Write("Request", call.p).ok THEN "None" ELSE "Unencodable"

\* The call is over before a byte is written.
RefuseCall(c, call) ==
  /\ Refusals(c, call) # "None"
  /\ client' = [client EXCEPT ![c].call = call, ![c].calls = @ + 1]
  /\ result' = [result EXCEPT ![c] = [is |-> Refusals(c, call)]]
  /\ UNCHANGED toServer

\* call, up to the wait: a broadcast is written and not awaited.
Send(c, call) ==
  LET broadcast == IsBroadcast(Serial, call.unit) IN
  /\ Refusals(c, call) = "None"
  /\ client' = [client EXCEPT ![c] = [state |-> IF broadcast THEN "ready" ELSE "waiting",
                                      calls |-> @.calls + 1, call |-> call]]
  /\ toServer' = [toServer EXCEPT ![c] =
       Append(@, [unit |-> call.unit, bytes |-> Write("Request", call.p).bytes,
                  n |-> client[c].calls + 1])]
  /\ result' = [result EXCEPT ![c] =
       IF broadcast THEN [is |-> "Ok", value |-> "()"] ELSE [is |-> "None"]]

Begin(c, call) ==
  /\ client[c].state # "waiting" /\ client[c].calls < MaxCalls
  /\ RefuseCall(c, call) \/ Send(c, call)
  /\ UNCHANGED <<table, lock, server, toClient, applied>>

\* A typed method of the async client, or call.
AsyncCall(c) == \E call \in Calls[c] : call.how = "async" /\ Begin(c, call)

\* A method of the blocking client: the refusal, then the same method.
BlockingCall(c) == \E call \in Calls[c] : call.how # "async" /\ Begin(c, call)

\* The rest of call, exchange and the typed method, on the response.
Receive(c) ==
  /\ client[c].state = "waiting" /\ toClient[c] # <<>>
  /\ LET in == Head(toClient[c])
         p == client[c].call.p
         r == Decode("Response", in.bytes)
     IN  /\ toClient' = [toClient EXCEPT ![c] = Tail(@)]
         /\ IF in.unit # client[c].call.unit THEN UNCHANGED <<client, result>>
            ELSE IF ~r.ok
            THEN /\ client' = [client EXCEPT ![c].state = IF Serial THEN "ready" ELSE "unusable"]
                 /\ result' = [result EXCEPT ![c] = [is |-> "Undecodable"]]
            ELSE /\ client' = [client EXCEPT ![c].state = "ready"]
                 /\ result' = [result EXCEPT ![c] =
                      IF ResponseFunction(r.value) # RequestFunction(p)
                      THEN [is |-> "UnexpectedFunction"]
                      ELSE IF client[c].call.typed THEN Exchange(p, r.value)
                      ELSE [is |-> "Ok", value |-> r.value]]
  /\ UNCHANGED <<table, lock, server, toServer, applied>>

\* Mutant of TimeOut: the request is written again instead.
TimeOutRetrying(c) ==
  /\ client[c].state = "waiting" /\ Len(toServer[c]) < 2
  /\ toServer' = [toServer EXCEPT ![c] =
       Append(@, [unit |-> client[c].call.unit, n |-> client[c].calls,
                  bytes |-> Write("Request", client[c].call.p).bytes])]
  /\ UNCHANGED <<table, lock, client, server, toClient, result, applied>>

TimeOut(c) ==
  /\ client[c].state = "waiting"
  /\ client' = [client EXCEPT ![c].state = "unusable"]
  /\ result' = [result EXCEPT ![c] = [is |-> "Timeout"]]
  /\ UNCHANGED <<table, lock, server, toServer, toClient, applied>>

-----------------------------------------------------------------------------
(* The server's task for a connection, and the handler it calls.            *)

\* exchange in server/mod.rs: a request of another unit is passed over; the device refuses
\* what it does not implement.
Dispatch(c) ==
  /\ server[c].at = "reading" /\ toServer[c] # <<>>
  /\ LET in == Head(toServer[c])
         p == Decode("Request", in.bytes).value
         mine == IsBroadcast(Serial, in.unit) \/ in.unit = Unit
     IN  server' = [server EXCEPT ![c] =
           IF ~mine THEN @
           ELSE IF Implemented(p)
           THEN [at |-> "locking", in |-> in, p |-> p, values |-> <<>>]
           ELSE [at |-> "answering", in |-> in, answer |-> ExceptionTo(p, IllegalFunction)]]
  /\ toServer' = [toServer EXCEPT ![c] = Tail(@)]
  /\ UNCHANGED <<table, lock, client, toClient, result, applied>>

\* Mutant of Lock: a reader does not wait.
LockUnlessReading(c) ==
  /\ server[c].at = "locking"
  /\ LET t == TableOf(server[c].p) IN
       /\ lock[t] = {} \/ IsRead(server[c].p)
       /\ lock' = [lock EXCEPT ![t] = @ \cup {c}]
  /\ server' = [server EXCEPT ![c].at = "inside"]
  /\ UNCHANGED <<table, client, toServer, toClient, result, applied>>

\* table.lock(), in read and in write.
Lock(c) ==
  /\ server[c].at = "locking"
  /\ LET t == TableOf(server[c].p) IN
       /\ lock[t] = {}
       /\ lock' = [lock EXCEPT ![t] = @ \cup {c}]
  /\ server' = [server EXCEPT ![c].at = "inside"]
  /\ UNCHANGED <<table, client, toServer, toClient, result, applied>>

Inside(c) == server[c].at = "inside"
NextAddress(c) == server[c].p.address + Len(server[c].values)

\* read and write, for the next address.
Visit(c) ==
  LET p == server[c].p
      t == TableOf(p)
      n == Len(server[c].values) + 1
  IN
  /\ Inside(c) /\ n <= Extends(p) /\ NextAddress(c) \in DOMAIN table[t]
  /\ table' = IF IsRead(p) THEN table ELSE [table EXCEPT ![t][NextAddress(c)] = ValuesOf(p)[n]]
  /\ server' = [server EXCEPT ![c].values = Append(@, table'[t][NextAddress(c)])]
  /\ UNCHANGED <<lock, client, toServer, toClient, result, applied>>

\* They leave at the first address the table does not have, or after the last.
Leave(c) ==
  LET p == server[c].p
      done == Len(server[c].values) = Extends(p)
  IN
  /\ Inside(c) /\ (done \/ NextAddress(c) \notin DOMAIN table[TableOf(p)])
  /\ lock' = [lock EXCEPT ![TableOf(p)] = @ \ {c}]
  /\ server' = [server EXCEPT ![c] =
       [at |-> "answering", in |-> @.in,
        answer |-> IF done THEN ResponseTo(p, @.values) ELSE ExceptionTo(p, IllegalDataAddress)]]
  /\ applied' = IF done /\ ~IsRead(p) THEN [applied EXCEPT ![c][server[c].in.n] = @ + 1] ELSE applied
  /\ UNCHANGED <<table, client, toServer, toClient, result>>

\* What a device of another make may say instead: one value less.
Shortened(r) ==
  IF r.code \in {1, 2} THEN [r EXCEPT !.coils = <<>>]
  ELSE IF r.code \in {3, 4} THEN [r EXCEPT !.registers = Front(@)] ELSE r

\* send_response: a broadcast is not answered; what does not encode is not sent.
Answer(c) ==
  /\ server[c].at = "answering"
  /\ \E r \in {server[c].answer} \cup {Shortened(server[c].answer) : i \in Imposters \cap {c}} :
       LET written == Write("Response", r) IN
       toClient' = IF IsBroadcast(Serial, server[c].in.unit) \/ ~written.ok THEN toClient
                   ELSE [toClient EXCEPT ![c] =
                           Append(@, [unit |-> server[c].in.unit, bytes |-> written.bytes])]
  /\ server' = [server EXCEPT ![c] = [at |-> "reading"]]
  /\ UNCHANGED <<table, lock, client, toServer, result, applied>>

-----------------------------------------------------------------------------
Writing(c) == Inside(c) /\ ~IsRead(server[c].p)

\* What the addresses of a read hold.
Window(held, p) == [i \in 1..p.quantity |-> held[TableOf(p)][p.address + i - 1]]

InTable(p) ==
  Implemented(p) /\ IsRead(p) /\ p.quantity > 0 /\ p.address + p.quantity <= SIZE

\* history: between two writes, what every waiting read might see.
Observe ==
  seen' = [c \in Clients |->
    LET p == client'[c].call.p
        whole == InTable(p) /\ ~\E d \in Clients : Writing(d)' /\ TableOf(server'[d].p) = TableOf(p)
    IN  (IF client'[c].calls # client[c].calls THEN {} ELSE seen[c])
          \cup (IF client'[c].state = "waiting" /\ whole THEN {Window(table', p)} ELSE {})]

Step(c) ==
  \/ AsyncCall(c) \/ BlockingCall(c) \/ Receive(c) \/ TimeOut(c)
  \/ Dispatch(c) \/ Lock(c) \/ Visit(c) \/ Leave(c) \/ Answer(c)

Next == \E c \in Clients : Step(c) /\ Observe

Spec == Init /\ [][Next]_vars

-----------------------------------------------------------------------------
(* Properties.                                                              *)

\* What a typed read returns is what all its addresses held at one moment during the call: the
\* lock keeps the handlers of other connections out from the first address to the last, and the
\* values pass through the codec, the padding of a bit response and its truncation unchanged.
ReadsAreWhole ==
  \A c \in Clients \ Imposters :
    LET p == client[c].call.p IN
    client[c].call.typed /\ IsRead(p) /\ result[c].is = "Ok" => result[c].value \in seen[c]

\* A write that returned Ok was carried out exactly once, before it returned; no call is ever
\* carried out twice, as the client does not retry; and a call that was refused, in a runtime, as
\* a broadcast read, by the encoder or by an unusable client, is not carried out at all, nor is
\* an exception ever the answer to a write that was carried out to its end.
WrittenOnce ==
  \A c \in Clients :
    LET call == client[c].call
        awaited == call.typed /\ IsWrite(call.p) /\ ~IsBroadcast(Serial, call.unit)
    IN  /\ \A n \in 1..MaxCalls : applied[c][n] <= 1
        /\ awaited /\ result[c].is = "Ok" => applied[c][client[c].calls] = 1
        /\ result[c].is \in {"BlockingInAsyncContext", "IllegalValue", "Desynchronized",
                             "Unencodable", "Exception"} => applied[c][client[c].calls] = 0

-----------------------------------------------------------------------------
(* Statements of the repository that the code does not keep; README.md says *)
(* how each one fails.                                                      *)

\* CL-R-062: "A typed method reading bits returns exactly the quantity of bits requested".
BitsAsRequested ==
  \A c \in Clients :
    LET call == client[c].call IN
    call.typed /\ call.p.code \in {1, 2} /\ result[c].is = "Ok" =>
      Len(result[c].value) = call.p.quantity

\* interop_server.rs:70: write is "refusing any address it lacks", so that a write about to be
\* refused has written nothing.
RefusedMeansUntouched ==
  \A c \in Clients :
    Writing(c) /\ Len(server[c].values) < Extends(server[c].p)
      /\ NextAddress(c) \notin DOMAIN table[TableOf(server[c].p)] => server[c].values = <<>>

=============================================================================
