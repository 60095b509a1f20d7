-------------------------------- MODULE Typed --------------------------------
(***************************************************************************)
(* The typed methods of the client (src/client/mod.rs): one for each       *)
(* function code, whose arguments are the fields of the request it builds. *)
(* What they make of the response, and when they are refused.              *)
(***************************************************************************)
EXTENDS Pdu

\* RequestPdu::function.
RequestFunction(p) == [custom |-> p.custom, code |-> p.code]

\* ResponsePdu::function: an exception answers the function it names.
ResponseFunction(p) ==
  IF ~p.custom /\ p.code = 128 THEN p.function ELSE [custom |-> p.custom, code |-> p.code]

IsException(p) == ~p.custom /\ p.code = 128

\* is_broadcast: unit 0 on a serial line, nothing over TCP.
IsBroadcast(serial, unit) == serial /\ unit = 0

-----------------------------------------------------------------------------
(* What a method returns, given the response to its request.                *)

Truncate(bits, quantity) == SubSeq(bits, 1, IF quantity < Len(bits) THEN quantity ELSE Len(bits))

\* read_coils, read_discrete_inputs.
ReadBits(p, r) == Truncate(r.coils, p.quantity)

\* read_holding_registers, read_input_registers: as many as came.
ReadRegisters(r) == r.registers

\* read_write_multiple_registers.
ReadWriteMultipleRegisters(r) == r.registers

ReadExceptionStatus(r) == r.status

\* diagnostics: the sub-function that came back is not looked at.
RunDiagnostics(r) == r.data

GetCommEventCounter(r) == [status |-> r.status, event_count |-> r.event_count]

GetCommEventLog(r) ==
  [status |-> r.status, event_count |-> r.event_count, message_count |-> r.message_count,
   events |-> r.events]

ReportServerId(r) == r.data

ReadFileRecord(r) == r.records

ReadFifoQueue(r) == r.values

EncapsulatedInterfaceTransport(r) == [f \in DOMAIN r \ {"code", "custom"} |-> r[f]]

\* The methods that write: an echo is all they wait for, and it is not looked at.
WriteMethods == {5, 6, 15, 16, 21, 22}

Returns(p, r) ==
  CASE p.code \in WriteMethods -> "()"
    [] p.code \in {1, 2} -> ReadBits(p, r)
    [] p.code \in {3, 4} -> ReadRegisters(r)
    [] p.code = 23 -> ReadWriteMultipleRegisters(r)
    [] p.code = 7 -> ReadExceptionStatus(r)
    [] p.code = 8 -> RunDiagnostics(r)
    [] p.code = 11 -> GetCommEventCounter(r)
    [] p.code = 12 -> GetCommEventLog(r)
    [] p.code = 17 -> ReportServerId(r)
    [] p.code = 20 -> ReadFileRecord(r)
    [] p.code = 24 -> ReadFifoQueue(r)
    [] p.code = 43 -> EncapsulatedInterfaceTransport(r)

\* exchange, on the response call returned.
Exchange(p, r) ==
  IF IsException(r) THEN [is |-> "Exception", exception |-> r.exception]
  ELSE [is |-> "Ok", value |-> Returns(p, r)]

=============================================================================
