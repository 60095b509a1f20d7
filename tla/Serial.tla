------------------------------- MODULE Serial -------------------------------
(***************************************************************************)
(* Serial settings: the silence they imply between two RTU frames          *)
(* (src/transport/serial.rs), and what the kernel is told about an RS-485  *)
(* line (src/transport/rs485.rs).                                          *)
(***************************************************************************)
EXTENDS Integers

NoRs485 == [is |-> "None"]

\* SerialConfig; flow control decides nothing here.  A Duration is whole seconds and nanoseconds.
Duration == [secs : Nat, nanos : {n \in Nat : n < 1000000000}]
Rs485Config ==
  {NoRs485} \cup [is : {"Some"}, rts_on_send : {"High", "Low"},
                  delay_before_send : Duration, delay_after_send : Duration]
SerialConfig ==
  [baud_rate : Nat, data_bits : 5..8, parity : {"None", "Odd", "Even"}, stop_bits : 1..2,
   rs485 : Rs485Config]

BitsPerCharacter(config) ==
  1 + config.data_bits + (IF config.parity = "None" THEN 0 ELSE 1) + config.stop_bits

FIXED_INTERVAL_ABOVE_BAUD == 19200
FIXED_INTERVAL == 1750

\* inter_frame_interval, in microseconds: 3.5 characters.
InterFrameInterval(config) ==
  IF config.baud_rate > FIXED_INTERVAL_ABOVE_BAUD THEN FIXED_INTERVAL
  ELSE (BitsPerCharacter(config) * 3500000) \div config.baud_rate

\* TransportConfig::default, as for 19200 8E1; the ASCII timeout is one second on every line.
AsciiInterCharacterTimeout == 1000000
TransportDefault ==
  [inter_frame_interval |-> 2005, ascii_inter_character_timeout |-> AsciiInterCharacterTimeout]

\* TransportConfig::from_serial.
TransportFromSerial(config) ==
  [inter_frame_interval |-> InterFrameInterval(config),
   ascii_inter_character_timeout |-> AsciiInterCharacterTimeout]

\* truncate_to_millis: the milliseconds of a delay, as seconds and the rest; they fit a u32 up to
\* 4294967.295 seconds.
Millis(delay) == [secs |-> delay.secs, millis |-> delay.nanos \div 1000000]
FitsU32(delay) ==
  \/ delay.secs < 4294967
  \/ delay.secs = 4294967 /\ Millis(delay).millis <= 295

\* build, where the delays fit.
KernelRs485(config) ==
  [flags |-> {"ENABLED", IF config.rts_on_send = "High" THEN "RTS_ON_SEND" ELSE "RTS_AFTER_SEND"},
   before |-> Millis(config.delay_before_send), after |-> Millis(config.delay_after_send)]

=============================================================================
