------------------------------ MODULE Extents ------------------------------
(***************************************************************************)
(* What a framing says of the bytes read so far (src/frame/framing.rs):    *)
(* that it needs more, that an ADU of len bytes follows after skip bytes   *)
(* that belong to none, or that the end cannot be told.                    *)
(***************************************************************************)
EXTENDS Pdu

NeedMore == [is |-> "NeedMore", skip |-> 0, len |-> 0]
Complete(len) == [is |-> "Complete", skip |-> 0, len |-> len]
Fails == [is |-> "Err", skip |-> 0, len |-> 0]

\* AduBoundary, by framing.
Boundary(framing) ==
  [Rtu |-> "Silence", RtuOverTcp |-> "ContentLength", Tcp |-> "Prefixed", Udp |-> "Prefixed",
   Ascii |-> "Delimited"][framing]

\* Whether the next boundary is found from the line alone.
IsSelfLocating(boundary) == boundary \in {"Delimited", "Silence"}

=============================================================================
