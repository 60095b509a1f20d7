----------------------------- MODULE MCUdpServer -----------------------------
(* Small instances of the UDP server for model checking.                   *)
EXTENDS UdpServer

\* One failure that passes, one after which the socket is gone, and one that the table does not know.
OneOfEach ==
  [unix |-> {"ECONNRESET", "EBADF", "EIO"},
   windows |-> {"WSAECONNRESET", "WSAENOTSOCK", "WSAENETDOWN"}]

=============================================================================
