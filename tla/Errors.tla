------------------------------- MODULE Errors -------------------------------
(***************************************************************************)
(* What the crate reads off a failed accept or receive (src/error.rs), and *)
(* what a service that does not say otherwise does about it                *)
(* (src/server/service.rs).  Errors of the operating system are known by   *)
(* their names.                                                            *)
(***************************************************************************)

UNIX_TRANSIENT ==
  {"ECONNABORTED", "ECONNRESET", "EINTR", "EAGAIN", "EWOULDBLOCK", "EMFILE", "ENFILE", "ENOBUFS",
   "ENOMEM", "EPERM", "ETIMEDOUT", "ENETDOWN", "EPROTO", "ENOPROTOOPT", "EHOSTDOWN", "ENONET",
   "EHOSTUNREACH", "EOPNOTSUPP", "ENETUNREACH"}

\* Mutant of WINDOWS_TRANSIENT: without the code of a datagram that does not fit.
WINDOWS_TRANSIENT_SHORT ==
  {"WSAECONNRESET", "WSAECONNABORTED", "WSAEMFILE", "WSAENOBUFS", "WSAEINTR", "WSAEWOULDBLOCK"}

WINDOWS_TRANSIENT ==
  {"WSAECONNRESET", "WSAECONNABORTED", "WSAEMFILE", "WSAENOBUFS", "WSAEINTR", "WSAEWOULDBLOCK",
   "WSAEMSGSIZE"}

\* TRANSIENT, which the target decides: there is no table outside Unix and Windows.
TransientOn(target) ==
  CASE target = "windows" -> WINDOWS_TRANSIENT
    [] target = "unix" -> UNIX_TRANSIENT
    [] OTHER -> {}

\* classify; an error that did not come from the operating system has no code.
Classify(code, table) == IF code \in table THEN "Transient" ELSE "Fatal"

\* Error::listener_failure, of an Io error.
ListenerFailure(code, target) == Classify(code, TransientOn(target))

\* What a service may answer to a failed accept or receive.
AcceptErrorAction == {"Continue", "Stop"}

\* Service::on_receive_error, unless the service overrides it.
OnReceiveError(code, target) ==
  IF ListenerFailure(code, target) = "Transient" THEN "Continue" ELSE "Stop"

=============================================================================
