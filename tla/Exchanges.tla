------------------------------ MODULE Exchanges ------------------------------
(***************************************************************************)
(* What a client promises its callers, however it goes about it: a request *)
(* is put on the wire at most once, by a client that is usable; a call     *)
(* ends once, answered or failed, unless its caller drops it; an answer    *)
(* comes to a call whose request was sent, from a client that is usable;   *)
(* and a client that is not usable never is again.                         *)
(***************************************************************************)
CONSTANT Calls

VARIABLES
  call,  \* for each call, "idle", "pending", "answered", "failed" or "dropped"
  sent,  \* the calls whose requests were put on the wire
  usable

vars == <<call, sent, usable>>

Init ==
  /\ call = [c \in Calls |-> "idle"]
  /\ sent = {}
  /\ usable = TRUE

\* A call begins, and may be refused at once.
Begin(c) ==
  /\ call[c] = "idle"
  /\ \E s \in {"pending", "failed"} : call' = [call EXCEPT ![c] = s]
  /\ UNCHANGED <<sent, usable>>

\* Its request goes out, even if the caller has dropped it meanwhile.
Transmit(c) ==
  /\ usable /\ call[c] \in {"pending", "dropped"} /\ c \notin sent
  /\ sent' = sent \cup {c}
  /\ UNCHANGED <<call, usable>>

Answer(c) ==
  /\ usable /\ call[c] = "pending" /\ c \in sent
  /\ call' = [call EXCEPT ![c] = "answered"]
  /\ UNCHANGED <<sent, usable>>

\* Some calls fail, and perhaps the client with them.
Fail(S) ==
  /\ \A c \in S : call[c] = "pending"
  /\ call' = [c \in Calls |-> IF c \in S THEN "failed" ELSE call[c]]
  /\ usable' \in {usable, FALSE}
  /\ UNCHANGED sent

Drop(c) ==
  /\ call[c] # "idle"
  /\ call' = [call EXCEPT ![c] = "dropped"]
  /\ UNCHANGED <<sent, usable>>

Next ==
  \/ \E c \in Calls : Begin(c) \/ Transmit(c) \/ Answer(c) \/ Drop(c)
  \/ \E S \in SUBSET Calls : Fail(S)

Spec == Init /\ [][Next]_vars

=============================================================================
