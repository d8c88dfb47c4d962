-------------------------- MODULE SessionLifecycle --------------------------
(***************************************************************************)
(* What a session promises the event loop, whatever the remote does and    *)
(* however its bytes arrive: the events of a session are those of its      *)
(* handshake, one Connected, then reports, then one Disconnected; a session*)
(* that fails its handshake or is dropped as a duplicate has no            *)
(* Disconnected; and nobody waits for a handshake for ever.                *)
(* The event loop of PeerManager is written against this.                  *)
(***************************************************************************)
EXTENDS Sequences

VARIABLES
  phase,    \* "handshake", "established", "running" or "over"
  posted    \* the kinds of the events sent so far

vars == <<phase, posted>>

Post(kind) == posted' = Append(posted, kind)

Init == phase = "handshake" /\ posted = << >>

\* A capability the remote announces before its verack is reported early.
Negotiate ==
  /\ phase = "handshake"
  /\ Post("Message")
  /\ UNCHANGED phase

Establish ==
  /\ phase = "handshake"
  /\ Post("Connected")
  /\ phase' = "established"

Fail ==
  /\ phase = "handshake"
  /\ phase' = "over"
  /\ UNCHANGED posted

\* The connection task pushes the handle and spawns the peer task, or finds
\* that the address has a handle already.
HandOver ==
  /\ phase = "established"
  /\ phase' \in {"running", "over"}
  /\ UNCHANGED posted

Report ==
  /\ phase = "running"
  /\ \E kind \in {"Message", "Addresses"} : Post(kind)
  /\ UNCHANGED phase

End ==
  /\ phase = "running"
  /\ Post("Disconnected")
  /\ phase' = "over"

Conclude == Establish \/ Fail \/ HandOver

Next == Negotiate \/ Conclude \/ Report \/ End

Spec == Init /\ [][Next]_vars /\ WF_vars(Conclude)
=============================================================================
