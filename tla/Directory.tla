----------------------------- MODULE Directory -----------------------------
(***************************************************************************)
(* What the tasks of PeerManager together keep, whatever their order: a    *)
(* directory of addresses, and a number that is shown of it.               *)
(*   - An address is dialled by one attempt at a time, and each attempt    *)
(*     ends.                                                               *)
(*   - An address is listed once, whether it was dialled or called here.   *)
(*   - Entries are struck only by the event loop, which then counts what   *)
(*     is left, once, before it strikes again.                             *)
(***************************************************************************)
EXTENDS FiniteSets

CONSTANT Addr

VARIABLES
  dialling,   \* the addresses being dialled
  listed,     \* the addresses that have an entry
  owed,       \* the event loop has yet to count
  shown       \* the last count

vars == <<dialling, listed, owed, shown>>

Init == dialling = {} /\ listed = {} /\ owed = FALSE /\ shown = 0

Dial(a) ==
  /\ a \notin dialling
  /\ dialling' = dialling \cup {a}
  /\ UNCHANGED <<listed, owed, shown>>

Settle(a) ==
  /\ a \in dialling
  /\ dialling' = dialling \ {a}
  /\ UNCHANGED <<listed, owed, shown>>

List(a) ==
  /\ a \notin listed
  /\ listed' = listed \cup {a}
  /\ UNCHANGED <<dialling, owed, shown>>

\* Perhaps none: a session may have lost its entry before it ended, and a new
\* one is counted although nothing is struck.
Strike(gone) ==
  /\ ~owed
  /\ listed' = listed \ gone
  /\ owed' = TRUE
  /\ UNCHANGED <<dialling, shown>>

Count ==
  /\ owed
  /\ shown' = Cardinality(listed)
  /\ owed' = FALSE
  /\ UNCHANGED <<dialling, listed>>

Next ==
  \/ \E a \in Addr : Dial(a) \/ Settle(a) \/ List(a)
  \/ \E gone \in SUBSET Addr : Strike(gone)
  \/ Count

Spec ==
  /\ Init /\ [][Next]_vars
  /\ WF_vars(Count) /\ \A a \in Addr : WF_vars(Settle(a))
=============================================================================
