------------------------------ MODULE PaidAccess ------------------------------
(***************************************************************************)
(* What the gates promise, with no request, lock or handler in sight: a    *)
(* session holds a gate only if somebody paid for that gate in that        *)
(* session's name, the payment was on record before the gate opened, each  *)
(* token pays once, and a session that ended never holds anything again.   *)
(* Gates implements this module.                                           *)
(***************************************************************************)

CONSTANTS
  Sessions,    \* websocket session ids
  EntryGates,  \* the gates that are held: spawn and the courts
  PlayGates,   \* the paid plays, which are used up at once
  Tokens       \* bearer pops

VARIABLES
  paid,        \* the payments on record
  open,        \* the gates held now, as <<session, gate>> pairs
  ended        \* the sessions that are over

vars == <<paid, open, ended>>

Payment == [token : Tokens, gate : EntryGates \cup PlayGates, session : Sessions]

Init ==
  /\ paid = {}
  /\ open = {}
  /\ ended = {}

\* A payment goes on record; its token has never paid before.
Pay(p) ==
  /\ \A q \in paid : q.token # p.token
  /\ paid' = paid \cup {p}
  /\ UNCHANGED <<open, ended>>

\* A payment on record opens its gate for its session.
Open(p) ==
  /\ p \in paid
  /\ p.gate \in EntryGates
  /\ p.session \notin ended
  /\ open' = open \cup {<<p.session, p.gate>>}
  /\ UNCHANGED <<paid, ended>>

\* Sessions end, one by a closed socket or all of them by a restart.
End(S) ==
  /\ ended' = ended \cup S
  /\ open' = {o \in open : o[1] \notin S}
  /\ UNCHANGED paid

Next ==
  \/ \E p \in Payment : Pay(p) \/ Open(p)
  \/ \E S \in SUBSET Sessions : End(S)

Spec == Init /\ [][Next]_vars
===============================================================================
