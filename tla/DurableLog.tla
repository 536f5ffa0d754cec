------------------------------ MODULE DurableLog -----------------------------
(***************************************************************************)
(* What the server counts on from its revenue file: a record that was      *)
(* acknowledged is on stable storage, and what is on stable storage stays. *)
(* RevenueSink implements this module through partial writes, failed       *)
(* syncs, crashes and power losses.                                        *)
(***************************************************************************)

CONSTANT Records

VARIABLES
  stored,   \* the records on stable storage
  acked     \* the records whose writer was told so

vars == <<stored, acked>>

Init == stored = {} /\ acked = {}

\* More records become durable, acknowledged or not.
Store(S) ==
  /\ stored' = stored \cup S
  /\ UNCHANGED acked

\* A record becomes durable, with others perhaps, and its writer is told.
StoreAndAck(S, r) ==
  /\ r \in stored \cup S
  /\ stored' = stored \cup S
  /\ acked' = acked \cup {r}

Next == \E S \in SUBSET Records :
  \/ Store(S)
  \/ \E r \in Records : StoreAndAck(S, r)

Spec == Init /\ [][Next]_vars
==============================================================================
