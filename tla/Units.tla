-------------------------------- MODULE Units --------------------------------
(***************************************************************************)
(* Unit rotation: which pop units the gates accept (server/src/mint.rs,    *)
(* multiunit.rs and the refresh loop of main.rs).  The mint adds keysets   *)
(* as units rotate; every few minutes the server asks for them, picks the  *)
(* units with a future expiry, swaps them into the gate registry and, a    *)
(* step later, into the configuration that clients read.  A request reads  *)
(* the registry twice: for the newest unit, when it declares none, and     *)
(* then for the charge state of its unit.                                  *)
(*                                                                         *)
(* The mint is external: it adds keysets, dated or not, and answers or     *)
(* fails to.  So is the cashu crate, which parses the name of a unit or    *)
(* refuses it: then no charge state can be built, the gates keep their old *)
(* set, and the loop advertises the new one all the same.                  *)
(* Units are numbers in the order of their names.                          *)
(***************************************************************************)
EXTENDS Integers, FiniteSets

CONSTANTS
  PopUnits,    \* the pop_<ts> units, by the order of their names
  Unbuildable, \* those whose name CurrencyUnit::from_str refuses
  OtherUnits,  \* other units of the mint, which no gate takes
  Undated,     \* the final_expiry of a keyset without one
  None,        \* no unit declared, no unit chosen, no answer in hand
  GateIds,     \* the paid gates
  Requests,    \* requests to a gate
  BootRows,    \* the mint's keysets when the server boots
  Rotation,    \* the keysets the mint may add later
  MaxTime      \* bound: the last second of the clock, and of an expiry

Time == 0 .. MaxTime
Units == PopUnits \cup OtherUnits
Row == [unit : Units, expiry : Time \cup {Undated}]

\* Mutant: a unit lives through the second of its expiry.
DatesInclusive(rows, u, t) == {r.expiry : r \in {q \in rows :
                        q.unit = u /\ q.expiry # Undated /\ q.expiry >= t}}

\* pick_valid_units: each pop unit with a keyset dated strictly in the future,
\* with the latest of its dates.
Dates(rows, u, t) == {r.expiry : r \in {q \in rows :
                        q.unit = u /\ q.expiry # Undated /\ q.expiry > t}}
Latest(S) == CHOOSE n \in S : \A m \in S : m <= n
\* Mutant: any unit of the mint, pop or not.
PickAny(rows, t) ==
  [u \in {v \in Units : Dates(rows, v, t) # {}} |-> Latest(Dates(rows, u, t))]
PickValid(rows, t) ==
  [u \in {v \in PopUnits : Dates(rows, v, t) # {}} |-> Latest(Dates(rows, u, t))]

\* The last unit after the stable sort by expiry of a map ordered by name.
Newest(valid) == CHOOSE u \in DOMAIN valid : \A v \in DOMAIN valid :
  valid[v] < valid[u] \/ (valid[v] = valid[u] /\ v <= u)

\* build_states: one charge state per gate and valid unit, or an error for the
\* first unit of the set that has no name for cashu.
Builds(valid) == DOMAIN valid \cap Unbuildable = {}
BuildStates(valid) == [g \in GateIds |-> DOMAIN valid]

ASSUME UnitsAssumption ==
  /\ PopUnits \cup OtherUnits \subseteq Nat /\ PopUnits \cap OtherUnits = {}
  /\ IsFiniteSet(PopUnits) /\ Unbuildable \subseteq PopUnits
  /\ MaxTime \in Nat /\ BootRows \cup Rotation \subseteq Row
  /\ Undated \notin Time /\ None \notin Units
  \* or the live server refuses to boot
  /\ PickValid(BootRows, 0) # << >> /\ Builds(PickValid(BootRows, 0))

VARIABLES
  now,         \* the clock
  rows,        \* the mint's keysets
  probe,       \* the loop: at rest, waiting, with the mint's answer, or with
               \* a new valid set to advertise
  registry,    \* Inner: the valid set and the charge states, swapped as one
  advertised,  \* GameConfig: the mint-into unit and the accepted ones
  request      \* how far each request has come

vars == <<now, rows, probe, registry, advertised, request>>

Registry(valid) == [valid |-> valid, newest |-> Newest(valid), states |-> BuildStates(valid)]
Advert(reg) == [unit |-> reg.newest, accepted |-> DOMAIN reg.valid]
AtRest == [at |-> "rest"]
Outcomes == {"found", "unit-retired", "unit-state-missing"}

TypeOK ==
  /\ now \in Time
  /\ rows \subseteq Row
  /\ probe.at \in {"rest", "waiting", "answered", "refreshed"}
  /\ probe.at = "answered" => probe.rows \subseteq Row
  /\ DOMAIN registry.valid \subseteq PopUnits
  /\ registry.newest \in DOMAIN registry.valid
  /\ advertised.unit \in advertised.accepted /\ advertised.accepted \subseteq PopUnits
  /\ request \in [Requests -> [unit : PopUnits \cup {None}, gate : GateIds,
                               at : {"new", "chosen"} \cup Outcomes]]

Init ==
  /\ now = 0
  /\ rows = BootRows
  /\ probe = AtRest
  /\ registry = Registry(PickValid(BootRows, 0))
  /\ advertised = Advert(registry)
  /\ request \in [Requests -> [unit : {None}, gate : GateIds, at : {"new"}]]

------------------------------------------------------------------------------
(* The clock and the mint. *)

Tick ==
  /\ now < MaxTime
  /\ now' = now + 1
  /\ UNCHANGED <<rows, probe, registry, advertised, request>>

\* Rotation adds a keyset; a keyset stays listed after its date.
AddKeyset(r) ==
  /\ r \notin rows
  /\ rows' = rows \cup {r}
  /\ UNCHANGED <<now, probe, registry, advertised, request>>

------------------------------------------------------------------------------
(* The refresh loop. *)

Ask ==
  /\ probe = AtRest
  /\ probe' = [at |-> "waiting"]
  /\ UNCHANGED <<now, rows, registry, advertised, request>>

Answer ==
  /\ probe.at = "waiting"
  /\ probe' = [at |-> "answered", rows |-> rows]
  /\ UNCHANGED <<now, rows, registry, advertised, request>>

KeepOldSet == UNCHANGED <<now, rows, registry, advertised, request>>

\* Mutant: the loop returns on an error.
ProbeFailsForGood ==
  /\ probe.at = "waiting"
  /\ probe' = [at |-> "returned"]
  /\ KeepOldSet

\* No answer in time, or one that does not parse.
ProbeFails ==
  /\ probe.at = "waiting"
  /\ probe' = AtRest
  /\ KeepOldSet

\* No unit is valid any more: an error like any other.
NoneValid ==
  /\ probe.at = "answered"
  /\ PickValid(probe.rows, now) = << >>
  /\ probe' = AtRest
  /\ KeepOldSet

\* Mutant: what was valid stays valid.
RefreshMerges ==
  /\ probe.at = "answered"
  /\ LET valid == PickValid(probe.rows, now)
         old == registry.valid
         both == [u \in DOMAIN old \cup DOMAIN valid |->
                    IF u \in DOMAIN valid THEN valid[u] ELSE old[u]]
     IN /\ valid # << >>
        /\ registry' = IF Builds(valid) THEN Registry(both) ELSE registry
        /\ probe' = [at |-> "refreshed", valid |-> valid]
  /\ UNCHANGED <<now, rows, advertised, request>>

\* The clock is read when the answer is in.  The registry is swapped whole, or
\* stays as it is when a state cannot be built; the loop goes on either way.
Refresh ==
  /\ probe.at = "answered"
  /\ LET valid == PickValid(probe.rows, now)
     IN /\ valid # << >>
        /\ registry' = IF Builds(valid) THEN Registry(valid) ELSE registry
        /\ probe' = [at |-> "refreshed", valid |-> valid]
  /\ UNCHANGED <<now, rows, advertised, request>>

\* Mutant: only the mint-into unit is told.
AdvertiseNewestOnly ==
  /\ probe.at = "refreshed"
  /\ advertised' = [advertised EXCEPT !.unit = Newest(probe.valid)]
  /\ probe' = AtRest
  /\ UNCHANGED <<now, rows, registry, request>>

\* update_units, with the set picked above.
Advertise ==
  /\ probe.at = "refreshed"
  /\ advertised' = [unit |-> Newest(probe.valid), accepted |-> DOMAIN probe.valid]
  /\ probe' = AtRest
  /\ UNCHANGED <<now, rows, registry, request>>

------------------------------------------------------------------------------
(* Requests: require_charge_multi. *)

\* The declared unit, or the newest as the registry stands now.
ChooseUnit(r, declared) ==
  /\ request[r].at = "new"
  /\ request' = [request EXCEPT ![r].at = "chosen",
                   ![r].unit = IF declared = None THEN registry.newest ELSE declared]
  /\ UNCHANGED <<now, rows, probe, registry, advertised>>

\* resolve, under a lock of its own.
Resolved(q) ==
  IF q.unit \notin DOMAIN registry.valid THEN "unit-retired"
  ELSE IF q.unit \in registry.states[q.gate] THEN "found" ELSE "unit-state-missing"

Resolve(r) ==
  /\ request[r].at = "chosen"
  /\ request' = [request EXCEPT ![r].at = Resolved(request[r])]
  /\ UNCHANGED <<now, rows, probe, registry, advertised>>

------------------------------------------------------------------------------

Loop == Ask \/ Answer \/ ProbeFails \/ NoneValid \/ Refresh \/ Advertise

Next ==
  \/ Tick
  \/ \E r \in Rotation : AddKeyset(r)
  \/ Loop
  \/ \E r \in Requests, declared \in PopUnits \cup {None} : ChooseUnit(r, declared)
  \/ \E r \in Requests : Resolve(r)

Spec == Init /\ [][Next]_vars

\* The loop ticks for ever and its client has a timeout; the mint, asked again
\* and again, answers again and again.
FairSpec == Spec /\ WF_vars(Loop) /\ SF_vars(Answer)

------------------------------------------------------------------------------
(* Properties *)

\* A refresh never brings in a unit that is dead by then, however long the
\* answer was on its way.
EntersAlive ==
  \A u \in DOMAIN registry'.valid \ DOMAIN registry.valid : registry'.valid[u] > now

\* Of every step of the loop, as EntersAlive says.
NoDeadUnitEnters == [][EntersAlive]_vars

\* main.rs:267-268: between two refreshes the configuration says what the gates
\* accept exactly if every unit of it can be built.  A refresh that fails to
\* build leaves clients with units that every gate refuses as retired.
AdvertisedInStep ==
  probe.at # "refreshed" =>
    (advertised = Advert(registry) <=> advertised.accepted \cap Unbuildable = {})

Past(u) == u \in DOMAIN registry.valid /\ registry.valid[u] <= now

\* No refresh can go through: the mint lists no valid unit, or one that no
\* state can be built for.
Stuck == PickValid(rows, now) = << >> \/ ~Builds(PickValid(rows, now))

\* The gates follow the mint, but for the times when nothing can be refreshed.
\* A unit with a keyset that outlives the run is then accepted and advertised
\* for good once the mint lists it; a unit past its date is dropped, or renewed.
FollowsMint ==
  \A u \in PopUnits :
    /\ [unit |-> u, expiry |-> MaxTime] \in rows ~>
         \/ Stuck
         \/ [](u \in advertised.accepted \cap DOMAIN registry.valid \/ now = MaxTime)
    /\ Past(u) ~> ~Past(u) \/ Stuck
==============================================================================
