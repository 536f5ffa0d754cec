------------------------------ MODULE UnitsProofs ------------------------------
(***************************************************************************)
(* Theorems about Units, for any finite set of units, any keysets the mint *)
(* may list and any number of requests.                                    *)
(*                                                                         *)
(* The registry and the configuration are written at different times;     *)
(* IInv says what the loop holds between the two.                          *)
(***************************************************************************)
EXTENDS Units, FiniteSetTheorems, WellFoundedInduction, TLAPS

\* A refresh that is not advertised yet is the one in the registry, if it could
\* be built; it has a unit to mint into in any case.
PendingIsRegistered ==
  probe.at = "refreshed" =>
    /\ DOMAIN probe.valid \subseteq PopUnits /\ Newest(probe.valid) \in DOMAIN probe.valid
    /\ Builds(probe.valid) => registry = Registry(probe.valid)

IInv ==
  /\ TypeOK
  /\ Builds(registry.valid)
  /\ PendingIsRegistered
  /\ AdvertisedInStep

------------------------------------------------------------------------------
(* The choices of the latest date and of the newest unit. *)

\* A finite set has an element that none is above, in any strict order: the
\* one with the least set above it.
LEMMA HasMaximal ==
  ASSUME NEW S, IsFiniteSet(S), S # {}, NEW R,
         \A x \in S : <<x, x>> \notin R,
         \A x, y, z \in S : <<x, y>> \in R /\ <<y, z>> \in R => <<x, z>> \in R
  PROVE  \E x \in S : \A y \in S : <<x, y>> \notin R
<1> DEFINE Above(x) == {y \in S : <<x, y>> \in R}
           T == {Above(x) : x \in S}
<1>1. T \subseteq FiniteSubsetsOf(S) /\ T # {}
  <2>1. \A x \in S : Above(x) \in SUBSET S
    OBVIOUS
  <2> HIDE DEF Above
  <2>2. \A x \in S : Above(x) \in FiniteSubsetsOf(S)
    BY <2>1, FS_Subset DEF FiniteSubsetsOf
  <2> QED BY <2>2
<1>2. IsWellFoundedOn(StrictSubsetOrdering(S), FiniteSubsetsOf(S))
  BY FS_StrictSubsetOrderingWellFounded
<1>3. PICK U \in T : \A V \in T : <<V, U>> \notin StrictSubsetOrdering(S)
  <2> HIDE DEF T
  <2> QED BY <1>1, <1>2, WFMin
<1>4. PICK x \in S : U = Above(x)
  BY <1>3
<1>5. ASSUME NEW y \in S, <<x, y>> \in R PROVE FALSE
  <2>1. Above(y) \subseteq Above(x) /\ y \in Above(x) /\ y \notin Above(y)
    BY <1>5
  <2>2. Above(y) \in T /\ Above(x) \subseteq S
    <3>1. Above(x) \subseteq S
      OBVIOUS
    <3> HIDE DEF Above
    <3> QED BY <3>1
  <2>3. <<Above(y), Above(x)>> \in StrictSubsetOrdering(S)
    <3> HIDE DEF Above
    <3> QED BY <2>1, <2>2 DEF StrictSubsetOrdering
  <2> QED BY <1>3, <1>4, <2>2, <2>3
<1> QED BY <1>5

\* max_by of the dates of a unit.
LEMMA LatestIsLatest ==
  ASSUME NEW S \in SUBSET Time, S # {}
  PROVE  Latest(S) \in S /\ \A m \in S : m <= Latest(S)
<1> DEFINE R == {p \in S \X S : p[1] < p[2]}
<1>1. IsFiniteSet(S) /\ S \subseteq Nat
  <2>1. IsFiniteSet(0 .. MaxTime) /\ 0 .. MaxTime \subseteq Nat
    BY FS_Interval, UnitsAssumption
  <2> QED BY <2>1, FS_Subset DEF Time
<1>2. \A x, y \in S : <<x, y>> \in R <=> x < y
  OBVIOUS
<1>3. \E x \in S : \A y \in S : <<x, y>> \notin R
  <2>1. \A x \in S : <<x, x>> \notin R
    BY <1>1
  <2>2. \A x, y, z \in S : <<x, y>> \in R /\ <<y, z>> \in R => <<x, z>> \in R
    BY <1>1
  <2> HIDE DEF R
  <2> QED BY <1>1, <2>1, <2>2, HasMaximal
<1>4. \E x \in S : \A y \in S : y <= x
  <2> HIDE DEF R
  <2>1. PICK x \in S : \A y \in S : <<x, y>> \notin R
    BY <1>3
  <2>2. \A y \in S : ~(x < y)
    BY <1>2, <2>1
  <2>3. \A y \in S : y <= x
    BY <1>1, <2>2
  <2> QED BY <2>3
<1> QED BY <1>4 DEF Latest

\* The last unit after the sort, of the units with a date.
LEMMA NewestIsNewest ==
  ASSUME NEW valid, DOMAIN valid \subseteq PopUnits, DOMAIN valid # {},
         \A u \in DOMAIN valid : valid[u] \in Time
  PROVE  Newest(valid) \in DOMAIN valid
<1> DEFINE D == DOMAIN valid
           Before(u, v) == valid[u] < valid[v] \/ (valid[u] = valid[v] /\ u < v)
           R == {p \in D \X D : Before(p[1], p[2])}
<1>1. IsFiniteSet(D) /\ D \subseteq Nat /\ \A u \in D : valid[u] \in Nat
  BY FS_Subset, UnitsAssumption DEF Time
<1>2. \A u, v \in D : <<u, v>> \in R <=> Before(u, v)
  OBVIOUS
<1>3. \E u \in D : \A v \in D : <<u, v>> \notin R
  <2>1. \A x \in D : <<x, x>> \notin R
    BY <1>1
  <2>2. \A x, y, z \in D : <<x, y>> \in R /\ <<y, z>> \in R => <<x, z>> \in R
    <3> SUFFICES ASSUME NEW x \in D, NEW y \in D, NEW z \in D, Before(x, y), Before(y, z)
                 PROVE  Before(x, z)
      BY <1>2
    <3> QED BY <1>1
  <2>3. D # {}
    OBVIOUS
  <2> HIDE DEF R, D
  <2> QED BY <1>1, <2>1, <2>2, <2>3, HasMaximal
<1>4. \E u \in D : \A v \in D : valid[v] < valid[u] \/ (valid[v] = valid[u] /\ v <= u)
  <2> HIDE DEF R
  <2>1. PICK u \in D : \A v \in D : <<u, v>> \notin R
    BY <1>3
  <2>2. \A v \in D : ~Before(u, v)
    BY <1>2, <2>1
  <2>3. \A v \in D : valid[v] < valid[u] \/ (valid[v] = valid[u] /\ v <= u)
    BY <1>1, <2>2
  <2> QED BY <2>3
<1> QED BY <1>4 DEF Newest

\* pick_valid_units: only pop units, each with a date still to come.
LEMMA PickedIsAlive ==
  ASSUME NEW S \in SUBSET Row, NEW t \in Time
  PROVE  /\ DOMAIN PickValid(S, t) \subseteq PopUnits
         /\ \A u \in DOMAIN PickValid(S, t) :
              PickValid(S, t)[u] \in Time /\ PickValid(S, t)[u] > t
         /\ PickValid(S, t) # << >> => DOMAIN PickValid(S, t) # {}
<1>1. \A u \in PopUnits : Dates(S, u, t) \subseteq {d \in Time : d > t}
  BY DEF Dates, Row
<1>2. \A u \in DOMAIN PickValid(S, t) :
        /\ u \in PopUnits /\ Dates(S, u, t) # {}
        /\ PickValid(S, t)[u] = Latest(Dates(S, u, t))
  BY DEF PickValid
<1>3. \A u \in DOMAIN PickValid(S, t) : PickValid(S, t)[u] \in Dates(S, u, t)
  BY <1>1, <1>2, LatestIsLatest
<1>4. DOMAIN PickValid(S, t) = {} => PickValid(S, t) = << >>
  BY DEF PickValid
<1> QED BY <1>1, <1>2, <1>3, <1>4

\* What is picked makes a registry that has a unit to mint into.
LEMMA RegistryOK ==
  ASSUME NEW S \in SUBSET Row, NEW t \in Time, PickValid(S, t) # << >>
  PROVE  LET reg == Registry(PickValid(S, t)) IN
         /\ reg.valid = PickValid(S, t) /\ DOMAIN reg.valid \subseteq PopUnits
         /\ reg.newest \in DOMAIN reg.valid
BY PickedIsAlive, NewestIsNewest DEF Registry

------------------------------------------------------------------------------
(* The steps. *)

Requested == [unit : PopUnits \cup {None}, gate : GateIds,
              at : {"new", "chosen"} \cup Outcomes]

\* The server boots with what it probed.
LEMMA InitIInv == Init => IInv
<1> SUFFICES ASSUME Init PROVE IInv
  OBVIOUS
<1> USE UnitsAssumption DEF Init
<1>1. BootRows \in SUBSET Row /\ 0 \in Time
  BY DEF Time
<1>2. DOMAIN registry.valid \subseteq PopUnits /\ registry.newest \in DOMAIN registry.valid
  BY <1>1, RegistryOK
<1>3. TypeOK
  BY <1>1, <1>2 DEF TypeOK, AtRest, Advert
<1>4. Builds(registry.valid) /\ PendingIsRegistered
  BY <1>1, RegistryOK DEF PendingIsRegistered, AtRest
<1>5. AdvertisedInStep
  BY <1>4 DEF AdvertisedInStep, Builds, Advert
<1> QED BY <1>3, <1>4, <1>5 DEF IInv

\* The refresh loop, step by step.
LEMMA LoopIInv == IInv /\ Loop => IInv'
<1> SUFFICES ASSUME IInv, Loop PROVE IInv'
  OBVIOUS
<1> USE UnitsAssumption DEF IInv, AtRest
<1>1. CASE Ask \/ Answer \/ ProbeFails \/ NoneValid
  <2>1. probe.at # "refreshed" /\ probe'.at # "refreshed"
        /\ probe'.at \in {"rest", "waiting", "answered"}
        /\ (probe'.at = "answered" => probe'.rows = rows)
    BY <1>1 DEF Ask, Answer, ProbeFails, NoneValid
  <2>2. UNCHANGED <<now, rows, registry, advertised, request>>
    BY <1>1 DEF Ask, Answer, ProbeFails, NoneValid, KeepOldSet
  <2>3. TypeOK'
    BY <2>1, <2>2 DEF TypeOK
  <2> QED BY <2>1, <2>2, <2>3 DEF PendingIsRegistered, AdvertisedInStep
<1>2. CASE Refresh
  <2> DEFINE valid == PickValid(probe.rows, now)
  <2>1. /\ probe.rows \in SUBSET Row /\ now \in Time /\ valid # << >>
        /\ registry' = IF Builds(valid) THEN Registry(valid) ELSE registry
        /\ probe' = [at |-> "refreshed", valid |-> valid]
        /\ UNCHANGED <<now, rows, advertised, request>>
    BY <1>2 DEF Refresh, TypeOK
  <2>2. LET reg == Registry(valid) IN
        /\ reg.valid = valid /\ DOMAIN reg.valid \subseteq PopUnits
        /\ reg.newest \in DOMAIN reg.valid
    BY <2>1, RegistryOK
  <2>3. Newest(valid) = Registry(valid).newest
    BY DEF Registry
  <2> HIDE DEF valid
  <2>4. TypeOK'
    BY <2>1, <2>2 DEF TypeOK
  <2>5. Builds(registry'.valid)
    BY <2>1, <2>2
  <2>6. PendingIsRegistered'
    BY <2>1, <2>2, <2>3 DEF PendingIsRegistered
  <2>7. AdvertisedInStep'
    BY <2>1 DEF AdvertisedInStep
  <2> QED BY <2>4, <2>5, <2>6, <2>7 DEF Builds
<1>3. CASE Advertise
  <2>1. /\ Builds(probe.valid) => registry = Registry(probe.valid)
        /\ DOMAIN probe.valid \subseteq PopUnits /\ Newest(probe.valid) \in DOMAIN probe.valid
        /\ probe'.at = "rest"
        /\ advertised' = [unit |-> Newest(probe.valid), accepted |-> DOMAIN probe.valid]
        /\ UNCHANGED <<now, rows, registry, request>>
    BY <1>3 DEF Advertise, PendingIsRegistered
  <2>2. TypeOK'
    BY <2>1 DEF TypeOK
  <2>3. ASSUME Builds(probe.valid) PROVE AdvertisedInStep'
    <3>1. advertised' = Advert(registry)
      BY <2>1, <2>3 DEF Advert, Registry
    <3> QED BY <2>1, <2>3, <3>1 DEF AdvertisedInStep, Builds
  <2>4. ASSUME ~Builds(probe.valid) PROVE AdvertisedInStep'
    <3>1. advertised'.accepted # DOMAIN registry.valid
      BY <2>1, <2>4 DEF Builds
    <3> QED BY <2>1, <2>4, <3>1 DEF AdvertisedInStep, Builds, Advert
  <2>5. AdvertisedInStep'
    BY <2>3, <2>4
  <2> QED BY <2>1, <2>2, <2>5 DEF PendingIsRegistered, Builds
<1> QED BY <1>1, <1>2, <1>3 DEF Loop

\* Every action keeps the inductive invariant.
LEMMA NextIInv == IInv /\ [Next]_vars => IInv'
<1> SUFFICES ASSUME IInv, [Next]_vars PROVE IInv'
  OBVIOUS
<1> USE UnitsAssumption
<1>1. CASE Tick
  <2>1. now' \in Time
    BY <1>1 DEF Tick, IInv, TypeOK, Time
  <2> QED BY <1>1, <2>1 DEF Tick, IInv, TypeOK, PendingIsRegistered, AdvertisedInStep
<1>2. ASSUME NEW r \in Rotation, AddKeyset(r) PROVE IInv'
  <2>1. rows' \subseteq Row
    BY <1>2 DEF AddKeyset, IInv, TypeOK
  <2> QED BY <1>2, <2>1 DEF AddKeyset, IInv, TypeOK, PendingIsRegistered, AdvertisedInStep
<1>3. CASE Loop
  BY <1>3, LoopIInv
<1>4. ASSUME NEW r \in Requests, NEW declared \in PopUnits \cup {None},
             ChooseUnit(r, declared) \/ Resolve(r)
      PROVE  IInv'
  <2>1. request \in [Requests -> Requested] /\ request[r] \in Requested
        /\ registry.newest \in PopUnits
    BY DEF IInv, TypeOK, Requested
  <2>2. request' \in [Requests -> Requested]
    <3>1. CASE ChooseUnit(r, declared)
      <4> DEFINE u == IF declared = None THEN registry.newest ELSE declared
      <4>1. u \in PopUnits
        BY <2>1
      <4>2. request' = [request EXCEPT ![r] = [[@ EXCEPT !.at = "chosen"] EXCEPT !.unit = u]]
        BY <2>1, <3>1 DEF ChooseUnit, Requested
      <4> HIDE DEF u
      <4>3. [[request[r] EXCEPT !.at = "chosen"] EXCEPT !.unit = u] \in Requested
        <5>1. [request[r] EXCEPT !.at = "chosen"] \in Requested
          BY <2>1 DEF Requested
        <5> QED BY <4>1, <5>1 DEF Requested
      <4> QED BY <2>1, <4>2, <4>3
    <3>2. CASE Resolve(r)
      <4>1. request' = [request EXCEPT ![r] = [@ EXCEPT !.at = Resolved(request[r])]]
        BY <2>1, <3>2 DEF Resolve
      <4>2. Resolved(request[r]) \in Outcomes
        BY DEF Resolved, Outcomes
      <4>3. [request[r] EXCEPT !.at = Resolved(request[r])] \in Requested
        BY <2>1, <4>2 DEF Requested
      <4> QED BY <2>1, <4>1, <4>3
    <3> QED BY <1>4, <3>1, <3>2
  <2>3. UNCHANGED <<now, rows, probe, registry, advertised>>
    BY <1>4 DEF ChooseUnit, Resolve
  <2> QED BY <2>2, <2>3 DEF IInv, TypeOK, PendingIsRegistered, AdvertisedInStep, Requested
<1>5. CASE UNCHANGED vars
  BY <1>5 DEF vars, IInv, TypeOK, PendingIsRegistered, AdvertisedInStep
<1> QED BY <1>1, <1>2, <1>3, <1>4, <1>5 DEF Next

------------------------------------------------------------------------------
(* The theorems. *)

\* The strengthening holds in every reachable state.
THEOREM Invariance == Spec => []IInv
  BY InitIInv, NextIInv, PTL DEF Spec

\* The variables keep their types: there is always a unit to mint into, and
\* only pop units are accepted.
THEOREM TypeCorrect == Spec => []TypeOK
<1>1. IInv => TypeOK
  BY DEF IInv
<1> QED BY <1>1, Invariance, PTL

\* main.rs: what GET /config says is what the gates take, but for the moment
\* between the two writes of a refresh, and for the time after a refresh that
\* could not be built, when it never is.
THEOREM AdvertisesTheRegistry == Spec => []AdvertisedInStep
<1>1. IInv => AdvertisedInStep
  BY DEF IInv
<1> QED BY <1>1, Invariance, PTL

\* multiunit.rs: the clock is read after the mint's answer came, so no unit
\* enters the registry with its date behind it.
THEOREM OnlyLiveUnitsEnter == Spec => NoDeadUnitEnters
<1>1. IInv /\ [Next]_vars => EntersAlive
  <2> SUFFICES ASSUME IInv, [Next]_vars, NEW u \in DOMAIN registry'.valid \ DOMAIN registry.valid
               PROVE  registry'.valid[u] > now
    BY DEF EntersAlive
  <2>1. Refresh
    BY DEF Next, Tick, AddKeyset, Loop, Ask, Answer, ProbeFails, NoneValid, KeepOldSet,
       Advertise, ChooseUnit, Resolve, vars
  <2>2. /\ probe.rows \in SUBSET Row /\ now \in Time
        /\ registry' # registry => registry'.valid = PickValid(probe.rows, now)
    BY <2>1 DEF Refresh, Registry, IInv, TypeOK
  <2> QED BY <2>2, PickedIsAlive
<1> QED BY <1>1, Invariance, PTL DEF Spec, NoDeadUnitEnters
==============================================================================
