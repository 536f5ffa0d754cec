--------------------------- MODULE BellTimingProofs ---------------------------
(***************************************************************************)
(* Theorems about BellTiming, for every period, tolerance and time to live *)
(* and any number of plays.                                                *)
(*                                                                         *)
(* Which play a press is judged on, and which timers an overlay may meet,  *)
(* was settled when the plays were paid for: IInv keeps that order, that a *)
(* press or a timer only ever belongs to a play of the past or to the one  *)
(* on the screen once it is pressed.                                       *)
(***************************************************************************)
EXTENDS BellTiming, TLAPS

\* The server's entry, if there is one, is of the play started last.
LiveIsLast == live = NoPlay \/ live.id = played

\* While the next play is paid for, no bell is active; once it is started
\* there has been a play.
PaysWhileIdle ==
  /\ asked # "no" => ~BellActive
  /\ asked = "answered" => played > 0
  /\ bell.id = 0 => bell.pressed

\* A play with a press or a timer was started, is not the one whose answer is
\* under way, and is older than an active overlay.
PastPlays ==
  \A p \in Plays : press[p] # "none" \/ closer[p] # NoTimer =>
    /\ p <= played
    /\ asked = "answered" => p < played
    /\ BellActive => p < bell.id

IInv ==
  /\ TypeOK
  /\ LiveIsLast
  /\ PaysWhileIdle
  /\ PastPlays

------------------------------------------------------------------------------
(* The swing. *)

\* Multiples grow with their factor.
LEMMA MultiplesGrow ==
  ASSUME NEW h \in Nat, NEW k \in Nat, NEW q \in Nat, k <= q
  PROVE  k * h <= q * h
<1> DEFINE d == q - k
<1>1. d \in Nat /\ q = k + d
  OBVIOUS
<1>2. d * h \in Nat /\ k * h \in Nat
  BY <1>1
<1>3. q * h = k * h + d * h
  BY <1>1
<1> HIDE DEF d
<1> QED BY <1>2, <1>3

\* bell_offset_ms is the distance to the nearest multiple of half a period:
\* it is within the tolerance iff some multiple is.
LEMMA HitIsNear ==
  ASSUME NEW age \in Nat
  PROVE  Hit(age) <=> \E k \in 0 .. age \div Half + 1 :
                        age - k * Half \in -Tolerance .. Tolerance
<1> USE BellAssumption
<1> DEFINE q == age \div Half
           phase == age % Half
<1>1. q \in Nat /\ phase \in 0 .. Half - 1
  OBVIOUS
<1>2. phase = age - Half * q
  OBVIOUS
<1>3. Half * q = q * Half /\ q * Half \in Nat
  BY <1>1
<1>4. (q + 1) * Half = q * Half + Half
  BY <1>1
<1>5. Hit(age) <=> phase <= Tolerance \/ Half - phase <= Tolerance
  BY <1>1 DEF Hit, Offset
<1> HIDE DEF q, phase
<1>6. ASSUME Hit(age)
      PROVE  \E k \in 0 .. q + 1 : age - k * Half \in -Tolerance .. Tolerance
  <2>1. CASE phase <= Tolerance
    <3>1. age - q * Half \in -Tolerance .. Tolerance
      BY <1>1, <1>2, <1>3, <2>1
    <3> QED BY <1>1, <3>1
  <2>2. CASE Half - phase <= Tolerance
    <3>1. age - (q + 1) * Half \in -Tolerance .. Tolerance
      BY <1>1, <1>2, <1>3, <1>4, <2>2
    <3>2. q + 1 \in 0 .. q + 1
      BY <1>1
    <3> QED BY <3>1, <3>2
  <2> QED BY <1>5, <1>6, <2>1, <2>2
<1>7. ASSUME NEW k \in 0 .. q + 1, age - k * Half \in -Tolerance .. Tolerance
      PROVE  Hit(age)
  <2>1. CASE k <= q
    <3>1. k * Half <= q * Half /\ k * Half \in Nat
      BY <1>1, <2>1, MultiplesGrow
    <3> QED BY <1>1, <1>2, <1>3, <1>5, <1>7, <3>1
  <2>2. CASE k = q + 1
    <3>1. age - (q * Half + Half) \in -Tolerance .. Tolerance
      BY <1>4, <1>7, <2>2
    <3> QED BY <1>1, <1>2, <1>3, <1>5, <3>1
  <2> QED BY <1>1, <2>1, <2>2
<1> QED BY <1>6, <1>7 DEF q

------------------------------------------------------------------------------
(* The steps. *)

\* An overlay is active as long as it is not pressed, and is then of a play.
LEMMA ActiveIsUnpressed ==
  ASSUME TypeOK, PaysWhileIdle
  PROVE  /\ BellActive <=> ~bell.pressed
         /\ BellActive => bell.id \in Plays /\ asked = "no"
<1>1. ~bell.pressed => bell # NoBell /\ bell.id # 0
  BY DEF PaysWhileIdle, NoBell
<1>2. bell.id \in 0 .. played /\ played \in 0 .. MaxPlays
  BY DEF TypeOK
<1> QED BY <1>1, <1>2, BellAssumption DEF BellActive, PaysWhileIdle, Plays, TypeOK

\* What is left of a timer stays in its bounds.
LEMMA LaterStays ==
  ASSUME NEW n \in Nat
  PROVE  /\ \A left \in 0 .. n : Later(left) \in 0 .. n
         /\ \A left \in NoTimer .. n :
              Later(left) \in NoTimer .. n /\ (Later(left) # NoTimer => left # NoTimer)
  BY DEF Later, NoTimer

\* Both fades are a number that a timer may have left.
LEMMA FadeIsNat == Fade \in Nat /\ ResultFade \in NoTimer .. Fade /\ ExpiryFade \in NoTimer .. Fade
  BY BellAssumption DEF Fade, NoTimer

\* No play was paid for in the initial states.
LEMMA InitIInv == Init => IInv
<1> SUFFICES ASSUME Init PROVE IInv
  OBVIOUS
<1> USE BellAssumption, FadeIsNat DEF Init, NoPlay, NoBell
<1>1. TypeOK
  <2>1. press \in [Plays -> Verdicts]
    BY DEF Verdicts
  <2>2. closer \in [Plays -> NoTimer .. Fade]
    BY DEF NoTimer
  <2>3. live \in [id : 0 .. played, age : 0 .. TTL + 1]
        /\ bell \in [id : 0 .. played, left : 0 .. TTL, pressed : BOOLEAN]
    OBVIOUS
  <2> QED BY <2>1, <2>2, <2>3 DEF TypeOK
<1>2. LiveIsLast /\ PaysWhileIdle
  BY DEF LiveIsLast, PaysWhileIdle, BellActive
<1>3. PastPlays
  BY DEF PastPlays, Plays
<1> QED BY <1>1, <1>2, <1>3 DEF IInv

\* The server's steps leave the overlay and the timers alone.
LEMMA ServerIInv == IInv /\ Server => IInv'
<1> USE BellAssumption DEF NoPlay, NoBell
<1>1. ASSUME IInv, StartPlay PROVE IInv'
  <2> USE <1>1 DEF IInv, StartPlay
  <2>1. played \in 0 .. MaxPlays /\ played' = played + 1 /\ played' \in 0 .. MaxPlays
    BY DEF TypeOK
  <2>2. bell' \in [id : 0 .. played', left : 0 .. TTL, pressed : BOOLEAN]
    BY <2>1 DEF TypeOK
  <2>3. live' \in [id : 0 .. played', age : 0 .. TTL + 1]
    BY <2>1
  <2>4. TypeOK'
    BY <2>1, <2>2, <2>3 DEF TypeOK
  <2>5. LiveIsLast'
    BY DEF LiveIsLast
  <2>6. ~BellActive /\ ~BellActive' /\ PaysWhileIdle'
    BY <2>1 DEF PaysWhileIdle, BellActive
  <2>7. PastPlays'
    BY <2>1, <2>6 DEF PastPlays, Plays
  <2> QED BY <2>4, <2>5, <2>6, <2>7
<1>2. ASSUME IInv, RefusePlay PROVE IInv'
  <2> USE <1>2 DEF IInv, RefusePlay
  <2>1. TypeOK' /\ LiveIsLast'
    BY DEF TypeOK, LiveIsLast
  <2>2. PaysWhileIdle' /\ PastPlays'
    BY DEF PaysWhileIdle, PastPlays, BellActive
  <2> QED BY <2>1, <2>2
<1>3. ASSUME IInv, NEW p \in Plays, Judge(p) PROVE IInv'
  <2> USE <1>3 DEF IInv, Judge
  <2>1. TypeOK'
    <3>1. press' \in [Plays -> Verdicts]
      BY DEF TypeOK, Verdicts
    <3>2. live' \in [id : 0 .. played', age : 0 .. TTL + 1]
      BY DEF TypeOK
    <3> QED BY <3>1, <3>2 DEF TypeOK
  <2>2. LiveIsLast' /\ PaysWhileIdle'
    BY DEF LiveIsLast, PaysWhileIdle, BellActive
  <2>3. PastPlays'
    <3>1. \A q \in Plays : press'[q] # "none" => press[q] # "none"
      BY DEF TypeOK
    <3> QED BY <3>1 DEF PastPlays, BellActive
  <2> QED BY <2>1, <2>2, <2>3
<1> QED BY <1>1, <1>2, <1>3 DEF Server

\* The page's steps.
LEMMA PageIInv == IInv /\ Page => IInv'
<1> USE BellAssumption
<1>1. ASSUME IInv, PayForBell PROVE IInv'
  <2> USE <1>1 DEF IInv, PayForBell
  <2>1. TypeOK' /\ LiveIsLast'
    BY DEF TypeOK, LiveIsLast
  <2>2. PaysWhileIdle' /\ PastPlays'
    BY DEF PaysWhileIdle, PastPlays, BellActive
  <2> QED BY <2>1, <2>2
<1>2. ASSUME IInv, StartBell PROVE IInv'
  <2> USE <1>2 DEF IInv, StartBell
  <2>1. played \in 0 .. MaxPlays /\ played > 0 /\ bell'.id = played
    BY DEF TypeOK, PaysWhileIdle
  <2>2. TypeOK'
    <3>1. bell' \in [id : 0 .. played', left : 0 .. TTL, pressed : BOOLEAN]
      BY <2>1
    <3> QED BY <3>1 DEF TypeOK
  <2>3. LiveIsLast'
    BY DEF LiveIsLast
  <2>4. PaysWhileIdle'
    BY <2>1 DEF PaysWhileIdle
  <2>5. PastPlays'
    BY <2>1 DEF PastPlays
  <2> QED BY <2>2, <2>3, <2>4, <2>5
<1>3. ASSUME IInv, PressBell PROVE IInv'
  <2> USE <1>3 DEF IInv, PressBell
  <2>1. bell.id \in Plays /\ asked = "no" /\ bell.id <= played
    BY ActiveIsUnpressed DEF TypeOK
  <2>2. bell'.pressed /\ bell'.id = bell.id /\ ~BellActive'
        /\ bell' \in [id : 0 .. played, left : 0 .. TTL, pressed : BOOLEAN]
    BY DEF TypeOK, BellActive
  <2>3. TypeOK'
    <3>1. press' \in [Plays -> Verdicts]
      BY DEF TypeOK, Verdicts
    <3> QED BY <2>2, <3>1 DEF TypeOK
  <2>4. LiveIsLast' /\ PaysWhileIdle'
    BY <2>1, <2>2 DEF LiveIsLast, PaysWhileIdle
  <2>5. PastPlays'
    <3>1. \A q \in Plays : press'[q] # "none" => press[q] # "none" \/ q = bell.id
      BY DEF TypeOK
    <3> QED BY <2>1, <2>2, <3>1 DEF PastPlays
  <2> QED BY <2>3, <2>4, <2>5
<1>4. ASSUME IInv, TickFrame PROVE IInv'
  <2> USE <1>4 DEF IInv, TickFrame
  <2>1. bell.id \in Plays /\ asked = "no" /\ bell.id <= played
    BY ActiveIsUnpressed DEF TypeOK
  <2>2. bell'.pressed /\ bell'.id = bell.id /\ ~BellActive'
        /\ bell' \in [id : 0 .. played, left : 0 .. TTL, pressed : BOOLEAN]
    BY DEF TypeOK, BellActive
  <2>3. TypeOK'
    <3>1. closer' \in [Plays -> NoTimer .. Fade]
      BY FadeIsNat DEF TypeOK
    <3> QED BY <2>2, <3>1 DEF TypeOK
  <2>4. LiveIsLast' /\ PaysWhileIdle'
    BY <2>1, <2>2 DEF LiveIsLast, PaysWhileIdle
  <2>5. PastPlays'
    <3>1. \A q \in Plays : closer'[q] # NoTimer => closer[q] # NoTimer \/ q = bell.id
      BY DEF TypeOK
    <3> QED BY <2>1, <2>2, <3>1 DEF PastPlays
  <2> QED BY <2>3, <2>4, <2>5
<1>5. ASSUME IInv, NEW p \in Plays, BellResult(p) PROVE IInv'
  <2> USE <1>5 DEF IInv, BellResult
  <2>1. press[p] # "none"
    OBVIOUS
  <2>2. TypeOK'
    <3>1. press' \in [Plays -> Verdicts]
      BY DEF TypeOK, Verdicts
    <3>2. closer' \in [Plays -> NoTimer .. Fade]
      BY FadeIsNat DEF TypeOK
    <3> QED BY <3>1, <3>2 DEF TypeOK
  <2>3. LiveIsLast' /\ PaysWhileIdle'
    BY DEF LiveIsLast, PaysWhileIdle, BellActive
  <2>4. PastPlays'
    <3>1. \A q \in Plays : press'[q] # "none" => press[q] # "none" \/ q = p
      BY DEF TypeOK
    <3>2. \A q \in Plays : closer'[q] # NoTimer => closer[q] # NoTimer \/ q = p
      BY DEF TypeOK
    <3> QED BY <2>1, <3>1, <3>2 DEF PastPlays, BellActive
  <2> QED BY <2>2, <2>3, <2>4
<1>6. ASSUME IInv, NEW p \in Plays, CloseBell(p) PROVE IInv'
  <2> USE <1>6 DEF IInv, CloseBell
  <2>1. bell'.pressed /\ bell'.id = 0 /\ ~BellActive'
    BY DEF NoBell, BellActive
  <2>2. TypeOK'
    <3>1. closer' \in [Plays -> NoTimer .. Fade]
      BY FadeIsNat DEF TypeOK, NoTimer
    <3>2. bell' \in [id : 0 .. played', left : 0 .. TTL, pressed : BOOLEAN]
      BY DEF TypeOK, NoBell
    <3> QED BY <3>1, <3>2 DEF TypeOK
  <2>3. LiveIsLast' /\ PaysWhileIdle'
    BY <2>1 DEF LiveIsLast, PaysWhileIdle
  <2>4. PastPlays'
    <3>1. \A q \in Plays : closer'[q] # NoTimer => closer[q] # NoTimer
      BY DEF TypeOK
    <3> QED BY <2>1, <3>1 DEF PastPlays
  <2> QED BY <2>2, <2>3, <2>4
<1> QED BY <1>1, <1>2, <1>3, <1>4, <1>5, <1>6 DEF Page

\* Time passes for the server and the page alike.
LEMMA TickIInv == IInv /\ Tick => IInv'
<1> SUFFICES ASSUME IInv, Tick PROVE IInv'
  OBVIOUS
<1> USE BellAssumption DEF IInv, Tick
<1>1. bell'.id = bell.id /\ bell'.pressed = bell.pressed
      /\ bell' \in [id : 0 .. played, left : 0 .. TTL, pressed : BOOLEAN]
  BY LaterStays DEF TypeOK
<1>2. live' \in [id : 0 .. played, age : 0 .. TTL + 1] /\ live'.id = live.id
  BY DEF TypeOK
<1>3. closer' \in [Plays -> NoTimer .. Fade]
  BY LaterStays, FadeIsNat DEF TypeOK
<1>4. TypeOK'
  BY <1>1, <1>2, <1>3 DEF TypeOK
<1>5. LiveIsLast'
  BY <1>2 DEF LiveIsLast, NoPlay
<1>6. BellActive' => BellActive
  <2>1. ~bell'.pressed => BellActive
    BY <1>1, ActiveIsUnpressed
  <2> QED BY <2>1 DEF BellActive
<1>7. PaysWhileIdle'
  BY <1>1, <1>6 DEF PaysWhileIdle
<1>8. PastPlays'
  <2>1. \A q \in Plays : closer'[q] # NoTimer => closer[q] # NoTimer
    BY LaterStays, FadeIsNat DEF TypeOK
  <2> QED BY <1>1, <1>6, <2>1 DEF PastPlays
<1> QED BY <1>4, <1>5, <1>7, <1>8

\* Every action keeps the inductive invariant.
LEMMA NextIInv == IInv /\ [Next]_vars => IInv'
<1>1. IInv /\ UNCHANGED vars => IInv'
  BY DEF vars, IInv, TypeOK, LiveIsLast, PaysWhileIdle, PastPlays, BellActive
<1> QED BY <1>1, ServerIInv, PageIInv, TickIInv DEF Next

------------------------------------------------------------------------------
(* The theorems. *)

\* The strengthening holds in every reachable state.
THEOREM Invariance == Spec => []IInv
  BY InitIInv, NextIInv, PTL DEF Spec

\* The variables keep their types.
THEOREM TypeCorrect == Spec => []TypeOK
<1>1. IInv => TypeOK
  BY DEF IInv
<1> QED BY <1>1, Invariance, PTL

\* Only the server judges, and it judges the play it started last.
LEMMA StepJudges ==
  ASSUME IInv, [Next]_vars, NEW p \in Plays
  PROVE  JudgedByDistance(p)
<1> SUFFICES ASSUME press[p] = "sent", press'[p] \in {"hit", "miss"}
             PROVE  /\ live.id >= p /\ live.age <= TTL
                    /\ (press'[p] = "hit") <=>
                         \E k \in 0 .. live.age \div Half + 1 :
                           live.age - k * Half \in -Tolerance .. Tolerance
  BY DEF JudgedByDistance
<1> USE DEF IInv
<1>1. Judge(p)
  <2>1. ASSUME NEW q \in Plays, Judge(q) PROVE q = p
    BY <2>1 DEF Judge, TypeOK
  <2>2. ~(\E q \in Plays : BellResult(q))
    BY DEF BellResult, TypeOK
  <2>3. ~PressBell
    BY DEF PressBell, TypeOK
  <2> QED BY <2>1, <2>2, <2>3 DEF Next, Server, Page, vars, StartPlay, RefusePlay, PayForBell,
        StartBell, TickFrame, CloseBell, Tick
<1>2. live # NoPlay /\ ~(live.age > TTL) /\ (press'[p] = "hit" <=> Hit(live.age))
  BY <1>1 DEF Judge, TypeOK
<1>3. live.age \in Nat /\ live.age <= TTL /\ live.id = played /\ p <= played
  BY <1>2, BellAssumption DEF TypeOK, LiveIsLast, PastPlays
<1> QED BY <1>2, <1>3, HitIsNear DEF TypeOK, Plays

\* game.rs: a press is judged by its distance to the nearest bottom of the
\* swing, while the play lives, and never on a play older than its own.
THEOREM JudgesByDistance == Spec => VerdictIsDistance
<1>1. IInv /\ [Next]_vars => \A p \in Plays : JudgedByDistance(p)
  BY StepJudges
<1> QED BY <1>1, Invariance, PTL DEF Spec, VerdictIsDistance

\* An active overlay is only closed by the timer of an older play: PastPlays
\* says whose timers run, and no new play is started meanwhile.
LEMMA StepCloses == IInv /\ [Next]_vars => ClosedByOlder
<1> SUFFICES ASSUME IInv, [Next]_vars, BellActive, bell'.id # bell.id
             PROVE  \E p \in Plays : closer[p] = 0 /\ p < bell.id
  BY DEF ClosedByOlder
<1> USE DEF IInv
<1>1. \E p \in Plays : CloseBell(p)
  <2>1. ~StartBell
    BY ActiveIsUnpressed DEF StartBell
  <2>2. ~PressBell /\ ~TickFrame /\ ~Tick
    BY DEF PressBell, TickFrame, Tick, TypeOK
  <2> QED BY <2>1, <2>2 DEF Next, Server, Page, vars, StartPlay, RefusePlay, Judge, PayForBell,
        BellResult
<1>2. PICK p \in Plays : CloseBell(p)
  BY <1>1
<1>3. closer[p] = 0 /\ p < bell.id
  BY <1>2 DEF CloseBell, PastPlays, NoTimer
<1> QED BY <1>3

\* main.ts: a live play is lost only to the timer of an earlier one.
THEOREM OnlyOlderClose == Spec => LostOnlyToOlder
  BY Invariance, StepCloses, PTL DEF Spec, LostOnlyToOlder
==============================================================================
