------------------------------ MODULE BellTiming ------------------------------
(***************************************************************************)
(* The timing bell of one session: the overlay that shows a play           *)
(* (client/src/booths.ts, main.ts) and the server that keeps one play per  *)
(* session and judges a press by its own clock (play_bell_start and        *)
(* play_bell_press of game.rs, bell_offset_ms of booth.rs).  Requests and  *)
(* answers take any time, a press and the next paid start may overtake     *)
(* each other, and the timers that close an overlay run on.                *)
(*                                                                         *)
(* Time counts in steps.  A clock is kept as the age of the server's play  *)
(* or as what is left until a deadline; a deadline once due may be late,   *)
(* as frames and timers of a browser are.                                  *)
(***************************************************************************)
EXTENDS Integers

CONSTANTS
  Period,      \* BELL_PERIOD_MS
  Tolerance,   \* BELL_TOLERANCE_MS
  TTL,         \* BELL_PLAY_TTL
  ResultFade,  \* how long a verdict stays on the screen
  ExpiryFade,  \* how long "the moment passed" stays
  MaxPlays     \* bound: plays the session pays for

Half == Period \div 2
Plays == 1 .. MaxPlays
Fade == IF ResultFade > ExpiryFade THEN ResultFade ELSE ExpiryFade
ASSUME BellAssumption ==
  /\ Half \in Nat \ {0} /\ Tolerance \in Nat /\ TTL \in Nat
  /\ ResultFade \in Nat /\ ExpiryFade \in Nat /\ MaxPlays \in Nat

VARIABLES
  asked,    \* the paid start under way: "no", "sent", or "answered"
  played,   \* the plays started so far: the last one is number played
  live,     \* the server's entry for the session: NoPlay, or which play, how old
  bell,     \* the overlay: NoBell, or which play, until when, pressed or not
  press,    \* per play, the press its overlay made: "none", "sent", "judged", "over"
  closer    \* per play, what is left of the timer that will close the overlay

vars == <<asked, played, live, bell, press, closer>>

NoPlay == [id |-> 0, age |-> 0]
NoBell == [id |-> 0, left |-> 0, pressed |-> TRUE]
NoTimer == -1

\* Mutant: the phase alone, which is far off just before a crossing.
OffsetOneSided(elapsed) == elapsed % Half

\* bell_offset_ms: the distance to the nearest bottom of the swing.
Offset(elapsed) ==
  LET phase == elapsed % Half IN IF phase <= Half - phase THEN phase ELSE Half - phase

Hit(elapsed) == Offset(elapsed) <= Tolerance

Verdicts == {"none", "sent", "hit", "miss", "gone", "over"}

TypeOK ==
  /\ asked \in {"no", "sent", "answered"}
  /\ played \in 0 .. MaxPlays
  /\ live \in [id : 0 .. played, age : 0 .. TTL + 1]
  /\ bell \in [id : 0 .. played, left : 0 .. TTL, pressed : BOOLEAN]
  /\ press \in [Plays -> Verdicts]
  /\ closer \in [Plays -> NoTimer .. Fade]

Init ==
  /\ asked = "no" /\ played = 0
  /\ live = NoPlay /\ bell = NoBell
  /\ press = [p \in Plays |-> "none"]
  /\ closer = [p \in Plays |-> NoTimer]

\* bellActive
BellActive == bell # NoBell /\ ~bell.pressed

------------------------------------------------------------------------------
(* The server. *)

\* play_bell_start, once the payment is redeemed: the new play takes the place
\* of any other of the session.
StartPlay ==
  /\ asked = "sent" /\ played < MaxPlays
  /\ asked' = "answered"
  /\ played' = played + 1
  /\ live' = [id |-> played + 1, age |-> 0]
  /\ UNCHANGED <<bell, press, closer>>

\* The payment, or the place where the payer stands, is refused.
RefusePlay ==
  /\ asked = "sent"
  /\ asked' = "no"
  /\ UNCHANGED <<played, live, bell, press, closer>>

\* play_bell_press, for the press of play p: whatever play the session has is
\* judged, if it has not run out, and is gone.
Judge(p) ==
  /\ press[p] = "sent"
  /\ live' = NoPlay
  /\ press' = [press EXCEPT ![p] =
       IF live = NoPlay \/ live.age > TTL THEN "gone"
       ELSE IF Hit(live.age) THEN "hit" ELSE "miss"]
  /\ UNCHANGED <<asked, played, bell, closer>>

------------------------------------------------------------------------------
(* The page. *)

\* playBell: [E] at the booth, as long as no bell is active and no payment runs.
PayForBell ==
  /\ asked = "no" /\ ~BellActive /\ played < MaxPlays
  /\ asked' = "sent"
  /\ UNCHANGED <<played, live, bell, press, closer>>

\* startBell, on the answer: the overlay of the new play replaces any other.
StartBell ==
  /\ asked = "answered"
  /\ asked' = "no"
  /\ bell' = [id |-> played, left |-> TTL, pressed |-> FALSE]
  /\ UNCHANGED <<played, live, press, closer>>

\* Mutant: the overlay does not remember that it was pressed.
PressUnmarked ==
  /\ BellActive
  /\ press' = [press EXCEPT ![bell.id] = "sent"]
  /\ UNCHANGED <<asked, played, live, bell, closer>>

\* pressBell, up to its request: [E] while the bell is active.
PressBell ==
  /\ BellActive
  /\ bell' = [bell EXCEPT !.pressed = TRUE]
  /\ press' = [press EXCEPT ![bell.id] = "sent"]
  /\ UNCHANGED <<asked, played, live, closer>>

\* Mutant: a refused press leaves the overlay as it is.
BellResultIfJudged(p) ==
  /\ press[p] \in {"hit", "miss", "gone", "sent"}
  /\ press' = [press EXCEPT ![p] = "over"]
  /\ closer' = [closer EXCEPT ![p] = IF press[p] \in {"hit", "miss"} THEN ResultFade ELSE @]
  /\ UNCHANGED <<asked, played, live, bell>>

\* bellResult, on the verdict, a refusal, or a request that failed on its way.
BellResult(p) ==
  /\ press[p] \in {"hit", "miss", "gone", "sent"}
  /\ press' = [press EXCEPT ![p] = "over"]
  /\ closer' = [closer EXCEPT ![p] = ResultFade]
  /\ UNCHANGED <<asked, played, live, bell>>

\* tick: the frame that finds the play of the overlay run out.
TickFrame ==
  /\ BellActive /\ bell.left = 0
  /\ bell' = [bell EXCEPT !.pressed = TRUE]
  /\ closer' = [closer EXCEPT ![bell.id] = ExpiryFade]
  /\ UNCHANGED <<asked, played, live, press>>

\* closeBell, by the timer that play p set: it closes whatever is shown.
CloseBell(p) ==
  /\ closer[p] = 0
  /\ bell' = NoBell
  /\ closer' = [closer EXCEPT ![p] = NoTimer]
  /\ UNCHANGED <<asked, played, live, press>>

------------------------------------------------------------------------------

\* A step of time, for the server and the page alike.  Mutant: what is due goes on.
LaterUnchecked(left) == left - 1
Later(left) == IF left > 0 THEN left - 1 ELSE left
Tick ==
  /\ live' = IF live # NoPlay /\ live.age <= TTL THEN [live EXCEPT !.age = @ + 1] ELSE live
  /\ bell' = [bell EXCEPT !.left = Later(@)]
  /\ closer' = [p \in Plays |-> Later(closer[p])]
  /\ UNCHANGED <<asked, played, press>>

Server == StartPlay \/ RefusePlay \/ \E p \in Plays : Judge(p)
Page == PayForBell \/ StartBell \/ PressBell \/ TickFrame
          \/ \E p \in Plays : BellResult(p) \/ CloseBell(p)
Next == Server \/ Page \/ Tick

\* Frames and timers come, and a request is answered or fails.
Fairness ==
  /\ WF_vars(Tick) /\ WF_vars(TickFrame)
  /\ \A p \in Plays : WF_vars(BellResult(p)) /\ WF_vars(CloseBell(p))

Spec == Init /\ [][Next]_vars /\ Fairness

------------------------------------------------------------------------------
(* Properties *)

\* play_bell_press: a hit is a press that arrives within the tolerance of some
\* bottom of the swing, on either side of it, while the play lives, and a miss
\* is not.  The play judged is the one whose overlay was pressed or one paid
\* for since, never an older one.
JudgedByDistance(p) ==
  press[p] = "sent" /\ press'[p] \in {"hit", "miss"} =>
    /\ live.id >= p /\ live.age <= TTL
    /\ (press'[p] = "hit") <=>
         \E k \in 0 .. live.age \div Half + 1 :
           live.age - k * Half \in -Tolerance .. Tolerance

\* Of every press that is judged, as JudgedByDistance says.
VerdictIsDistance == [][\A p \in Plays : JudgedByDistance(p)]_vars

\* main.ts: "While a bell play is live, [E] RINGS it".  The overlay of a play
\* that was neither pressed nor run out goes away only when the timer that an
\* earlier play left behind closes it: never by its own, and never for a new play.
ClosedByOlder ==
  BellActive /\ bell'.id # bell.id => \E p \in Plays : closer[p] = 0 /\ p < bell.id

\* Of every step of the session, as ClosedByOlder says.
LostOnlyToOlder == [][ClosedByOlder]_vars

\* An overlay never stays: pressed or not, answered or not, every play's
\* overlay is gone at last and the booth can be played again.
OverlayCloses == (bell # NoBell) ~> (bell = NoBell)
==============================================================================
