-------------------------------- MODULE World --------------------------------
(***************************************************************************)
(* Where a session is and what it can touch: the geometry and movement     *)
(* rules of server/src/world.rs, the jump, and the reach check that stands *)
(* before every claim and play (game.rs).  Sessions do not collide, so one *)
(* is enough.                                                              *)
(*                                                                         *)
(* Lengths are integers.  On the ground plane the unit is a tenth of a     *)
(* world unit.  Heights are in 150ths of one, and vertical speeds in 150ths *)
(* per tick (at 15 ticks a second), in which the jump of the code is exact. *)
(* The positions TLC walks are those of a grid; the server's are doubles.  *)
(***************************************************************************)
EXTENDS Integers, Sequences

CONSTANTS
  WorldSpec,   \* World of protocol.rs: street, courts, stalls and targets
  GhostSpawn, BodySpawn,
  Stride,      \* the length of one tick's walk: speed * dt
  JumpVy, GravityPerTick,
  Range,       \* INTERACT_RANGE
  Walks        \* bound: for each behaviour where it may go, on what grid, the
               \* courts it may pay for, and whether it jumps

\* The street's rectangle; for each court its bounds and the door in its lower
\* wall; the footprints of the market stalls, in their order; chests and booths
\* with court, place and height.
Street == WorldSpec.street
Courts == WorldSpec.courts
Stalls == WorldSpec.stalls
Targets == WorldSpec.targets

NoCourt == "street"
Void == "void"
Point == Int \X Int
Rectangle == [x1 : Int, x2 : Int, z1 : Int, z2 : Int]

\* A stride is shorter than the thinnest stall.
ASSUME WorldAssumption ==
  /\ {NoCourt, Void} \cap DOMAIN Courts = {}
  /\ Stride \in Nat
  /\ Stalls \in Seq(Rectangle)
  /\ \A i \in 1 .. Len(Stalls) : LET r == Stalls[i]
                                 IN Stride < r.x2 - r.x1 /\ Stride < r.z2 - r.z1
  /\ \A k \in DOMAIN Targets : Targets[k].at \in Point /\ Targets[k].y \in Nat
  /\ \A w \in Walks : w.grain \in Nat \ {0} /\ w.jumps \in BOOLEAN
  /\ JumpVy \in Nat /\ GravityPerTick \in Nat \ {0} /\ Range \in Nat

VARIABLES
  walk,       \* the bounds of this behaviour
  body,       \* a body, no more a ghost
  entitled,   \* the courts paid for
  pos,        \* <<x, z>>
  y, vy       \* height and vertical speed

vars == <<walk, body, entitled, pos, y, vy>>

------------------------------------------------------------------------------
(* Geometry. *)

Within(rect, p) ==
  /\ p[1] \in rect.x1 .. rect.x2
  /\ p[2] \in rect.z1 .. rect.z2

Covers(door, p) == p[1] \in door.x1 .. door.x2

\* The line between street and courts belongs to the street.
RegionOf(p) ==
  LET inside == {c \in DOMAIN Courts : Within(Courts[c].bounds, p)}
  IN IF p[2] <= Street.z2
     THEN IF Within(Street, p) THEN NoCourt ELSE Void
     ELSE IF inside = {} THEN Void ELSE CHOOSE c \in inside : TRUE

\* The first stall that covers a point, or 0.
Occluder(p) ==
  LET over == {i \in 1 .. Len(Stalls) : Within(Stalls[i], p)}
  IN IF over = {} THEN 0 ELSE CHOOSE i \in over : \A j \in over : i <= j

ASSUME SpawnAssumption ==
  \A p \in {GhostSpawn, BodySpawn} :
    p \in Point /\ RegionOf(p) = NoCourt /\ Occluder(p) = 0

\* Mutants of StepLegal: stalls are no obstacle; payment is not looked at.
StepThroughStalls(a, b) ==
  /\ RegionOf(b) # Void
  /\ RegionOf(b) \in DOMAIN Courts => body /\ RegionOf(b) \in entitled

StepUnpaid(a, b) ==
  LET here == RegionOf(a)
      there == RegionOf(b)
  IN /\ Occluder(b) \in {0, Occluder(a)}
     /\ there # Void
     /\ \/ NoCourt = there \/ here = there
        \/ body /\ Covers(Courts[there].door, a)

\* May a micro-step along one axis go from a to b?  A stall can be left but
\* not entered; a court only through its door, with a body that paid for it.
StepLegal(a, b) ==
  LET here == RegionOf(a)
      there == RegionOf(b)
  IN /\ Occluder(b) \in {0, Occluder(a)}
     /\ there # Void
     /\ \/ here = there
        \/ /\ here = NoCourt /\ there \in DOMAIN Courts
           /\ body /\ there \in entitled
           /\ Covers(Courts[there].door, a) /\ Covers(Courts[there].door, b)
        \/ /\ here \in DOMAIN Courts /\ there = NoCourt
           /\ Covers(Courts[here].door, a) /\ Covers(Courts[here].door, b)

Square(n) == n * n

\* Mutant: a client's vector is taken as it comes.
MovesUnclamped ==
  LET span == {n \in -8 * Stride .. 8 * Stride : n % Stride = 0} IN span \X span

\* What an intent comes to in one tick: any direction, clamped to unit length.
Moves ==
  LET span == {n \in -Stride .. Stride : n % walk.grain = 0}
  IN {d \in span \X span : Square(d[1]) + Square(d[2]) <= Square(Stride)}

\* The corner and the end of a move: x first, then z from where x led.
AfterX(p, d) ==
  LET q == <<p[1] + d[1], p[2]>> IN IF StepLegal(p, q) THEN q ELSE p
AfterZ(p, d) ==
  LET q == <<p[1], p[2] + d[2]>> IN IF StepLegal(p, q) THEN q ELSE p
Advance(p, d) == AfterZ(AfterX(p, d), d)

\* Mutant: no ground.
StepYForEver(h, v) == <<h + v - GravityPerTick, v - GravityPerTick>>

\* step_y on a jump in progress.  In doubles the arc of the code comes back a
\* hair above 0, so a height of 0 is not yet the ground.
StepY(h, v) == IF h + v - GravityPerTick < 0 THEN <<0, 0>>
               ELSE <<h + v - GravityPerTick, v - GravityPerTick>>

Grounded == y = 0 /\ vy = 0

------------------------------------------------------------------------------
(* Reach. *)

\* Liang-Barsky: the part of the segment a-b between the times that the four
\* edges leave, as fractions num/den with den > 0.
Less(s, u) == s.num * u.den < u.num * s.den
Emptied(range) == [range EXCEPT !.empty = TRUE]

EnterAt(range, t) ==
  IF Less(range.hi, t) THEN Emptied(range)
  ELSE IF Less(range.lo, t) THEN [range EXCEPT !.lo = t] ELSE range
LeaveAt(range, t) ==
  IF Less(t, range.lo) THEN Emptied(range)
  ELSE IF Less(t, range.hi) THEN [range EXCEPT !.hi = t] ELSE range

Clip(range, p, q) ==
  IF range.empty \/ (p = 0 /\ q < 0) THEN Emptied(range)
  ELSE IF p = 0 THEN range
  ELSE IF p < 0 THEN EnterAt(range, [num |-> -q, den |-> -p])
  ELSE LeaveAt(range, [num |-> q, den |-> p])

\* Mutant: the line through both ends instead of the segment.
LineIntersects(a, b, r) ==
  LET dx == b[1] - a[1]
      dz == b[2] - a[2]
      all == [empty |-> FALSE, lo |-> [num |-> 0, den |-> 1], hi |-> [num |-> 1000, den |-> 1]]
      cut == Clip(Clip(Clip(Clip(all, -dx, a[1] - r.x1), dx, r.x2 - a[1]),
                       -dz, a[2] - r.z1), dz, r.z2 - a[2])
  IN ~cut.empty

SegmentIntersects(a, b, r) ==
  LET dx == b[1] - a[1]
      dz == b[2] - a[2]
      all == [empty |-> FALSE, lo |-> [num |-> 0, den |-> 1], hi |-> [num |-> 1, den |-> 1]]
      cut == Clip(Clip(Clip(Clip(all, -dx, a[1] - r.x1), dx, r.x2 - a[1]),
                       -dz, a[2] - r.z1), dz, r.z2 - a[2])
  IN ~cut.empty

\* A stall over either end does not block.
SegmentBlocked(a, b) ==
  \E i \in 1 .. Len(Stalls) :
    /\ ~Within(Stalls[i], a) /\ ~Within(Stalls[i], b)
    /\ SegmentIntersects(a, b, Stalls[i])

InSphere(t) ==
  225 * (Square(pos[1] - t.at[1]) + Square(pos[2] - t.at[2])) + Square(y - t.y)
    <= 225 * Square(Range)

\* reach_check: body, room, sphere, sight.
InReach(t) ==
  /\ body
  /\ RegionOf(pos) = t.court
  /\ InSphere(t)
  /\ ~SegmentBlocked(pos, t.at)

------------------------------------------------------------------------------

Init ==
  /\ walk \in Walks
  /\ body = FALSE
  /\ entitled = {}
  /\ pos = GhostSpawn
  /\ y = 0 /\ vy = 0

\* grant: the first spawn makes a body and puts it down at its spawn.
GrantSpawn ==
  /\ ~body
  /\ body' = TRUE
  /\ pos' = BodySpawn
  /\ y' = 0 /\ vy' = 0
  /\ UNCHANGED <<walk, entitled>>

GrantCourt(c) ==
  /\ c \in walk.courts
  /\ entitled' = entitled \cup {c}
  /\ UNCHANGED <<walk, body, pos, y, vy>>

Jump ==
  /\ body /\ Grounded
  /\ walk.jumps
  /\ vy' = JumpVy
  /\ UNCHANGED <<walk, body, entitled, pos, y>>

\* One tick, with the intent the client sent last.
Tick(d) ==
  /\ pos' = Advance(pos, d)
  /\ \E r \in walk.within : Within(r, pos')
  /\ LET rise == IF Grounded THEN <<0, 0>> ELSE StepY(y, vy)
     IN y' = rise[1] /\ vy' = rise[2]
  /\ UNCHANGED <<walk, body, entitled>>

Next ==
  \/ GrantSpawn
  \/ \E c \in DOMAIN Courts : GrantCourt(c)
  \/ Jump
  \/ \E d \in Moves : Tick(d)

Spec == Init /\ [][Next]_vars

------------------------------------------------------------------------------
(* Properties *)

TypeOK ==
  /\ walk \in Walks
  /\ body \in BOOLEAN
  /\ entitled \subseteq DOMAIN Courts
  /\ pos \in Point
  /\ y \in Nat /\ vy \in Int

\* Nobody is ever in a wall, in a stall or outside the world.
StandsClear == RegionOf(pos) # Void /\ Occluder(pos) = 0

\* Only a body that paid for a court is inside it, however it got there.
CourtIsPaid == RegionOf(pos) # NoCourt => body /\ RegionOf(pos) \in entitled

\* A segment and a rectangle meet: their spans overlap and the corners are not
\* all on one side of the line.  What SegmentIntersects computes by clipping.
Meets(a, b, r) ==
  LET Side(x, z) == (b[1] - a[1]) * (z - a[2]) - (b[2] - a[2]) * (x - a[1])
      corners == {Side(x, z) : x \in {r.x1, r.x2}, z \in {r.z1, r.z2}}
      Overlap(s, t, lo, hi) == (s <= hi \/ t <= hi) /\ (s >= lo \/ t >= lo)
  IN /\ Overlap(a[1], b[1], r.x1, r.x2)
     /\ Overlap(a[2], b[2], r.z1, r.z2)
     /\ \E s \in corners : s >= 0
     /\ \E s \in corners : s <= 0

\* A tick walks through no wall: neither leg of a move touches a stall, though
\* only its ends are looked at, and rooms change only in a doorway, which both
\* ends of the step are in.  It holds as long as a stride is shorter than the
\* thinnest stall.
StepsAround ==
  body' = body =>
    LET corner == <<pos'[1], pos[2]>>
        here == RegionOf(pos)
        there == RegionOf(pos')
    IN /\ \A i \in 1 .. Len(Stalls) :
            ~Meets(pos, corner, Stalls[i]) /\ ~Meets(corner, pos', Stalls[i])
       /\ here # there =>
            /\ NoCourt \in {here, there}
            /\ \A c \in {here, there} \ {NoCourt} : Covers(Courts[c].door, pos')
WalksAround == [][StepsAround]_vars

\* Claims and plays reach exactly what is in sight: what is within range is
\* blocked by the stalls on the straight line to it, one beside the line or over
\* either end hides nothing, and a chest on a roof takes a jump.
SightIsExact ==
  \A k \in DOMAIN Targets :
    LET t == Targets[k]
        hidden == \E i \in 1 .. Len(Stalls) :
          ~Within(Stalls[i], pos) /\ ~Within(Stalls[i], t.at) /\ Meets(pos, t.at, Stalls[i])
    IN /\ InSphere(t) => (SegmentBlocked(pos, t.at) <=> hidden)
       /\ InReach(t) => ~hidden /\ (t.y > Range * 15 => ~Grounded)
==============================================================================
