----------------------------- MODULE WorldProofs -----------------------------
(***************************************************************************)
(* Theorems about World, for every layout of street, courts and stalls     *)
(* whose stalls are thicker than a stride, and every point of the plane:   *)
(* TLC walks the grids of three walks in the default world.                *)
(*                                                                         *)
(* A move has two legs, along x and along z.  Each is legal or is not      *)
(* made, so what StepLegal preserves holds at the corner and at the end.   *)
(***************************************************************************)
EXTENDS World, WellFoundedInduction, TLAPS

IInv == TypeOK /\ StandsClear /\ CourtIsPaid

------------------------------------------------------------------------------
(* Geometry. *)

\* A point on the street's side of its upper line is in the street or nowhere,
\* one beyond it in a court or nowhere.
LEMMA RegionIsSide ==
  ASSUME NEW p
  PROVE  /\ p[2] <= Street.z2 => RegionOf(p) \in {NoCourt, Void}
         /\ ~(p[2] <= Street.z2) => RegionOf(p) \in DOMAIN Courts \cup {Void}
<1> DEFINE inside == {c \in DOMAIN Courts : Within(Courts[c].bounds, p)}
<1>1. inside # {} => (CHOOSE c \in inside : TRUE) \in inside
  OBVIOUS
<1>2. RegionOf(p) = IF p[2] <= Street.z2
                    THEN IF Within(Street, p) THEN NoCourt ELSE Void
                    ELSE IF inside = {} THEN Void ELSE CHOOSE c \in inside : TRUE
  BY DEF RegionOf
<1> QED BY <1>1, <1>2

\* The occluder 0 is no stall.
LEMMA ClearOfStalls ==
  ASSUME NEW p, Occluder(p) = 0
  PROVE  \A i \in 1 .. Len(Stalls) : ~Within(Stalls[i], p)
<1> DEFINE over == {i \in 1 .. Len(Stalls) : Within(Stalls[i], p)}
<1> SUFFICES ASSUME over # {} PROVE FALSE
  OBVIOUS
<1>1. Occluder(p) = CHOOSE i \in over : \A j \in over : i <= j
  BY DEF Occluder
<1>2. over \in SUBSET Nat
  BY WorldAssumption
<1>3. PICK n \in over : \A j \in over : n <= j
  <2> DEFINE less == OpToRel(<, Nat)
  <2>1. \A i, j \in Nat : <<i, j>> \in less <=> i < j
    BY DEF OpToRel
  <2>2. IsWellFoundedOn(less, Nat)
    BY NatLessThanWellFounded
  <2> HIDE DEF over, less
  <2>3. PICK n \in over : \A j \in over : <<j, n>> \notin less
    BY <1>2, <2>2, WFMin
  <2>4. ASSUME NEW j \in over PROVE n <= j
    <3>1. j \in Nat /\ n \in Nat /\ ~(j < n)
      BY <1>2, <2>1, <2>3
    <3> QED BY <3>1
  <2> QED BY <2>4
<1>4. Occluder(p) \in over
  BY <1>1, <1>3
<1> QED BY <1>4, WorldAssumption

------------------------------------------------------------------------------
(* Moves. *)

\* What an intent comes to is no longer than a stride along either axis.
LEMMA MoveIsShort ==
  ASSUME NEW d \in Moves
  PROVE  d[1] \in -Stride .. Stride /\ d[2] \in -Stride .. Stride
  BY DEF Moves

\* A legal step leads from a clear place to a clear place, and into a court
\* only a body that paid for it.
LEMMA LegalIsClear ==
  ASSUME NEW a, NEW b, StepLegal(a, b), Occluder(a) = 0,
         RegionOf(a) # NoCourt => body /\ RegionOf(a) \in entitled
  PROVE  /\ RegionOf(b) # Void /\ Occluder(b) = 0
         /\ RegionOf(b) # NoCourt => body /\ RegionOf(b) \in entitled
  BY DEF StepLegal

\* Where a legal step changes rooms, it is between the street and a court
\* through whose door it goes, and along z.
LEMMA LegalChangesInDoor ==
  ASSUME NEW a, NEW b, StepLegal(a, b), RegionOf(a) # RegionOf(b)
  PROVE  /\ NoCourt \in {RegionOf(a), RegionOf(b)}
         /\ \A c \in {RegionOf(a), RegionOf(b)} \ {NoCourt} : Covers(Courts[c].door, b)
         /\ a[2] # b[2]
<1>1. /\ NoCourt \in {RegionOf(a), RegionOf(b)}
      /\ \A c \in {RegionOf(a), RegionOf(b)} \ {NoCourt} : Covers(Courts[c].door, b)
  BY WorldAssumption DEF StepLegal
<1>2. \E c \in DOMAIN Courts : c \in {RegionOf(a), RegionOf(b)}
  BY DEF StepLegal
<1>3. a[2] # b[2]
  <2> SUFFICES ASSUME a[2] = b[2] PROVE FALSE
    OBVIOUS
  <2>1. PICK c \in DOMAIN Courts : c \in {RegionOf(a), RegionOf(b)}
    BY <1>2
  <2>2. /\ NoCourt # Void /\ NoCourt \notin DOMAIN Courts /\ Void \notin DOMAIN Courts
    BY WorldAssumption DEF NoCourt, Void
  <2>3. CASE a[2] <= Street.z2
    BY <2>1, <2>2, <2>3, RegionIsSide
  <2>4. CASE ~(a[2] <= Street.z2)
    BY <1>1, <2>2, <2>4, RegionIsSide
  <2> QED BY <2>3, <2>4
<1> QED BY <1>1, <1>3

\* Between two points beside a stall, less than its thickness apart along one
\* axis, is no point of it.
LEMMA ShortLegMisses ==
  ASSUME NEW r \in Rectangle, Stride < r.x2 - r.x1, Stride < r.z2 - r.z1,
         NEW a \in Point, NEW b \in Point, ~Within(r, a), ~Within(r, b),
         \/ a[2] = b[2] /\ b[1] - a[1] \in -Stride .. Stride
         \/ a[1] = b[1] /\ b[2] - a[2] \in -Stride .. Stride
  PROVE  ~Meets(a, b, r)
<1> USE WorldAssumption
<1> DEFINE Overlap(s, t, lo, hi) == (s <= hi \/ t <= hi) /\ (s >= lo \/ t >= lo)
<1>1. /\ a[1] \in Int /\ a[2] \in Int /\ b[1] \in Int /\ b[2] \in Int
      /\ r.x1 \in Int /\ r.x2 \in Int /\ r.z1 \in Int /\ r.z2 \in Int
  BY DEF Point, Rectangle
<1>2. Meets(a, b, r) => Overlap(a[1], b[1], r.x1, r.x2) /\ Overlap(a[2], b[2], r.z1, r.z2)
  BY DEF Meets
<1>3. /\ ~(r.x1 <= a[1] /\ a[1] <= r.x2 /\ r.z1 <= a[2] /\ a[2] <= r.z2)
      /\ ~(r.x1 <= b[1] /\ b[1] <= r.x2 /\ r.z1 <= b[2] /\ b[2] <= r.z2)
  BY <1>1 DEF Within
<1>4. CASE a[2] = b[2] /\ b[1] - a[1] \in -Stride .. Stride
  BY <1>1, <1>2, <1>3, <1>4
<1>5. CASE a[1] = b[1] /\ b[2] - a[2] \in -Stride .. Stride
  BY <1>1, <1>2, <1>3, <1>5
<1> QED BY <1>4, <1>5

\* Both legs of a tick's move.
LEMMA Legs ==
  ASSUME IInv, NEW d \in Moves
  PROVE  LET corner == AfterX(pos, d)
             end == Advance(pos, d)
         IN /\ corner \in Point /\ end \in Point
            /\ corner[1] - pos[1] \in -Stride .. Stride /\ corner[2] = pos[2]
            /\ end[2] - corner[2] \in -Stride .. Stride /\ end[1] = corner[1]
            /\ (corner = pos \/ StepLegal(pos, corner))
            /\ (end = corner \/ StepLegal(corner, end))
<1> DEFINE corner == AfterX(pos, d)
           end == Advance(pos, d)
           q == <<pos[1] + d[1], pos[2]>>
           r == <<corner[1], corner[2] + d[2]>>
<1>1. /\ pos \in Point /\ Stride \in Nat
      /\ d[1] \in -Stride .. Stride /\ d[2] \in -Stride .. Stride
  BY MoveIsShort, WorldAssumption DEF IInv, TypeOK
<1>2. q \in Point /\ q[1] - pos[1] \in -Stride .. Stride /\ q[2] = pos[2]
  BY <1>1 DEF Point
<1>3. corner = IF StepLegal(pos, q) THEN q ELSE pos
  BY DEF AfterX
<1>4. /\ corner \in Point /\ (corner = pos \/ StepLegal(pos, corner))
      /\ corner[1] - pos[1] \in -Stride .. Stride /\ corner[2] = pos[2]
  <2>1. pos[1] - pos[1] \in -Stride .. Stride
    BY <1>1 DEF Point
  <2> QED BY <1>1, <1>2, <1>3, <2>1
<1>5. end = IF StepLegal(corner, r) THEN r ELSE corner
  BY DEF Advance, AfterZ
<1> HIDE DEF corner, end
<1>6. r \in Point /\ r[2] - corner[2] \in -Stride .. Stride /\ r[1] = corner[1]
  <2>1. corner[1] \in Int /\ corner[2] \in Int /\ d[2] \in Int
    BY <1>1, <1>4 DEF Point
  <2> QED BY <1>1, <2>1 DEF Point
<1>7. /\ end \in Point /\ (end = corner \/ StepLegal(corner, end))
      /\ end[2] - corner[2] \in -Stride .. Stride /\ end[1] = corner[1]
  <2>1. corner[2] - corner[2] \in -Stride .. Stride
    BY <1>1, <1>4 DEF Point
  <2> QED BY <1>4, <1>5, <1>6, <2>1
<1> QED BY <1>4, <1>7 DEF corner, end

\* A tick leads from a clear place to a clear place.
LEMMA TickIsClear ==
  ASSUME IInv, NEW d \in Moves, pos' = Advance(pos, d), UNCHANGED <<body, entitled>>
  PROVE  /\ pos' \in Point /\ StandsClear' /\ CourtIsPaid'
         /\ RegionOf(AfterX(pos, d)) # Void /\ Occluder(AfterX(pos, d)) = 0
<1> DEFINE corner == AfterX(pos, d)
<1>1. /\ pos' \in Point
      /\ corner = pos \/ StepLegal(pos, corner)
  BY Legs
<1>2. pos' = corner \/ StepLegal(corner, pos')
  BY Legs
<1> HIDE DEF corner
<1>3. /\ RegionOf(corner) # Void /\ Occluder(corner) = 0
      /\ RegionOf(corner) # NoCourt => body /\ RegionOf(corner) \in entitled
  BY <1>1, LegalIsClear DEF IInv, StandsClear, CourtIsPaid
<1>4. /\ RegionOf(pos') # Void /\ Occluder(pos') = 0
      /\ RegionOf(pos') # NoCourt => body /\ RegionOf(pos') \in entitled
  BY <1>2, <1>3, LegalIsClear
<1> QED BY <1>1, <1>3, <1>4 DEF corner, StandsClear, CourtIsPaid

------------------------------------------------------------------------------
(* The theorems. *)

\* The spawns are clear and in no court.
LEMMA InitIInv == Init => IInv
<1> SUFFICES ASSUME Init PROVE IInv
  OBVIOUS
<1>1. pos \in Point /\ RegionOf(pos) = NoCourt /\ Occluder(pos) = 0
  BY SpawnAssumption DEF Init
<1>2. NoCourt # Void
  BY DEF NoCourt, Void
<1>3. TypeOK
  <2>1. y \in Nat /\ vy \in Int /\ entitled \subseteq DOMAIN Courts /\ walk \in Walks
    BY DEF Init
  <2>2. body \in BOOLEAN
    BY DEF Init
  <2> QED BY <1>1, <2>1, <2>2 DEF TypeOK
<1> QED BY <1>1, <1>2, <1>3 DEF IInv, StandsClear, CourtIsPaid

\* Every action keeps the inductive invariant.
LEMMA NextIInv == IInv /\ [Next]_vars => IInv'
<1> SUFFICES ASSUME IInv, [Next]_vars PROVE IInv'
  OBVIOUS
<1> USE DEF IInv, TypeOK
<1>1. CASE GrantSpawn
  BY <1>1, SpawnAssumption DEF GrantSpawn, StandsClear, CourtIsPaid
<1>2. ASSUME NEW c \in DOMAIN Courts, GrantCourt(c) PROVE IInv'
  BY <1>2 DEF GrantCourt, StandsClear, CourtIsPaid
<1>3. CASE Jump
  BY <1>3, WorldAssumption DEF Jump, StandsClear, CourtIsPaid
<1>4. ASSUME NEW d \in Moves, Tick(d) PROVE IInv'
  <2>1. pos' = Advance(pos, d) /\ UNCHANGED <<walk, body, entitled>>
    BY <1>4 DEF Tick
  <2>2. pos' \in Point /\ StandsClear' /\ CourtIsPaid'
    BY <2>1, TickIsClear
  <2>3. y' \in Nat /\ vy' \in Int
    <3>1. CASE Grounded
      BY <1>4, <3>1 DEF Tick
    <3>2. CASE ~Grounded
      <4>1. y' = StepY(y, vy)[1] /\ vy' = StepY(y, vy)[2]
        BY <1>4, <3>2 DEF Tick
      <4> QED BY <4>1, WorldAssumption DEF StepY
    <3> QED BY <3>1, <3>2
  <2> QED BY <2>1, <2>2, <2>3
<1>5. CASE UNCHANGED vars
  BY <1>5 DEF vars, StandsClear, CourtIsPaid
<1> QED BY <1>1, <1>2, <1>3, <1>4, <1>5 DEF Next

\* The inductive invariant holds throughout.
THEOREM Invariance == Spec => []IInv
  BY InitIInv, NextIInv, PTL DEF Spec

\* Every variable keeps its type.
THEOREM TypeCorrect == Spec => []TypeOK
<1>1. IInv => TypeOK
  BY DEF IInv
<1> QED BY <1>1, Invariance, PTL

\* Nobody is ever in a wall, in a stall or outside the world, at any point of
\* the plane that strides lead to.
THEOREM AlwaysStandsClear == Spec => []StandsClear
<1>1. IInv => StandsClear
  BY DEF IInv
<1> QED BY <1>1, Invariance, PTL

\* Only a body that paid for a court is inside it.
THEOREM CourtsArePaid == Spec => []CourtIsPaid
<1>1. IInv => CourtIsPaid
  BY DEF IInv
<1> QED BY <1>1, Invariance, PTL

\* A tick that looks at the ends of its legs only still walks through no wall.
LEMMA TickStepsAround ==
  ASSUME IInv, NEW d \in Moves, pos' = Advance(pos, d), UNCHANGED <<body, entitled>>
  PROVE  StepsAround
<1> DEFINE corner == AfterX(pos, d)
<1>1. /\ pos \in Point /\ corner \in Point /\ pos' \in Point
      /\ corner[1] - pos[1] \in -Stride .. Stride /\ corner[2] = pos[2]
      /\ pos'[2] - corner[2] \in -Stride .. Stride /\ pos'[1] = corner[1]
      /\ (corner = pos \/ StepLegal(pos, corner))
      /\ (pos' = corner \/ StepLegal(corner, pos'))
  BY Legs DEF IInv, TypeOK
<1>2. Occluder(pos) = 0 /\ Occluder(corner) = 0 /\ Occluder(pos') = 0
  BY TickIsClear DEF IInv, StandsClear
<1> HIDE DEF corner
<1>3. corner = <<pos'[1], pos[2]>>
  BY <1>1 DEF Point
<1>4. ASSUME NEW i \in 1 .. Len(Stalls)
      PROVE  ~Meets(pos, corner, Stalls[i]) /\ ~Meets(corner, pos', Stalls[i])
  <2> DEFINE r == Stalls[i]
  <2>1. r \in Rectangle /\ Stride < r.x2 - r.x1 /\ Stride < r.z2 - r.z1
    BY WorldAssumption
  <2>2. ~Within(r, pos) /\ ~Within(r, corner) /\ ~Within(r, pos')
    BY <1>2, ClearOfStalls
  <2> HIDE DEF r
  <2>3. ~Meets(pos, corner, r)
    BY <1>1, <2>1, <2>2, ShortLegMisses
  <2>4. ~Meets(corner, pos', r)
    BY <1>1, <2>1, <2>2, ShortLegMisses
  <2> QED BY <2>3, <2>4 DEF r
<1>5. RegionOf(pos) = RegionOf(corner)
  BY <1>1, LegalChangesInDoor
<1>6. RegionOf(pos) # RegionOf(pos') =>
        /\ NoCourt \in {RegionOf(pos), RegionOf(pos')}
        /\ \A c \in {RegionOf(pos), RegionOf(pos')} \ {NoCourt} : Covers(Courts[c].door, pos')
  BY <1>1, <1>5, LegalChangesInDoor
<1> QED BY <1>3, <1>4, <1>6 DEF StepsAround

\* A step that does not move keeps clear of the stalls where it stands.
LEMMA StandingStepsAround ==
  ASSUME IInv, pos' = pos
  PROVE  StepsAround
<1>1. pos \in Point /\ pos = <<pos'[1], pos[2]>> /\ Occluder(pos) = 0
  BY DEF IInv, TypeOK, StandsClear, Point
<1>2. ASSUME NEW i \in 1 .. Len(Stalls) PROVE ~Meets(pos, pos, Stalls[i])
  <2>1. /\ Stalls[i] \in Rectangle
        /\ Stride < Stalls[i].x2 - Stalls[i].x1 /\ Stride < Stalls[i].z2 - Stalls[i].z1
    BY WorldAssumption
  <2>2. ~Within(Stalls[i], pos)
    BY <1>1, ClearOfStalls
  <2>3. pos[1] - pos[1] \in -Stride .. Stride
    BY <1>1, WorldAssumption DEF Point
  <2> QED BY <1>1, <2>1, <2>2, <2>3, ShortLegMisses
<1> QED BY <1>1, <1>2 DEF StepsAround

\* Neither leg of a move touches a stall, and rooms change in doorways only.
THEOREM WalksAroundWalls == Spec => WalksAround
<1>1. IInv /\ [Next]_vars => [StepsAround]_vars
  <2> SUFFICES ASSUME IInv, [Next]_vars PROVE StepsAround \/ UNCHANGED vars
    BY DEF vars
  <2>1. ASSUME NEW d \in Moves, Tick(d) PROVE StepsAround
    BY <2>1, TickStepsAround DEF Tick
  <2>2. CASE GrantSpawn
    BY <2>2 DEF GrantSpawn, StepsAround
  <2>3. CASE Jump \/ \E c \in DOMAIN Courts : GrantCourt(c)
    BY <2>3, StandingStepsAround DEF Jump, GrantCourt
  <2> QED BY <2>1, <2>2, <2>3 DEF Next
<1> QED BY <1>1, Invariance, PTL DEF Spec, WalksAround

------------------------------------------------------------------------------
(* Sight.  Clipping compares fractions; the segment meets the rectangle if  *)
(* every time at which it enters comes before every time at which it leaves. *)

Fraction == [num : Int, den : Nat \ {0}]

\* s <= u.
AtMost(s, u) == s.num * u.den <= u.num * s.den

\* An inequation may be multiplied by a natural number.
LEMMA ProductsGrow ==
  ASSUME NEW a \in Int, NEW b \in Int, NEW c \in Nat
  PROVE  a <= b => a * c <= b * c
<1> SUFFICES ASSUME a <= b PROVE a * c <= b * c
  OBVIOUS
<1> DEFINE d == b - a
<1>1. d \in Nat /\ b = a + d
  OBVIOUS
<1>2. d * c \in Nat /\ a * c \in Int
  BY <1>1
<1>3. b * c = a * c + d * c
  BY <1>1
<1> HIDE DEF d
<1> QED BY <1>2, <1>3

\* It may be divided by a positive one.
LEMMA ProductsCancel ==
  ASSUME NEW a \in Int, NEW b \in Int, NEW c \in Nat \ {0}, a * c <= b * c
  PROVE  a <= b
<1> SUFFICES ASSUME b < a PROVE FALSE
  OBVIOUS
<1> DEFINE d == a - b - 1
<1>1. d \in Nat /\ a = b + 1 + d
  OBVIOUS
<1>2. d * c \in Nat /\ b * c \in Int
  BY <1>1
<1>3. a * c = b * c + c + d * c
  BY <1>1
<1> HIDE DEF d
<1> QED BY <1>2, <1>3

\* AtMost is a linear order of the fractions.
LEMMA AtMostIsOrder ==
  ASSUME NEW s \in Fraction, NEW t \in Fraction, NEW u \in Fraction
  PROVE  /\ AtMost(s, s) /\ (AtMost(s, t) \/ AtMost(t, s))
         /\ AtMost(s, t) /\ AtMost(t, u) => AtMost(s, u)
<1>1. /\ s.num \in Int /\ t.num \in Int /\ u.num \in Int
      /\ s.den \in Nat \ {0} /\ t.den \in Nat \ {0} /\ u.den \in Nat \ {0}
  BY DEF Fraction
<1>2. AtMost(s, s) /\ (AtMost(s, t) \/ AtMost(t, s))
  BY <1>1 DEF AtMost
<1>3. ASSUME AtMost(s, t), AtMost(t, u) PROVE AtMost(s, u)
  <2>1. (s.num * t.den) * u.den <= (t.num * s.den) * u.den
    BY <1>1, <1>3, ProductsGrow DEF AtMost
  <2>2. (t.num * u.den) * s.den <= (u.num * t.den) * s.den
    BY <1>1, <1>3, ProductsGrow DEF AtMost
  <2>3. /\ (s.num * t.den) * u.den = (s.num * u.den) * t.den
        /\ (t.num * s.den) * u.den = (t.num * u.den) * s.den
        /\ (u.num * t.den) * s.den = (u.num * s.den) * t.den
    BY <1>1
  <2>4. /\ (s.num * u.den) * t.den \in Int /\ (t.num * u.den) * s.den \in Int
        /\ (u.num * s.den) * t.den \in Int
    BY <1>1
  <2>5. (s.num * u.den) * t.den <= (u.num * s.den) * t.den
    BY <2>1, <2>2, <2>3, <2>4
  <2>6. s.num * u.den \in Int /\ u.num * s.den \in Int
    BY <1>1
  <2> QED BY <1>1, <2>5, <2>6, ProductsCancel DEF AtMost
<1> QED BY <1>2, <1>3

\* A range is what is left between the times L of entering and H of leaving,
\* as long as no edge that the segment runs along leaves it outside.
Tracks(range, L, H, inside) ==
  /\ range \in [empty : BOOLEAN, lo : Fraction, hi : Fraction]
  /\ L \subseteq Fraction /\ H \subseteq Fraction
  /\ range.empty <=> ~(inside /\ \A l \in L, h \in H : AtMost(l, h))
  /\ ~range.empty => /\ range.lo \in L /\ \A l \in L : AtMost(l, range.lo)
                     /\ range.hi \in H /\ \A h \in H : AtMost(range.hi, h)

\* Less is its strict part.
LEMMA LessIsNotAtMost ==
  ASSUME NEW s \in Fraction, NEW u \in Fraction
  PROVE  Less(s, u) <=> ~AtMost(u, s)
<1>1. s.num * u.den \in Int /\ u.num * s.den \in Int
  BY DEF Fraction
<1> QED BY <1>1 DEF Less, AtMost

\* One more time of entering keeps the range up to date.
LEMMA EnterTracks ==
  ASSUME NEW range, NEW L, NEW H, NEW inside \in BOOLEAN, Tracks(range, L, H, inside),
         ~range.empty, NEW t \in Fraction
  PROVE  Tracks(EnterAt(range, t), L \cup {t}, H, inside)
<1> DEFINE result == EnterAt(range, t)
           L2 == L \cup {t}
<1>1. /\ range \in [empty : BOOLEAN, lo : Fraction, hi : Fraction]
      /\ L \subseteq Fraction /\ H \subseteq Fraction /\ L2 \subseteq Fraction
      /\ inside /\ \A l \in L, h \in H : AtMost(l, h)
      /\ range.lo \in L /\ \A l \in L : AtMost(l, range.lo)
      /\ range.hi \in H /\ \A h \in H : AtMost(range.hi, h)
  BY DEF Tracks
<1>2. range.lo \in Fraction /\ range.hi \in Fraction
  BY <1>1
<1>3. CASE ~AtMost(t, range.hi)
  <2>1. result = [range EXCEPT !.empty = TRUE]
    BY <1>2, <1>3, LessIsNotAtMost DEF EnterAt, Emptied
  <2>2. result \in [empty : BOOLEAN, lo : Fraction, hi : Fraction] /\ result.empty
    BY <1>1, <2>1
  <2>3. ~(\A l \in L2, h \in H : AtMost(l, h))
    BY <1>1, <1>3
  <2> QED BY <1>1, <2>2, <2>3 DEF Tracks
<1>4. CASE AtMost(t, range.hi)
  <2>1. \A h \in H : AtMost(t, h)
    BY <1>1, <1>2, <1>4, AtMostIsOrder
  <2>2. \A l \in L2, h \in H : AtMost(l, h)
    BY <1>1, <2>1
  <2>3. CASE AtMost(t, range.lo)
    <3>1. result = range
      BY <1>2, <1>4, <2>3, LessIsNotAtMost DEF EnterAt
    <3>2. \A l \in L2 : AtMost(l, range.lo)
      BY <1>1, <2>3
    <3> HIDE DEF result
    <3>3. Tracks(range, L2, H, inside)
      BY <1>1, <2>2, <3>2 DEF Tracks
    <3> QED BY <3>1, <3>3 DEF result
  <2>4. CASE ~AtMost(t, range.lo)
    <3>1. result = [range EXCEPT !.lo = t]
      BY <1>2, <1>4, <2>4, LessIsNotAtMost DEF EnterAt
    <3>2. /\ result \in [empty : BOOLEAN, lo : Fraction, hi : Fraction]
          /\ result.lo = t /\ result.hi = range.hi /\ ~result.empty
      BY <1>1, <3>1
    <3>3. \A l \in L2 : AtMost(l, t)
      BY <1>1, <1>2, <2>4, AtMostIsOrder
    <3> HIDE DEF result
    <3>4. Tracks(result, L2, H, inside)
      BY <1>1, <2>2, <3>2, <3>3 DEF Tracks
    <3> QED BY <3>4 DEF result
  <2> QED BY <2>3, <2>4
<1> QED BY <1>3, <1>4

\* One more time of leaving keeps the range up to date.
LEMMA LeaveTracks ==
  ASSUME NEW range, NEW L, NEW H, NEW inside \in BOOLEAN, Tracks(range, L, H, inside),
         ~range.empty, NEW t \in Fraction
  PROVE  Tracks(LeaveAt(range, t), L, H \cup {t}, inside)
<1> DEFINE result == LeaveAt(range, t)
           H2 == H \cup {t}
<1>1. /\ range \in [empty : BOOLEAN, lo : Fraction, hi : Fraction]
      /\ L \subseteq Fraction /\ H \subseteq Fraction /\ H2 \subseteq Fraction
      /\ inside /\ \A l \in L, h \in H : AtMost(l, h)
      /\ range.lo \in L /\ \A l \in L : AtMost(l, range.lo)
      /\ range.hi \in H /\ \A h \in H : AtMost(range.hi, h)
  BY DEF Tracks
<1>2. range.lo \in Fraction /\ range.hi \in Fraction
  BY <1>1
<1>3. CASE ~AtMost(range.lo, t)
  <2>1. result = [range EXCEPT !.empty = TRUE]
    BY <1>2, <1>3, LessIsNotAtMost DEF LeaveAt, Emptied
  <2>2. result \in [empty : BOOLEAN, lo : Fraction, hi : Fraction] /\ result.empty
    BY <1>1, <2>1
  <2>3. ~(\A l \in L, h \in H2 : AtMost(l, h))
    BY <1>1, <1>3
  <2> QED BY <1>1, <2>2, <2>3 DEF Tracks
<1>4. CASE AtMost(range.lo, t)
  <2>1. \A l \in L : AtMost(l, t)
    BY <1>1, <1>2, <1>4, AtMostIsOrder
  <2>2. \A l \in L, h \in H2 : AtMost(l, h)
    BY <1>1, <2>1
  <2>3. CASE AtMost(range.hi, t)
    <3>1. result = range
      BY <1>2, <1>4, <2>3, LessIsNotAtMost DEF LeaveAt
    <3>2. \A h \in H2 : AtMost(range.hi, h)
      BY <1>1, <2>3
    <3> HIDE DEF result
    <3>3. Tracks(range, L, H2, inside)
      BY <1>1, <2>2, <3>2 DEF Tracks
    <3> QED BY <3>1, <3>3 DEF result
  <2>4. CASE ~AtMost(range.hi, t)
    <3>1. result = [range EXCEPT !.hi = t]
      BY <1>2, <1>4, <2>4, LessIsNotAtMost DEF LeaveAt
    <3>2. /\ result \in [empty : BOOLEAN, lo : Fraction, hi : Fraction]
          /\ result.hi = t /\ result.lo = range.lo /\ ~result.empty
      BY <1>1, <3>1
    <3>3. \A h \in H2 : AtMost(t, h)
      BY <1>1, <1>2, <2>4, AtMostIsOrder
    <3> HIDE DEF result
    <3>4. Tracks(result, L, H2, inside)
      BY <1>1, <2>2, <3>2, <3>3 DEF Tracks
    <3> QED BY <3>4 DEF result
  <2> QED BY <2>3, <2>4
<1> QED BY <1>3, <1>4

\* What is empty stays empty.
LEMMA EmptiedTracks ==
  ASSUME NEW range, NEW L, NEW H, NEW inside \in BOOLEAN, Tracks(range, L, H, inside),
         NEW L2 \in SUBSET Fraction, NEW H2 \in SUBSET Fraction, NEW inside2 \in BOOLEAN,
         \/ range.empty /\ L \subseteq L2 /\ H \subseteq H2 /\ (inside2 => inside)
         \/ ~inside2
  PROVE  Tracks(Emptied(range), L2, H2, inside2)
<1>1. /\ Emptied(range) \in [empty : BOOLEAN, lo : Fraction, hi : Fraction]
      /\ Emptied(range).empty
  BY DEF Tracks, Emptied
<1>2. ~(inside2 /\ \A l \in L2, h \in H2 : AtMost(l, h))
  BY DEF Tracks
<1> HIDE DEF Emptied
<1> QED BY <1>1, <1>2 DEF Tracks

\* One clip adds a time of entering, one of leaving, or a condition.
LEMMA ClipTracks ==
  ASSUME NEW range, NEW L, NEW H, NEW inside \in BOOLEAN, Tracks(range, L, H, inside),
         NEW p \in Int, NEW q \in Int
  PROVE  /\ p = 0 => Tracks(Clip(range, p, q), L, H, inside /\ q >= 0)
         /\ p < 0 => LET t == [num |-> -q, den |-> -p]
                     IN t \in Fraction /\ Tracks(Clip(range, p, q), L \cup {t}, H, inside)
         /\ p > 0 => LET t == [num |-> q, den |-> p]
                     IN t \in Fraction /\ Tracks(Clip(range, p, q), L, H \cup {t}, inside)
<1>1. L \in SUBSET Fraction /\ H \in SUBSET Fraction /\ range.empty \in BOOLEAN
  BY DEF Tracks
<1>2. ASSUME p = 0 PROVE Tracks(Clip(range, p, q), L, H, inside /\ q >= 0)
  <2>1. (inside /\ q >= 0) \in BOOLEAN
    OBVIOUS
  <2>2. CASE range.empty \/ q < 0
    <3>1. Clip(range, p, q) = Emptied(range)
      BY <1>2, <2>2 DEF Clip
    <3>2. range.empty \/ ~(inside /\ q >= 0)
      BY <2>2
    <3> QED BY <1>1, <2>1, <3>1, <3>2, EmptiedTracks
  <2>3. CASE ~range.empty /\ ~(q < 0)
    <3>1. Clip(range, p, q) = range /\ q >= 0
      BY <1>2, <2>3 DEF Clip
    <3> QED BY <3>1 DEF Tracks
  <2> QED BY <2>2, <2>3
<1>3. ASSUME p < 0
      PROVE  LET t == [num |-> -q, den |-> -p]
             IN t \in Fraction /\ Tracks(Clip(range, p, q), L \cup {t}, H, inside)
  <2> DEFINE t == [num |-> -q, den |-> -p]
  <2>1. t \in Fraction /\ L \cup {t} \in SUBSET Fraction
    BY <1>1, <1>3 DEF Fraction
  <2>2. Clip(range, p, q) = IF range.empty THEN Emptied(range) ELSE EnterAt(range, t)
    BY <1>3 DEF Clip
  <2> HIDE DEF t
  <2>3. CASE range.empty
    BY <1>1, <2>1, <2>2, <2>3, EmptiedTracks DEF t
  <2>4. CASE ~range.empty
    BY <2>1, <2>2, <2>4, EnterTracks DEF t
  <2> QED BY <2>3, <2>4
<1>4. ASSUME p > 0
      PROVE  LET t == [num |-> q, den |-> p]
             IN t \in Fraction /\ Tracks(Clip(range, p, q), L, H \cup {t}, inside)
  <2> DEFINE t == [num |-> q, den |-> p]
  <2>1. t \in Fraction /\ H \cup {t} \in SUBSET Fraction
    BY <1>1, <1>4 DEF Fraction
  <2>2. Clip(range, p, q) = IF range.empty THEN Emptied(range) ELSE LeaveAt(range, t)
    BY <1>4 DEF Clip
  <2> HIDE DEF t
  <2>3. CASE range.empty
    BY <1>1, <2>1, <2>2, <2>3, EmptiedTracks DEF t
  <2>4. CASE ~range.empty
    BY <2>1, <2>2, <2>4, LeaveTracks DEF t
  <2> QED BY <2>3, <2>4
<1> QED BY <1>2, <1>3, <1>4

\* Along an axis: the length of the segment, and the times, as multiples of
\* it, at which it enters and leaves, from the ends' distances u and v.
Size(d) == IF d > 0 THEN d ELSE -d
Enters(d, u, v) == IF d > 0 THEN -u ELSE -v
Leaves(d, u, v) == IF d > 0 THEN v ELSE u
Over(n, d) == [num |-> n, den |-> d]

\* The two clips of one axis.
LEMMA AxisTracks ==
  ASSUME NEW range, NEW L, NEW H, NEW inside \in BOOLEAN, Tracks(range, L, H, inside),
         NEW d \in Int, NEW u \in Int, NEW v \in Int
  PROVE  LET cut == Clip(Clip(range, -d, u), d, v)
         IN /\ d = 0 => Tracks(cut, L, H, (inside /\ u >= 0) /\ v >= 0)
            /\ d # 0 => Tracks(cut, L \cup {Over(Enters(d, u, v), Size(d))},
                                    H \cup {Over(Leaves(d, u, v), Size(d))}, inside)
<1> DEFINE first == Clip(range, -d, u)
           cut == Clip(first, d, v)
<1>1. -d \in Int /\ -(-d) = d
  OBVIOUS
<1>2. ASSUME d = 0 PROVE Tracks(cut, L, H, (inside /\ u >= 0) /\ v >= 0)
  <2>1. Tracks(first, L, H, inside /\ u >= 0) /\ (inside /\ u >= 0) \in BOOLEAN
    BY <1>1, <1>2, ClipTracks
  <2> HIDE DEF first
  <2> QED BY <1>2, <2>1, ClipTracks
<1>3. ASSUME d > 0
      PROVE  Tracks(cut, L \cup {Over(-u, d)}, H \cup {Over(v, d)}, inside)
  <2>1. Tracks(first, L \cup {Over(-u, d)}, H, inside)
    <3>1. -d < 0 /\ Over(-u, d) = [num |-> -u, den |-> -(-d)]
      BY <1>1, <1>3 DEF Over
    <3> QED BY <1>1, <3>1, ClipTracks
  <2> HIDE DEF first
  <2> QED BY <1>3, <2>1, ClipTracks DEF Over
<1>4. ASSUME d < 0
      PROVE  Tracks(cut, L \cup {Over(-v, -d)}, H \cup {Over(u, -d)}, inside)
  <2>1. Tracks(first, L, H \cup {Over(u, -d)}, inside)
    <3>1. -d > 0
      BY <1>4
    <3> QED BY <1>1, <3>1, ClipTracks DEF Over
  <2> HIDE DEF first
  <2> QED BY <1>4, <2>1, ClipTracks DEF Over
<1> QED BY <1>2, <1>3, <1>4 DEF Size, Enters, Leaves

\* What a comparison of such times says, in products.
LEMMA TimesCompared ==
  ASSUME NEW m \in Int, NEW n \in Int, NEW d \in Nat \ {0}, NEW e \in Nat \ {0}
  PROVE  /\ Over(m, d) \in Fraction
         /\ AtMost(Over(0, 1), Over(1, 1))
         /\ AtMost(Over(0, 1), Over(n, e)) <=> 0 <= n
         /\ AtMost(Over(m, d), Over(1, 1)) <=> m <= d
         /\ AtMost(Over(m, d), Over(n, e)) <=> m * e <= n * d
         /\ AtMost(Over(m, d), Over(n, d)) <=> m <= n
<1>1. AtMost(Over(m, d), Over(n, d)) <=> m * d <= n * d
  BY DEF AtMost, Over
<1>2. m * d <= n * d <=> m <= n
  BY ProductsGrow, ProductsCancel
<1> QED BY <1>1, <1>2 DEF AtMost, Over, Fraction

\* Which side of the line a corner is on, as a difference of two products.
LEMMA MeetsInProducts ==
  ASSUME NEW a \in Point, NEW b \in Point, NEW r \in Rectangle
  PROVE  LET dx == b[1] - a[1]
             dz == b[2] - a[2]
             p == dx * (r.z1 - a[2])
             q == dx * (r.z2 - a[2])
             s == dz * (r.x1 - a[1])
             t == dz * (r.x2 - a[1])
         IN Meets(a, b, r) <=>
              /\ (a[1] <= r.x2 \/ b[1] <= r.x2) /\ (a[1] >= r.x1 \/ b[1] >= r.x1)
              /\ (a[2] <= r.z2 \/ b[2] <= r.z2) /\ (a[2] >= r.z1 \/ b[2] >= r.z1)
              /\ s <= p \/ t <= p \/ s <= q \/ t <= q
              /\ p <= s \/ p <= t \/ q <= s \/ q <= t
<1> DEFINE dx == b[1] - a[1]
           dz == b[2] - a[2]
           p == dx * (r.z1 - a[2])
           q == dx * (r.z2 - a[2])
           s == dz * (r.x1 - a[1])
           t == dz * (r.x2 - a[1])
           Side(x, z) == dx * (z - a[2]) - dz * (x - a[1])
           corners == {Side(x, z) : x \in {r.x1, r.x2}, z \in {r.z1, r.z2}}
<1>1. p \in Int /\ q \in Int /\ s \in Int /\ t \in Int
  BY DEF Point, Rectangle
<1>2. /\ Side(r.x1, r.z1) = p - s /\ Side(r.x2, r.z1) = p - t
      /\ Side(r.x1, r.z2) = q - s /\ Side(r.x2, r.z2) = q - t
  OBVIOUS
<1>3. corners = {Side(r.x1, r.z1), Side(r.x2, r.z1), Side(r.x1, r.z2), Side(r.x2, r.z2)}
  <2> HIDE DEF Side
  <2> QED OBVIOUS
<1>4. corners = {p - s, p - t, q - s, q - t}
  BY <1>2, <1>3
<1>5. Meets(a, b, r) <=>
        /\ (a[1] <= r.x2 \/ b[1] <= r.x2) /\ (a[1] >= r.x1 \/ b[1] >= r.x1)
        /\ (a[2] <= r.z2 \/ b[2] <= r.z2) /\ (a[2] >= r.z1 \/ b[2] >= r.z1)
        /\ \E c \in corners : c >= 0
        /\ \E c \in corners : c <= 0
  BY DEF Meets
<1> HIDE DEF corners, p, q, s, t
<1>6. (\E c \in corners : c >= 0) <=> (s <= p \/ t <= p \/ s <= q \/ t <= q)
  BY <1>1, <1>4
<1>7. (\E c \in corners : c <= 0) <=> (p <= s \/ p <= t \/ q <= s \/ q <= t)
  BY <1>1, <1>4
<1> QED BY <1>5, <1>6, <1>7 DEF p, q, s, t

\* Both ends of an interval, multiplied: their order follows the sign.
LEMMA SidesGrow ==
  ASSUME NEW d \in Int, NEW low \in Int, NEW high \in Int, low <= high
  PROVE  /\ d >= 0 => d * low <= d * high
         /\ d <= 0 => d * high <= d * low
<1>1. ASSUME d >= 0 PROVE d * low <= d * high
  BY <1>1, ProductsGrow
<1>2. ASSUME d <= 0 PROVE d * high <= d * low
  <2>1. -d \in Nat
    BY <1>2
  <2>2. low * (-d) <= high * (-d)
    BY <2>1, ProductsGrow
  <2>3. low * (-d) = -(d * low) /\ high * (-d) = -(d * high) /\ d * low \in Int /\ d * high \in Int
    OBVIOUS
  <2> QED BY <2>2, <2>3
<1> QED BY <1>1, <1>2

\* Zero stays between the ends.
LEMMA SidesStraddle ==
  ASSUME NEW d \in Int, NEW low \in Int, NEW high \in Int, low <= 0, 0 <= high
  PROVE  (d * low <= 0 /\ 0 <= d * high) \/ (d * high <= 0 /\ 0 <= d * low)
<1>1. d * 0 = 0
  OBVIOUS
<1>2. /\ d >= 0 => d * low <= d * 0 /\ d * 0 <= d * high
      /\ d <= 0 => d * 0 <= d * low /\ d * high <= d * 0
  BY SidesGrow
<1> QED BY <1>1, <1>2

\* Two spans overlap, in the times of their axis.
LEMMA OverlapInTimes ==
  ASSUME NEW s \in Int, NEW t \in Int, NEW low \in Int, NEW high \in Int, low <= high
  PROVE  LET d == t - s
             u == s - low
             v == high - s
         IN /\ d \in Int /\ u \in Int /\ v \in Int
            /\ Enters(d, u, v) \in Int /\ Leaves(d, u, v) \in Int
            /\ d # 0 => Size(d) \in Nat \ {0} /\ Enters(d, u, v) <= Leaves(d, u, v)
            /\ (s <= high \/ t <= high) /\ (s >= low \/ t >= low) <=>
                 /\ d = 0 => u >= 0 /\ v >= 0
                 /\ d # 0 => 0 <= Leaves(d, u, v) /\ Enters(d, u, v) <= Size(d)
  BY DEF Enters, Leaves, Size

\* What the four clips leave, in products.
LEMMA ClipInTimes ==
  ASSUME NEW a \in Point, NEW b \in Point, NEW r \in Rectangle, r.x1 <= r.x2, r.z1 <= r.z2
  PROVE  LET dx == b[1] - a[1]
             dz == b[2] - a[2]
             u1 == a[1] - r.x1
             v1 == r.x2 - a[1]
             u2 == a[2] - r.z1
             v2 == r.z2 - a[2]
         IN SegmentIntersects(a, b, r) <=>
              /\ dx = 0 => u1 >= 0 /\ v1 >= 0
              /\ dx # 0 => 0 <= Leaves(dx, u1, v1) /\ Enters(dx, u1, v1) <= Size(dx)
              /\ dz = 0 => u2 >= 0 /\ v2 >= 0
              /\ dz # 0 => 0 <= Leaves(dz, u2, v2) /\ Enters(dz, u2, v2) <= Size(dz)
              /\ dx # 0 /\ dz # 0 =>
                   /\ Enters(dx, u1, v1) * Size(dz) <= Leaves(dz, u2, v2) * Size(dx)
                   /\ Enters(dz, u2, v2) * Size(dx) <= Leaves(dx, u1, v1) * Size(dz)
<1> DEFINE dx == b[1] - a[1]
           dz == b[2] - a[2]
           u1 == a[1] - r.x1
           v1 == r.x2 - a[1]
           u2 == a[2] - r.z1
           v2 == r.z2 - a[2]
           all == [empty |-> FALSE, lo |-> Over(0, 1), hi |-> Over(1, 1)]
           half == Clip(Clip(all, -dx, u1), dx, v1)
           cut == Clip(Clip(half, -dz, u2), dz, v2)
           mx == Enters(dx, u1, v1)
           Mx == Leaves(dx, u1, v1)
           mz == Enters(dz, u2, v2)
           Mz == Leaves(dz, u2, v2)
           ex == Size(dx)
           ez == Size(dz)
           L == {Over(0, 1)}
           H == {Over(1, 1)}
<1>1. SegmentIntersects(a, b, r) <=> ~cut.empty
  BY DEF SegmentIntersects, Over
<1>2. /\ dx \in Int /\ u1 \in Int /\ v1 \in Int /\ dz \in Int /\ u2 \in Int /\ v2 \in Int
      /\ mx \in Int /\ Mx \in Int /\ mz \in Int /\ Mz \in Int
      /\ dx # 0 => ex \in Nat \ {0} /\ mx <= Mx
      /\ dz # 0 => ez \in Nat \ {0} /\ mz <= Mz
  <2>1. a[1] \in Int /\ a[2] \in Int /\ b[1] \in Int /\ b[2] \in Int
    BY DEF Point
  <2>2. r.x1 \in Int /\ r.x2 \in Int /\ r.z1 \in Int /\ r.z2 \in Int
    BY DEF Rectangle
  <2> QED BY <2>1, <2>2, OverlapInTimes
<1>3. Tracks(all, L, H, TRUE)
  <2>1. Over(0, 1) \in Fraction /\ Over(1, 1) \in Fraction /\ AtMost(Over(0, 1), Over(1, 1))
    BY TimesCompared DEF Fraction, Over
  <2>2. AtMost(Over(0, 1), Over(0, 1)) /\ AtMost(Over(1, 1), Over(1, 1))
    BY <2>1, AtMostIsOrder
  <2> HIDE DEF Fraction
  <2> QED BY <2>1, <2>2 DEF Tracks
<1> HIDE DEF all
<1>4. /\ dx = 0 => Tracks(half, L, H, (TRUE /\ u1 >= 0) /\ v1 >= 0)
      /\ dx # 0 => Tracks(half, L \cup {Over(mx, ex)}, H \cup {Over(Mx, ex)}, TRUE)
  BY <1>2, <1>3, AxisTracks
<1> HIDE DEF half, dx, dz, u1, u2, v1, v2
<1>5. CASE dx = 0 /\ dz = 0
  <2>1. ((TRUE /\ u1 >= 0) /\ v1 >= 0) \in BOOLEAN
    OBVIOUS
  <2>2. Tracks(cut, L, H, (((TRUE /\ u1 >= 0) /\ v1 >= 0) /\ u2 >= 0) /\ v2 >= 0)
    BY <1>2, <1>4, <1>5, <2>1, AxisTracks
  <2>3. AtMost(Over(0, 1), Over(1, 1))
    BY TimesCompared
  <2> HIDE DEF cut
  <2>4. cut.empty <=> ~(u1 >= 0 /\ v1 >= 0 /\ u2 >= 0 /\ v2 >= 0)
    BY <2>2, <2>3 DEF Tracks
  <2> QED BY <1>1, <1>5, <2>4 DEF dx, dz, u1, u2, v1, v2
<1>6. CASE dx = 0 /\ dz # 0
  <2>1. ((TRUE /\ u1 >= 0) /\ v1 >= 0) \in BOOLEAN
    OBVIOUS
  <2>2. Tracks(cut, L \cup {Over(mz, ez)}, H \cup {Over(Mz, ez)}, (TRUE /\ u1 >= 0) /\ v1 >= 0)
    BY <1>2, <1>4, <1>6, <2>1, AxisTracks
  <2> HIDE DEF cut, mz, Mz, ez
  <2>3. /\ AtMost(Over(0, 1), Over(1, 1))
        /\ AtMost(Over(0, 1), Over(Mz, ez)) <=> 0 <= Mz
        /\ AtMost(Over(mz, ez), Over(1, 1)) <=> mz <= ez
        /\ AtMost(Over(mz, ez), Over(Mz, ez))
    BY <1>2, <1>6, TimesCompared
  <2>4. cut.empty <=> ~(u1 >= 0 /\ v1 >= 0 /\ 0 <= Mz /\ mz <= ez)
    BY <2>2, <2>3 DEF Tracks
  <2> QED BY <1>1, <1>6, <2>4 DEF dx, dz, u1, u2, v1, v2, mz, Mz, ez
<1>7. CASE dx # 0 /\ dz = 0
  <2>1. L \cup {Over(mx, ex)} \in SUBSET Fraction
    BY <1>4, <1>7 DEF Tracks
  <2>2. Tracks(cut, L \cup {Over(mx, ex)}, H \cup {Over(Mx, ex)}, (TRUE /\ u2 >= 0) /\ v2 >= 0)
    BY <1>2, <1>4, <1>7, AxisTracks
  <2> HIDE DEF cut, mx, Mx, ex
  <2>3. /\ AtMost(Over(0, 1), Over(1, 1))
        /\ AtMost(Over(0, 1), Over(Mx, ex)) <=> 0 <= Mx
        /\ AtMost(Over(mx, ex), Over(1, 1)) <=> mx <= ex
        /\ AtMost(Over(mx, ex), Over(Mx, ex))
    BY <1>2, <1>7, TimesCompared
  <2>4. cut.empty <=> ~(u2 >= 0 /\ v2 >= 0 /\ 0 <= Mx /\ mx <= ex)
    BY <2>2, <2>3 DEF Tracks
  <2> QED BY <1>1, <1>7, <2>4 DEF dx, dz, u1, u2, v1, v2, mx, Mx, ex
<1>8. CASE dx # 0 /\ dz # 0
  <2>1. Tracks(cut, (L \cup {Over(mx, ex)}) \cup {Over(mz, ez)},
                    (H \cup {Over(Mx, ex)}) \cup {Over(Mz, ez)}, TRUE)
    BY <1>2, <1>4, <1>8, AxisTracks
  <2> HIDE DEF cut, mx, Mx, ex, mz, Mz, ez
  <2>2. /\ AtMost(Over(0, 1), Over(1, 1))
        /\ AtMost(Over(0, 1), Over(Mx, ex)) <=> 0 <= Mx
        /\ AtMost(Over(mx, ex), Over(1, 1)) <=> mx <= ex
        /\ AtMost(Over(mx, ex), Over(Mx, ex))
        /\ AtMost(Over(mx, ex), Over(Mz, ez)) <=> mx * ez <= Mz * ex
    BY <1>2, <1>8, TimesCompared
  <2>3. /\ AtMost(Over(0, 1), Over(Mz, ez)) <=> 0 <= Mz
        /\ AtMost(Over(mz, ez), Over(1, 1)) <=> mz <= ez
        /\ AtMost(Over(mz, ez), Over(Mz, ez))
        /\ AtMost(Over(mz, ez), Over(Mx, ex)) <=> mz * ex <= Mx * ez
    BY <1>2, <1>8, TimesCompared
  <2>4. cut.empty <=> ~(/\ 0 <= Mx /\ mx <= ex /\ 0 <= Mz /\ mz <= ez
                        /\ mx * ez <= Mz * ex /\ mz * ex <= Mx * ez)
    <3> DEFINE allowed == \A l \in (L \cup {Over(mx, ex)}) \cup {Over(mz, ez)},
                             h \in (H \cup {Over(Mx, ex)}) \cup {Over(Mz, ez)} : AtMost(l, h)
    <3>1. cut.empty <=> ~allowed
      BY <2>1 DEF Tracks
    <3>2. allowed <=>
            /\ AtMost(Over(0, 1), Over(1, 1)) /\ AtMost(Over(0, 1), Over(Mx, ex))
            /\ AtMost(Over(0, 1), Over(Mz, ez))
            /\ AtMost(Over(mx, ex), Over(1, 1)) /\ AtMost(Over(mx, ex), Over(Mx, ex))
            /\ AtMost(Over(mx, ex), Over(Mz, ez))
            /\ AtMost(Over(mz, ez), Over(1, 1)) /\ AtMost(Over(mz, ez), Over(Mx, ex))
            /\ AtMost(Over(mz, ez), Over(Mz, ez))
      OBVIOUS
    <3> HIDE DEF allowed
    <3> QED BY <2>2, <2>3, <3>1, <3>2
  <2> QED BY <1>1, <1>8, <2>4 DEF dx, dz, u1, u2, v1, v2, mx, Mx, ex, mz, Mz, ez
<1> QED BY <1>5, <1>6, <1>7, <1>8

\* Clipping finds exactly the rectangles the segment meets.
LEMMA ClipIsExact ==
  ASSUME NEW a \in Point, NEW b \in Point, NEW r \in Rectangle, r.x1 <= r.x2, r.z1 <= r.z2
  PROVE  SegmentIntersects(a, b, r) <=> Meets(a, b, r)
<1> DEFINE dx == b[1] - a[1]
           dz == b[2] - a[2]
           u1 == a[1] - r.x1
           v1 == r.x2 - a[1]
           u2 == a[2] - r.z1
           v2 == r.z2 - a[2]
           p == dx * (r.z1 - a[2])
           q == dx * (r.z2 - a[2])
           s == dz * (r.x1 - a[1])
           t == dz * (r.x2 - a[1])
           inX == /\ dx = 0 => u1 >= 0 /\ v1 >= 0
                  /\ dx # 0 => 0 <= Leaves(dx, u1, v1) /\ Enters(dx, u1, v1) <= Size(dx)
           inZ == /\ dz = 0 => u2 >= 0 /\ v2 >= 0
                  /\ dz # 0 => 0 <= Leaves(dz, u2, v2) /\ Enters(dz, u2, v2) <= Size(dz)
           atOnce == dx # 0 /\ dz # 0 =>
                       /\ Enters(dx, u1, v1) * Size(dz) <= Leaves(dz, u2, v2) * Size(dx)
                       /\ Enters(dz, u2, v2) * Size(dx) <= Leaves(dx, u1, v1) * Size(dz)
           astride == /\ s <= p \/ t <= p \/ s <= q \/ t <= q
                      /\ p <= s \/ p <= t \/ q <= s \/ q <= t
<1>1. /\ a[1] \in Int /\ a[2] \in Int /\ b[1] \in Int /\ b[2] \in Int
      /\ r.x1 \in Int /\ r.x2 \in Int /\ r.z1 \in Int /\ r.z2 \in Int
  BY DEF Point, Rectangle
<1>2. SegmentIntersects(a, b, r) <=> inX /\ inZ /\ atOnce
  BY ClipInTimes
<1>3. Meets(a, b, r) <=> inX /\ inZ /\ astride
  <2>1. Meets(a, b, r) <=>
          /\ (a[1] <= r.x2 \/ b[1] <= r.x2) /\ (a[1] >= r.x1 \/ b[1] >= r.x1)
          /\ (a[2] <= r.z2 \/ b[2] <= r.z2) /\ (a[2] >= r.z1 \/ b[2] >= r.z1)
          /\ astride
    BY MeetsInProducts
  <2>2. inX <=> (a[1] <= r.x2 \/ b[1] <= r.x2) /\ (a[1] >= r.x1 \/ b[1] >= r.x1)
    BY <1>1, OverlapInTimes
  <2>3. inZ <=> (a[2] <= r.z2 \/ b[2] <= r.z2) /\ (a[2] >= r.z1 \/ b[2] >= r.z1)
    BY <1>1, OverlapInTimes
  <2> HIDE DEF inX, inZ, astride
  <2> QED BY <2>1, <2>2, <2>3
<1>4. ASSUME inX, inZ PROVE atOnce <=> astride
  <2>1. p \in Int /\ q \in Int /\ s \in Int /\ t \in Int /\ dx \in Int /\ dz \in Int
    BY <1>1
  <2>2. (dx >= 0 => p <= q) /\ (dx <= 0 => q <= p)
    BY <1>1, <2>1, SidesGrow
  <2>3. (dz >= 0 => s <= t) /\ (dz <= 0 => t <= s)
    BY <1>1, <2>1, SidesGrow
  <2>4. CASE dx = 0
    <3>1. u1 >= 0 /\ v1 >= 0
      BY <1>4, <2>4
    <3>2. r.x1 - a[1] \in Int /\ r.x2 - a[1] \in Int /\ r.x1 - a[1] <= 0 /\ 0 <= r.x2 - a[1]
      BY <1>1, <3>1
    <3>3. (s <= 0 /\ 0 <= t) \/ (t <= 0 /\ 0 <= s)
      BY <2>1, <3>2, SidesStraddle
    <3>4. p = 0 /\ q = 0
      BY <1>1, <2>1, <2>4
    <3> HIDE DEF dx, dz, u1, v1, u2, v2, p, q, s, t
    <3> QED BY <2>1, <2>4, <3>3, <3>4
  <2>5. CASE dz = 0
    <3>1. u2 >= 0 /\ v2 >= 0
      BY <1>4, <2>5
    <3>2. r.z1 - a[2] \in Int /\ r.z2 - a[2] \in Int /\ r.z1 - a[2] <= 0 /\ 0 <= r.z2 - a[2]
      BY <1>1, <3>1
    <3>3. (p <= 0 /\ 0 <= q) \/ (q <= 0 /\ 0 <= p)
      BY <2>1, <3>2, SidesStraddle
    <3>4. s = 0 /\ t = 0
      BY <1>1, <2>1, <2>5
    <3> HIDE DEF dx, dz, u1, v1, u2, v2, p, q, s, t
    <3> QED BY <2>1, <2>5, <3>3, <3>4
  <2>6. CASE dx > 0 /\ dz > 0
    <3>1. Enters(dx, u1, v1) * Size(dz) = s /\ Leaves(dz, u2, v2) * Size(dx) = q
      BY <1>1, <2>6 DEF Enters, Leaves, Size
    <3>2. Enters(dz, u2, v2) * Size(dx) = p /\ Leaves(dx, u1, v1) * Size(dz) = t
      BY <1>1, <2>6 DEF Enters, Leaves, Size
    <3> HIDE DEF dx, dz, u1, v1, u2, v2, p, q, s, t
    <3> QED BY <2>1, <2>2, <2>3, <2>6, <3>1, <3>2
  <2>7. CASE dx > 0 /\ dz < 0
    <3>1. Enters(dx, u1, v1) * Size(dz) = -s /\ Leaves(dz, u2, v2) * Size(dx) = -p
      BY <1>1, <2>7 DEF Enters, Leaves, Size
    <3>2. Enters(dz, u2, v2) * Size(dx) = -q /\ Leaves(dx, u1, v1) * Size(dz) = -t
      BY <1>1, <2>7 DEF Enters, Leaves, Size
    <3> HIDE DEF dx, dz, u1, v1, u2, v2, p, q, s, t
    <3> QED BY <2>1, <2>2, <2>3, <2>7, <3>1, <3>2
  <2>8. CASE dx < 0 /\ dz > 0
    <3>1. Enters(dx, u1, v1) * Size(dz) = -t /\ Leaves(dz, u2, v2) * Size(dx) = -q
      BY <1>1, <2>8 DEF Enters, Leaves, Size
    <3>2. Enters(dz, u2, v2) * Size(dx) = -p /\ Leaves(dx, u1, v1) * Size(dz) = -s
      BY <1>1, <2>8 DEF Enters, Leaves, Size
    <3> HIDE DEF dx, dz, u1, v1, u2, v2, p, q, s, t
    <3> QED BY <2>1, <2>2, <2>3, <2>8, <3>1, <3>2
  <2>9. CASE dx < 0 /\ dz < 0
    <3>1. Enters(dx, u1, v1) * Size(dz) = t /\ Leaves(dz, u2, v2) * Size(dx) = p
      BY <1>1, <2>9 DEF Enters, Leaves, Size
    <3>2. Enters(dz, u2, v2) * Size(dx) = q /\ Leaves(dx, u1, v1) * Size(dz) = s
      BY <1>1, <2>9 DEF Enters, Leaves, Size
    <3> HIDE DEF dx, dz, u1, v1, u2, v2, p, q, s, t
    <3> QED BY <2>1, <2>2, <2>3, <2>9, <3>1, <3>2
  <2> HIDE DEF dx, dz, atOnce, astride
  <2> QED BY <2>1, <2>4, <2>5, <2>6, <2>7, <2>8, <2>9
<1> HIDE DEF inX, inZ, atOnce, astride
<1> QED BY <1>2, <1>3, <1>4

\* What is behind a stall cannot be claimed, what is not can, and a chest out
\* of reach from the ground takes a jump (reach_check in game.rs).
THEOREM SeesExactly == Spec => []SightIsExact
<1>1. TypeOK => SightIsExact
  <2> SUFFICES ASSUME TypeOK, NEW k \in DOMAIN Targets
               PROVE  LET t == Targets[k]
                          hidden == \E i \in 1 .. Len(Stalls) :
                            /\ ~Within(Stalls[i], pos) /\ ~Within(Stalls[i], t.at)
                            /\ Meets(pos, t.at, Stalls[i])
                      IN /\ InSphere(t) => (SegmentBlocked(pos, t.at) <=> hidden)
                         /\ InReach(t) => ~hidden /\ (t.y > Range * 15 => ~Grounded)
    BY DEF SightIsExact
  <2> DEFINE t == Targets[k]
             hidden == \E i \in 1 .. Len(Stalls) :
               ~Within(Stalls[i], pos) /\ ~Within(Stalls[i], t.at) /\ Meets(pos, t.at, Stalls[i])
  <2>1. pos \in Point /\ t.at \in Point /\ t.y \in Nat /\ Range \in Nat
    BY WorldAssumption DEF TypeOK
  <2>2. ASSUME NEW i \in 1 .. Len(Stalls)
        PROVE  SegmentIntersects(pos, t.at, Stalls[i]) <=> Meets(pos, t.at, Stalls[i])
    <3>1. Stalls[i] \in Rectangle /\ Stride \in Nat
          /\ Stride < Stalls[i].x2 - Stalls[i].x1 /\ Stride < Stalls[i].z2 - Stalls[i].z1
      BY WorldAssumption
    <3>2. Stalls[i].x1 <= Stalls[i].x2 /\ Stalls[i].z1 <= Stalls[i].z2
      BY <3>1 DEF Rectangle
    <3> HIDE DEF t
    <3> QED BY <2>1, <3>1, <3>2, ClipIsExact
  <2> HIDE DEF t
  <2>3. SegmentBlocked(pos, t.at) <=> hidden
    BY <2>2 DEF SegmentBlocked
  <2>4. ASSUME InSphere(t), Grounded PROVE t.y <= Range * 15
    <3> DEFINE far == Square(pos[1] - t.at[1]) + Square(pos[2] - t.at[2])
               n == t.y
               m == Range * 15
    <3>1. far \in Nat
      <4>1. \A j \in Int : j * j \in Nat
        OBVIOUS
      <4> QED BY <2>1, <4>1 DEF Square, Point
    <3>2. 225 * far + (0 - n) * (0 - n) <= 225 * (Range * Range)
      BY <2>4 DEF InSphere, Grounded, Square
    <3>3. n \in Nat /\ m \in Nat
      BY <2>1
    <3>4. (0 - n) * (0 - n) = n * n /\ 225 * (Range * Range) = m * m /\ n * n \in Nat /\ m * m \in Nat
      BY <2>1
    <3> HIDE DEF far, n, m
    <3>5. n * n <= m * m
      BY <3>1, <3>2, <3>4
    <3>6. ASSUME m < n PROVE FALSE
      <4>1. (m + 1) * n <= n * n /\ m * m <= n * m
        BY <3>3, <3>6, ProductsGrow
      <4>2. (m + 1) * n = n * m + n /\ n * m \in Nat
        BY <3>3
      <4> QED BY <3>3, <3>4, <3>5, <3>6, <4>1, <4>2
    <3> QED BY <3>3, <3>6 DEF n, m
  <2>5. InReach(t) => ~hidden /\ (t.y > Range * 15 => ~Grounded)
    <3> HIDE DEF hidden
    <3> QED BY <2>1, <2>3, <2>4 DEF InReach
  <2> QED BY <2>3, <2>5 DEF t
<1> QED BY <1>1, TypeCorrect, PTL
==============================================================================
