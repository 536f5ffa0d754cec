-------------------------------- MODULE Game ---------------------------------
(***************************************************************************)
(* The game server (server/src/game.rs) with its prize vault (vault.rs):   *)
(* sessions, ghosts and bodies, the chests, the riddle lantern, the gacha  *)
(* shrine and the timing bell, and the bounded outbox in front of every    *)
(* websocket.  Each operation holds the one game lock from its first check *)
(* to its last push, so each is one action; the pump that empties an       *)
(* outbox, the clock, closing sockets and a crash come between them.       *)
(*                                                                         *)
(* A place stands for where reach_check finds a session: its room, and the *)
(* target within range and sight there, if any; World has the geometry.    *)
(* Messages other than a prize are one "frame": what they say is state the *)
(* server sends again.  What gates are paid for is module Gates: here a    *)
(* grant or a paid play simply happens.                                    *)
(***************************************************************************)
EXTENDS Integers, FiniteSets, SequencesExt

CONSTANTS
  Sessions,      \* session ids, never issued twice
  Places,        \* where a session can stand
  GhostSpawn,    \* the place of a new ghost
  BodySpawn,     \* the place of a new body
  Street,        \* the room outside every court
  RoomOf,        \* the room of each place: Street or a court, named by its gate
  TargetAt,      \* the chest or booth in reach of each place, or NoTarget
  Roofs,         \* the places whose target is in reach only in mid-jump
  NoTarget,
  Chests, Riddles, Gachas, Bells,  \* the targets of each kind
  Spawn,         \* the gate that turns a ghost into a body
  Stock,         \* what the keeper put in the vault for each target
  OutboxSize,    \* OUTBOX
  GachaN,        \* gacha_n: a win every GachaN pulls
  RiddleCount,   \* riddle_count()
  MaxPulls,      \* bound: gacha pulls between two restarts
  MaxPlays,      \* bound: bell plays a session starts
  Tours          \* bound: the sets of places a behaviour keeps to

Booths == Riddles \cup Gachas \cup Bells
Targets == Chests \cup Booths
RoomsOf(P) == {RoomOf[p] : p \in P} \ {Street}
Courts == RoomsOf(Places)
TokensOf(k) == ToSet(Stock[k])
Tokens == UNION {TokensOf(k) : k \in Targets}

Frame == "frame"
ASSUME GameAssumption ==
  /\ {GhostSpawn, BodySpawn} \subseteq Places
  /\ RoomOf[GhostSpawn] = Street /\ RoomOf[BodySpawn] = Street
  /\ \A p \in Places : TargetAt[p] \in Targets \cup {NoTarget}
  /\ Chests \cap Booths = {} /\ Riddles \cap (Gachas \cup Bells) = {}
  /\ \A k, l \in Targets : k # l => TokensOf(k) \cap TokensOf(l) = {}
  /\ \A k \in Targets : Stock[k] \in Seq(TokensOf(k)) /\ IsInjective(Stock[k])
  /\ Frame \notin Tokens
  /\ Spawn \notin Courts
  /\ \A t \in Tours : {GhostSpawn, BodySpawn} \subseteq t /\ t \subseteq Places
  /\ GachaN \in Nat /\ RiddleCount \in Nat \ {0} /\ OutboxSize \in Nat \ {0}
  /\ MaxPulls \in Nat /\ MaxPlays \in Nat

VARIABLES
  tour,          \* the places of this behaviour
  used,          \* the session ids issued so far
  players,       \* the live sessions' Player records, by id
  outbox,        \* what waits for each websocket
  pocket,        \* the prize tokens each client received
  claimed,       \* chest_claimed
  riddleIndex,   \* the riddle the lanterns ask
  gachaCount,    \* gacha_count
  bells,         \* bell_plays: by session, "live" or "expired"
  vault,         \* the vault file: the tokens left for each target
  lost,          \* history: the prizes that left the vault and reach nobody
  bellLog        \* history: bell plays each session paid for, presses judged

vars == <<tour, used, players, outbox, pocket, claimed, riddleIndex, gachaCount, bells,
          vault, lost, bellLog>>
\* What a session's own moves leave alone.
world == <<tour, used, pocket, claimed, riddleIndex, gachaCount, bells, vault, lost, bellLog>>

Live == DOMAIN players
Player == [body : BOOLEAN, place : Places, aloft : BOOLEAN,
           entitled : SUBSET (Courts \cup {Spawn}), won : SUBSET Riddles,
           guessed : BOOLEAN]

\* The targets of this behaviour.
Visited == {TargetAt[p] : p \in tour}

TypeOK ==
  /\ tour \in Tours
  /\ used \subseteq Sessions /\ Live \subseteq used
  /\ players \in [Live -> Player]
  /\ outbox \in [Live -> Seq(Tokens \cup {Frame})]
  /\ \A s \in Live : Len(outbox[s]) <= OutboxSize
  /\ pocket \in [Sessions -> SUBSET Tokens]
  /\ claimed \in [Chests -> BOOLEAN]
  /\ riddleIndex \in 0 .. RiddleCount - 1
  /\ gachaCount \in 0 .. MaxPulls /\ lost \subseteq Tokens
  /\ DOMAIN bells \subseteq used /\ \A s \in DOMAIN bells : bells[s] \in {"live", "expired"}
  /\ vault \in [Targets -> Seq(Tokens)]
  /\ bellLog \in [Sessions -> [started : 0 .. MaxPlays, judged : Nat]]

------------------------------------------------------------------------------
(* Boot. *)

\* Mutant: every chest starts full.
BootFull(v) == {[c \in Chests |-> FALSE]}

\* with_sink: a chest without stock is looted from the start, and so is one
\* whose stock cannot be read.
BootChests(v) == {f \in [Chests -> BOOLEAN] : \A c \in Chests : v[c] = <<>> => f[c]}

Init ==
  /\ tour \in Tours
  /\ used = {}
  /\ players = << >>
  /\ outbox = << >>
  /\ pocket = [s \in Sessions |-> {}]
  /\ vault = [k \in Targets |-> Stock[k]]
  /\ claimed \in BootChests(Stock) /\ \A c \in Chests \ Visited : ~claimed[c]
  /\ riddleIndex = 0
  /\ gachaCount = 0 /\ lost = {}
  /\ bells = << >>
  /\ bellLog = [s \in Sessions |-> [started |-> 0, judged |-> 0]]

------------------------------------------------------------------------------
(* Messages. *)

\* Mutant: the queue grows.
PushedAlways(q, m) == Append(q, m)

\* Player::push: try_send, which drops the message when the outbox is full.
Pushed(q, m) == IF Len(q) < OutboxSize THEN Append(q, m) ELSE q

\* What a push of m to s drops.
Dropped(s, m) == IF Len(outbox[s]) < OutboxSize THEN {} ELSE {m}

\* The prizes that wait for s and that it does not have from an HTTP answer.
Undelivered(s) == ToSet(outbox[s]) \ ({Frame} \cup pocket[s])

Tell(s, m) == outbox' = [outbox EXCEPT ![s] = Pushed(@, m)]
TellAll(m) == outbox' = [s \in Live |-> Pushed(outbox[s], m)]

\* client_loop takes the next message and sends it; what is sent arrives.
Deliver(s) ==
  /\ s \in Live
  /\ outbox[s] # <<>>
  /\ outbox' = [outbox EXCEPT ![s] = Tail(@)]
  /\ pocket' = [pocket EXCEPT ![s] = @ \cup ({Head(outbox[s])} \ {Frame})]
  /\ UNCHANGED <<tour, used, players, claimed, riddleIndex, gachaCount, bells, vault,
                 lost, bellLog>>

------------------------------------------------------------------------------
(* Sessions. *)

Without(f, s) == [t \in DOMAIN f \ {s} |-> f[t]]
With(f, s, v) == [t \in DOMAIN f \cup {s} |-> IF t = s THEN v ELSE f[t]]

Connect(s) ==
  /\ s \notin used
  /\ used' = used \cup {s}
  /\ players' = With(players, s, [body |-> FALSE, place |-> GhostSpawn, aloft |-> FALSE,
                                  entitled |-> {}, won |-> {}, guessed |-> FALSE])
  /\ outbox' = With(outbox, s, <<>>)
  /\ UNCHANGED <<tour, pocket, claimed, riddleIndex, gachaCount, bells, vault, lost, bellLog>>

\* disconnect forgets the player and what waited for it; a bell play it left
\* behind stays in the map.
Disconnect(s) ==
  /\ s \in Live
  /\ players' = Without(players, s)
  /\ outbox' = Without(outbox, s)
  /\ lost' = lost \cup Undelivered(s)
  /\ UNCHANGED <<tour, used, pocket, claimed, riddleIndex, gachaCount, bells, vault, bellLog>>

\* grant, on behalf of a paid gate: the spawn gate puts a ghost into a body.
Granted(p, g) ==
  IF g = Spawn /\ ~p.body
  THEN [p EXCEPT !.entitled = p.entitled \cup {g}, !.body = TRUE, !.place = BodySpawn,
                 !.aloft = FALSE]
  ELSE [p EXCEPT !.entitled = p.entitled \cup {g}]

Grant(s, g) ==
  /\ s \in Live
  /\ players' = [players EXCEPT ![s] = Granted(@, g)]
  /\ Tell(s, Frame)
  /\ UNCHANGED world

------------------------------------------------------------------------------
(* Movement: what the ticks make of a session's intent and jumps. *)

\* step_legal: into a court only with a body and the court's gate paid; out
\* of one, and about in a room, as one likes; never from court to court.
MayStep(p, from, to) ==
  \/ RoomOf[from] = RoomOf[to]
  \/ RoomOf[to] = Street
  \/ RoomOf[from] = Street /\ p.body /\ RoomOf[to] \in p.entitled

Walk(s, to) ==
  /\ s \in Live
  /\ to \in tour \ {players[s].place}
  /\ MayStep(players[s], players[s].place, to)
  /\ players' = [players EXCEPT ![s].place = to]
  /\ UNCHANGED <<outbox, world>>

\* Bodies only, and only from the ground.
Jump(s) ==
  /\ s \in Live
  /\ players[s].body /\ ~players[s].aloft
  /\ players' = [players EXCEPT ![s].aloft = TRUE]
  /\ UNCHANGED <<outbox, world>>

Land(s) ==
  /\ s \in Live
  /\ players[s].aloft
  /\ players' = [players EXCEPT ![s].aloft = FALSE]
  /\ UNCHANGED <<outbox, world>>

\* The snapshot every tick pushes to every session.
Tick == Live # {} /\ TellAll(Frame) /\ UNCHANGED <<players, world>>

\* reach_check: a body, in the room of the target, within range and sight.
InReach(s, k) ==
  /\ s \in Live
  /\ players[s].body
  /\ TargetAt[players[s].place] = k
  /\ players[s].place \in Roofs => players[s].aloft

------------------------------------------------------------------------------
(* Chests. *)

\* Mutant: the pop comes before the question whether the chest is claimed.
ClaimPopsFirst(s, c) ==
  /\ InReach(s, c)
  /\ vault[c] # <<>>
  /\ vault' = [vault EXCEPT ![c] = Tail(@)]
  /\ claimed' = [claimed EXCEPT ![c] = TRUE]
  /\ IF claimed[c]
     THEN Tell(s, Frame) /\ UNCHANGED lost
     ELSE Tell(s, Head(vault[c])) /\ lost' = lost \cup Dropped(s, Head(vault[c]))
  /\ UNCHANGED <<tour, used, players, pocket, riddleIndex, gachaCount, bells, bellLog>>

\* Mutant: a peek.
PopNothing(k) == UNCHANGED vault

\* Vault::pop: the first token leaves the file before anyone is told of it.
Pop(k) == vault' = [vault EXCEPT ![k] = Tail(@)]

ClaimChest(s, c) ==
  /\ InReach(s, c)
  /\ ~claimed[c]
  /\ vault[c] # <<>>
  /\ Pop(c)
  /\ claimed' = [claimed EXCEPT ![c] = TRUE]
  /\ Tell(s, Head(vault[c])) /\ lost' = lost \cup Dropped(s, Head(vault[c]))
  /\ UNCHANGED <<tour, used, players, pocket, riddleIndex, gachaCount, bells, bellLog>>

\* Every refusal of interact and answer that changes nothing but the outbox:
\* out of reach, already claimed, empty or failing vault, a paid booth's hint.
Refuse(s) == s \in Live /\ Tell(s, Frame) /\ UNCHANGED <<players, world>>

------------------------------------------------------------------------------
(* The riddle lantern. *)

MayAnswer(s, b) ==
  /\ InReach(s, b)
  /\ b \notin players[s].won
  /\ ~players[s].guessed

Solved(s, b) ==
  /\ players' = [players EXCEPT ![s].guessed = TRUE, ![s].won = @ \cup {b}]
  /\ riddleIndex' = (riddleIndex + 1) % RiddleCount

\* The text answers one riddle; it is right if that is the one being asked.
AnswerRight(s, b, riddle) ==
  /\ MayAnswer(s, b)
  /\ riddle = riddleIndex
  /\ Solved(s, b)
  /\ \/ /\ vault[b] # <<>>
        /\ Pop(b)
        /\ Tell(s, Head(vault[b])) /\ lost' = lost \cup Dropped(s, Head(vault[b]))
     \/ vault[b] = <<>> /\ Tell(s, Frame) /\ UNCHANGED <<vault, lost>>
  /\ UNCHANGED <<tour, used, pocket, claimed, gachaCount, bells, bellLog>>

\* A wrong guess, or a vault that fails to be read or written: no win, and
\* the guess is spent all the same.
AnswerInVain(s, b) ==
  /\ MayAnswer(s, b)
  /\ players' = [players EXCEPT ![s].guessed = TRUE]
  /\ Tell(s, Frame)
  /\ UNCHANGED world

\* GUESS_COOLDOWN passes.
CoolDown(s) ==
  /\ s \in Live
  /\ players[s].guessed
  /\ players' = [players EXCEPT ![s].guessed = FALSE]
  /\ UNCHANGED <<outbox, world>>

------------------------------------------------------------------------------
(* The gacha shrine: the prize goes out in the HTTP answer, and nowhere else. *)

GachaWins(count) == GachaN > 0 /\ count % GachaN = 0

\* An HTTP answer with a prize reaches its client.
Answered(s, token) == pocket' = [pocket EXCEPT ![s] = @ \cup {token}]

PlayGacha(s, b) ==
  /\ gachaCount < MaxPulls
  /\ InReach(s, b)
  /\ gachaCount' = gachaCount + 1
  /\ \/ /\ GachaWins(gachaCount') /\ vault[b] # <<>>
        /\ Pop(b)
        /\ \/ Answered(s, Head(vault[b])) /\ UNCHANGED lost
           \/ lost' = lost \cup {Head(vault[b])} /\ UNCHANGED pocket
     \/ \* no win, sold out, or a vault that failed, which reads as sold out
        UNCHANGED <<vault, pocket, lost>>
  /\ UNCHANGED <<tour, used, players, outbox, claimed, riddleIndex, bells, bellLog>>

------------------------------------------------------------------------------
(* The timing bell: one paid start, one free press. *)

PlayBellStart(s, b) ==
  /\ bellLog[s].started < MaxPlays
  /\ InReach(s, b)
  /\ bells' = With(bells, s, "live")
  /\ bellLog' = [bellLog EXCEPT ![s].started = @ + 1]
  /\ UNCHANGED <<tour, used, players, outbox, pocket, claimed, riddleIndex, gachaCount,
                 vault, lost>>

\* BELL_PLAY_TTL passes.
BellExpires(s) ==
  /\ s \in DOMAIN bells
  /\ bells[s] = "live"
  /\ bells' = [bells EXCEPT ![s] = "expired"]
  /\ UNCHANGED <<tour, used, players, outbox, pocket, claimed, riddleIndex, gachaCount,
                 vault, lost, bellLog>>

\* Mutant: a hit or a miss leaves the play where it was.
PressAgain(s, b) ==
  /\ s \in Live \cap DOMAIN bells
  /\ bells[s] = "live"
  /\ bellLog' = [bellLog EXCEPT ![s].judged = @ + 1]
  /\ TellAll(Frame)
  /\ UNCHANGED <<tour, used, players, pocket, claimed, riddleIndex, gachaCount, bells,
                 vault, lost>>

\* A press on a live play is judged once, hit or miss, wherever the session
\* stands by now.  A hit pays in the HTTP answer and again as a Prize.
PlayBellPress(s, b) ==
  /\ s \in Live \cap DOMAIN bells
  /\ bells[s] = "live"
  /\ bells' = Without(bells, s)
  /\ bellLog' = [bellLog EXCEPT ![s].judged = @ + 1]
  /\ \/ /\ vault[b] # <<>>
        /\ Pop(b)
        /\ \/ Answered(s, Head(vault[b])) /\ UNCHANGED lost
           \/ lost' = lost \cup Dropped(s, Head(vault[b])) /\ UNCHANGED pocket
        /\ outbox' = [t \in Live |->
             Pushed(IF t = s THEN Pushed(outbox[t], Head(vault[b])) ELSE outbox[t], Frame)]
     \/ TellAll(Frame) /\ UNCHANGED <<vault, pocket, lost>>
  /\ UNCHANGED <<tour, used, players, claimed, riddleIndex, gachaCount>>

PressExpired(s) ==
  /\ s \in Live \cap DOMAIN bells
  /\ bells[s] = "expired"
  /\ bells' = Without(bells, s)
  /\ UNCHANGED <<tour, used, players, outbox, pocket, claimed, riddleIndex, gachaCount,
                 vault, lost, bellLog>>

------------------------------------------------------------------------------

Waiting == UNION {Undelivered(s) : s \in Live}

\* The process dies and boots again on what is left of the vault file.  A pop
\* that had renamed the file when it died takes its token along.  The count of
\* the pulls is in memory only, so the shrine's cycle starts again.
Crash ==
  /\ players' = << >> /\ outbox' = << >> /\ bells' = << >>
  /\ riddleIndex' = 0 /\ gachaCount' = 0
  /\ \/ UNCHANGED vault /\ lost' = lost \cup Waiting
     \/ \E k \in Visited \ {NoTarget} :
          /\ vault[k] # <<>> /\ Live # {}
          /\ Pop(k)
          /\ lost' = lost \cup Waiting \cup {Head(vault[k])}
  /\ claimed' \in BootChests(vault') /\ \A c \in Chests \ Visited : ~claimed'[c]
  /\ UNCHANGED <<tour, used, pocket, bellLog>>

Operation(s) ==
  \/ Connect(s) \/ Disconnect(s) \/ Refuse(s)
  \/ \E g \in RoomsOf(tour) \cup {Spawn} : Grant(s, g)
  \/ \E p \in Places : Walk(s, p)
  \/ Jump(s)
  \/ \E c \in Chests : ClaimChest(s, c)
  \/ \E b \in Riddles : \/ \E i \in 0 .. RiddleCount - 1 : AnswerRight(s, b, i)
                        \/ AnswerInVain(s, b)
  \/ \E b \in Gachas : PlayGacha(s, b)
  \/ \E b \in Bells : PlayBellStart(s, b) \/ PlayBellPress(s, b)
  \/ PressExpired(s)

Clock ==
  \/ \E s \in Sessions : Land(s) \/ CoolDown(s) \/ BellExpires(s)
  \/ Tick

Next ==
  \/ \E s \in Sessions : Operation(s) \/ Deliver(s)
  \/ Clock
  \/ Crash

Spec == Init /\ [][Next]_vars

------------------------------------------------------------------------------
(* Properties *)

\* The prizes a session has or is about to receive.
Holds(s) == pocket[s] \cup (IF s \in Live THEN ToSet(outbox[s]) \ {Frame} ELSE {})

AllHeld == UNION {Holds(s) : s \in Sessions}

\* A prize is paid out once: no token is with two clients, or with a client
\* and still in the vault, whatever claims race and whenever the process dies
\* (vault.rs: "a crash mid-claim never duplicates a payout"); and a lantern
\* pays a session once, over any number of guesses.
PrizePaidOnce ==
  /\ \A s, t \in Sessions : s # t => Holds(s) \cap Holds(t) = {}
  /\ \A s \in Sessions, k \in Targets : Holds(s) \cap ToSet(vault[k]) = {}
  /\ \A s \in Sessions, b \in Riddles : Cardinality(Holds(s) \cap TokensOf(b)) <= 1

\* A chest shown as unclaimed can pay: what the snapshots advertise, kept in
\* memory, agrees with the file.
UnclaimedIsStocked ==
  \A c \in Chests : ~claimed[c] => vault[c] # <<>>

\* No prize vanishes: what left the vault is with a client, on its way to one,
\* or was lost in one of four ways that the code leaves open, and then it
\* stays lost: pushed to a full outbox (game.rs:126-127 calls what is dropped
\* there re-derivable; a prize is not), in the outbox of a socket that closes,
\* in an HTTP answer nobody reads, or between a pop and its answer when the
\* process dies.  A refusal of any kind takes none.
PrizeAccounted ==
  /\ \A k \in Targets : TokensOf(k) \subseteq ToSet(vault[k]) \cup lost \cup AllHeld
  /\ \A k \in Targets : lost \cap ToSet(vault[k]) = {}
  /\ lost \cap AllHeld = {}

\* Presses judged never outnumber plays paid for, and a session in credit has
\* its play in the map.
BellPressIsPaid ==
  \A s \in Sessions :
    bellLog[s].judged + (IF s \in DOMAIN bells THEN 1 ELSE 0) <= bellLog[s].started
==============================================================================
