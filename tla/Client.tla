-------------------------------- MODULE Client --------------------------------
(***************************************************************************)
(* The page of one player (client/src/main.ts, net.ts, the parts of        *)
(* booths.ts, hud.ts and world3d.ts it drives) with its session at the     *)
(* server (game.rs): frames come down one websocket through the session's  *)
(* bounded outbox, intents go up the other way, and payments go beside it, *)
(* as one HTTP request at a time.  What a page knows of its session is     *)
(* what frames told it, so it acts on news that is late or never came.     *)
(*                                                                         *)
(* A place stands for where an avatar is: its room, the booth, the chest   *)
(* and the court door within reach of the page's checks there.  Payments   *)
(* are what the page sees of them: ClientWallet and Gates have the rest.   *)
(* The bell's overlay is BellTiming.                                       *)
(***************************************************************************)
EXTENDS Integers, FiniteSets, Sequences

CONSTANTS
  Places,       \* where the session can stand
  GhostSpawn,   \* the place of a new ghost
  BodySpawn,    \* the place of a new body
  Street,       \* the room outside every court
  RoomOf,       \* the room of each place: Street or a court, named by its gate
  BoothAt,      \* the booth within reach of each place, or None
  ChestAt,      \* the chest within reach of each place, or None
  DoorAt,       \* the court whose door is within reach of each place, or None
  Lanterns,     \* the riddle booths; every other booth is a shrine
  None,
  Spawn,        \* the gate that turns a ghost into a body
  OutboxSize,   \* OUTBOX
  Keys,         \* the keys that move the avatar
  MaxUp,        \* bound: client messages under way
  MaxPays       \* bound: payments

Courts == {RoomOf[p] : p \in Places} \ {Street}
Gates == Courts \cup {Spawn}
Booths == {BoothAt[p] : p \in Places} \ {None}
Chests == {ChestAt[p] : p \in Places} \ {None}
ASSUME ClientAssumption ==
  /\ {GhostSpawn, BodySpawn} \subseteq Places
  /\ RoomOf[GhostSpawn] = Street /\ RoomOf[BodySpawn] = Street
  /\ \A p \in Places : DoorAt[p] \in Courts \cup {None}
  /\ Lanterns \subseteq Booths /\ None \notin Gates \cup Booths \cup Chests
  /\ Spawn \notin Courts /\ Booths \cap Gates = {}
  /\ Keys \subseteq {"KeyW", "KeyS"} /\ OutboxSize \in Nat \ {0}
  /\ MaxUp \in Nat /\ MaxPays \in Nat

VARIABLES
  srv,      \* the session's Player record
  down,     \* the outbox and the wire behind it
  up,       \* client messages on their way
  page,     \* what main.ts, net.ts, booths.ts and hud.ts keep
  pay,      \* the payment under way: for what, how far, the prize in its answer
  pays,     \* the payments started
  lost      \* history: the gates whose entitlement frame never comes
vars == <<srv, down, up, page, pay, pays, lost>>

\* intentFromKeys, along one axis.
Intent(keys) == (IF "KeyW" \in keys THEN 1 ELSE 0) - (IF "KeyS" \in keys THEN 1 ELSE 0)

Idle == [for |-> None, phase |-> "idle", token |-> None]

Session == [live : BOOLEAN, body : BOOLEAN, at : Places, entitled : SUBSET Gates,
            intent : -1 .. 1]
PageState == [ws : {"connecting", "open", "closed"}, session : BOOLEAN,
              scene : {"none", "creating", "ready"}, body : BOOLEAN,
              entitled : SUBSET Gates, marked : SUBSET Courts, at : Places \cup {None},
              keys : SUBSET Keys, lastIntent : -1 .. 1,
              typing : {"nothing", "answer", "field"},
              riddle : BOOLEAN, prize : Booths \cup Chests \cup {None}]

TypeOK ==
  /\ srv \in Session
  /\ Len(down) <= OutboxSize + 1 /\ Len(up) <= MaxUp
  /\ page \in PageState
  /\ pay \in [for : Gates \cup Booths \cup {None}, phase : {"idle", "sent", "ok"},
              token : Booths \cup {None}]
  /\ pays \in 0 .. MaxPays
  /\ lost \subseteq Gates

Init ==
  /\ srv = [live |-> FALSE, body |-> FALSE, at |-> GhostSpawn, entitled |-> {}, intent |-> 0]
  /\ down = <<>> /\ up = <<>>
  /\ page = [ws |-> "connecting", session |-> FALSE, scene |-> "none", body |-> FALSE,
             entitled |-> {}, marked |-> {}, at |-> None, keys |-> {}, lastIntent |-> 0,
             typing |-> "nothing", riddle |-> FALSE, prize |-> None]
  /\ pay = Idle /\ pays = 0
  /\ lost = {}

------------------------------------------------------------------------------
(* Frames and messages (protocol.ts, ServerMsg and ClientMsg) and the        *)
(* outbox.  Those that only write a line of the HUD or sound a chime, and    *)
(* the jump, are left out.                                                   *)

Hello == [type |-> "hello"]
State == [type |-> "state", body |-> srv.body, at |-> srv.at]
Entitlement(g) == [type |-> "entitlement", gate |-> g]
Prize(k) == [type |-> "prize", from |-> k]
Riddle == [type |-> "riddle"]
Move(intent) == [type |-> "move", intent |-> intent]
Interact(k) == [type |-> "interact", target |-> k]
Answer(b) == [type |-> "answer", target |-> b]

\* Mutant: the outbox takes every frame.
PushUnbounded(m) == down' = Append(down, m) /\ lost' = lost

\* Player::push: a full outbox drops the frame.
Push(m) ==
  IF Len(down) < OutboxSize
  THEN down' = Append(down, m) /\ lost' = lost
  ELSE /\ down' = down
       /\ lost' = lost \cup (IF m.type = "entitlement" THEN {m.gate} ELSE {})

\* client_loop: the session is registered, hello goes out ahead of its outbox.
Connect ==
  /\ page.ws = "connecting" /\ ~srv.live
  /\ srv' = [srv EXCEPT !.live = TRUE]
  /\ page' = [page EXCEPT !.ws = "open"]
  /\ down' = <<Hello>>
  /\ UNCHANGED <<up, pay, pays, lost>>

\* tick: the snapshot; without room for it nothing changes.
Tick ==
  /\ srv.live /\ Len(down) < OutboxSize
  /\ Push(State)
  /\ UNCHANGED <<srv, up, page, pay, pays>>

\* A tick that moves the avatar.  step_legal: a court takes a body that paid.
Walk(p) ==
  /\ srv.live /\ srv.intent # 0 /\ p # srv.at
  /\ \/ RoomOf[p] \in {Street, RoomOf[srv.at]}
     \/ RoomOf[srv.at] = Street /\ srv.body /\ RoomOf[p] \in srv.entitled
  /\ srv' = [srv EXCEPT !.at = p]
  /\ UNCHANGED <<down, up, page, pay, pays, lost>>

------------------------------------------------------------------------------
(* Client messages at the server (handle_client_msg). *)

\* reach_check: a body that stands where the target is.
InReach(k) == srv.body /\ k \in {BoothAt[srv.at], ChestAt[srv.at]}

Receive ==
  /\ srv.live /\ up # <<>>
  /\ up' = Tail(up)
  /\ LET m == Head(up) IN
     \/ /\ m.type = "move"
        /\ srv' = [srv EXCEPT !.intent = m.intent]
        /\ UNCHANGED <<down, lost>>
     \/ /\ m.type = "interact" /\ InReach(m.target)
        /\ Push(IF m.target \in Lanterns THEN Riddle ELSE Prize(m.target))
        /\ UNCHANGED srv
     \/ /\ m.type = "answer" /\ InReach(m.target)
        /\ Push(Prize(m.target))
        /\ UNCHANGED srv
     \/ \* a refusal, a wrong answer, a chest that somebody looted
        /\ m.type # "move" /\ ~(InReach(m.target) /\ m.type = "interact" /\ m.target \in Lanterns)
        /\ UNCHANGED <<srv, down, lost>>
  /\ UNCHANGED <<page, pay, pays>>

------------------------------------------------------------------------------
(* Frames at the page (net.ts and its handlers in main.ts). *)

\* onHello; the scene begins to load.
OnHello(m) == page' = [page EXCEPT !.session = TRUE, !.scene = "creating"]

\* applySnapshot, upsert, and the frames after it: the avatar is drawn where the
\* snapshot has it, or, while it glides there, where it was until a later one.
\* selfPosition, which the keys act by, is where it is drawn.
ApplySnapshot(m) == {[page EXCEPT !.at = p] : p \in {m.at, page.at} \ {None}}

\* onState: nothing before the scene is there.
OnState(m) ==
  IF page.scene = "ready"
  THEN \E pg \in ApplySnapshot(m) : page' = [pg EXCEPT !.body = m.body]
  ELSE page' = page

\* Mutant: entitled to the gate, but not yet shown so.
OnEntitlementUnmarked(m) ==
  page' = [page EXCEPT !.entitled = @ \cup {m.gate}]

\* markCourtOpen: the scene draws the court of the gate as open.
MarkCourtOpen(g) == page.marked \cup ({g} \cap Courts)

\* onEntitlement: a court is marked if there is a scene to mark it in.
OnEntitlement(m) ==
  page' = [page EXCEPT !.entitled = @ \cup {m.gate},
             !.marked = IF page.scene = "ready" THEN MarkCourtOpen(m.gate) ELSE @]

\* showPrize: the panel shows this token in place of any other.
ShowPrize(k) == [page EXCEPT !.prize = k]

\* closeRiddle: the modal goes, and the focus with its field.
RiddleClosed(pg) ==
  [pg EXCEPT !.riddle = FALSE, !.typing = IF @ = "answer" THEN "nothing" ELSE @]

\* onPrize: the lantern's own prize closes its riddle.
OnPrize(m) ==
  page' = IF m.from \in Lanterns THEN RiddleClosed(ShowPrize(m.from)) ELSE ShowPrize(m.from)

\* showRiddle: the answer field takes the focus.
ShowRiddle == [page EXCEPT !.riddle = TRUE, !.typing = "answer"]

OnRiddle(m) == page' = ShowRiddle

Deliver ==
  /\ page.ws = "open" /\ down # <<>>
  /\ down' = Tail(down)
  /\ LET m == Head(down) IN
     CASE m.type = "hello" -> OnHello(m)
       [] m.type = "state" -> OnState(m)
       [] m.type = "entitlement" -> OnEntitlement(m)
       [] m.type = "prize" -> OnPrize(m)
       [] m.type = "riddle" -> OnRiddle(m)
  /\ UNCHANGED <<srv, up, pay, pays, lost>>

\* Scene3D.create resolves.
SceneReady ==
  /\ page.scene = "creating"
  /\ page' = [page EXCEPT !.scene = "ready"]
  /\ UNCHANGED <<srv, down, up, pay, pays, lost>>

\* onclose: the page hears no more, and keeps the session id it pays with.
SocketCloses ==
  /\ page.ws # "closed"
  /\ page' = [page EXCEPT !.ws = "closed"]
  /\ lost' = lost \cup {g \in Gates : \E i \in DOMAIN down : down[i] = Entitlement(g)}
  /\ down' = <<>>
  /\ UNCHANGED <<srv, up, pay, pays>>

\* disconnect: the server drops the session, at once or after a while.
Disconnect ==
  /\ srv.live /\ page.ws = "closed"
  /\ srv' = [srv EXCEPT !.live = FALSE]
  /\ up' = <<>>
  /\ UNCHANGED <<down, page, pay, pays, lost>>

------------------------------------------------------------------------------
(* Input (main.ts).  A key pressed in a field is for the field; a key that   *)
(* is let go is heard wherever in the page the focus is.                     *)

\* net.send: without an open socket the message is gone.
Send(m) ==
  IF page.ws = "open" THEN Len(up) < MaxUp /\ up' = Append(up, m) ELSE UNCHANGED up

\* Mutant: letting go of all keys is not sent.
PushIntentNoStop(keys) ==
  /\ page' = [page EXCEPT !.keys = keys, !.lastIntent = Intent(keys)]
  /\ IF Intent(keys) # page.lastIntent /\ Intent(keys) # 0
     THEN Send(Move(Intent(keys)))
     ELSE UNCHANGED up

\* pushIntent: an intent is sent when it changes.
PushIntent(keys) ==
  /\ page' = [page EXCEPT !.keys = keys, !.lastIntent = Intent(keys)]
  /\ IF Intent(keys) # page.lastIntent
     THEN Send(Move(Intent(keys)))
     ELSE UNCHANGED up

KeyDown(k) ==
  /\ page.typing = "nothing" /\ k \notin page.keys
  /\ PushIntent(page.keys \cup {k})
  /\ UNCHANGED <<srv, down, pay, pays, lost>>

KeyUp(k) ==
  /\ k \in page.keys
  /\ PushIntent(page.keys \ {k})
  /\ UNCHANGED <<srv, down, pay, pays, lost>>

\* The focus goes to a field: of the chat (focusChat, bodies only, or a click),
\* of the name or of the token to import; or, from elsewhere, to the open riddle
\* again (a click, or riddleWrong); Enter, Escape or a click gives it back.
Focus ==
  /\ \/ page.typing = "nothing" /\ page' = [page EXCEPT !.typing = "field"]
     \/ page.typing # "answer" /\ page.riddle /\ page' = [page EXCEPT !.typing = "answer"]
     \/ page.typing # "nothing" /\ page' = [page EXCEPT !.typing = "nothing"]
  /\ UNCHANGED <<srv, down, up, pay, pays, lost>>

\* The riddle's field: a guess is sent, or the modal is closed.
Guess(b) ==
  /\ page.riddle /\ page.typing = "answer" /\ b \in Lanterns
  /\ Send(Answer(b))
  /\ UNCHANGED <<srv, down, page, pay, pays, lost>>

CloseRiddle ==
  /\ page.riddle
  /\ page' = RiddleClosed(page)
  /\ UNCHANGED <<srv, down, up, pay, pays, lost>>

------------------------------------------------------------------------------
(* Actions (main.ts). *)

Paying == pay.phase # "idle"

\* payAndReport, payAndPlay: one payment at a time, for the session of hello.
Pay(what) ==
  /\ pays < MaxPays /\ ~Paying /\ page.session
  /\ pay' = [for |-> what, phase |-> "sent", token |-> None]
  /\ pays' = pays + 1
  /\ UNCHANGED <<srv, down, up, page, lost>>

\* actSpawn, [B]
ActSpawn == page.typing = "nothing" /\ ~page.body /\ Pay(Spawn)

\* Mutant: the door does not ask whether it is open.
DoorActsAlways == IF page.body THEN <<"pay", DoorAt[page.at]>> ELSE <<"needs a body">>
Door ==
  IF DoorAt[page.at] \in page.entitled THEN <<"open">>
  ELSE IF ~page.body THEN <<"needs a body">>
  ELSE <<"pay", DoorAt[page.at]>>

\* engageBooth: the lantern is asked, a paid booth is paid.
EngageBooth(b) == IF b \in Lanterns THEN <<"interact", b>> ELSE <<"pay", b>>

\* actInteract: what [E] does here: the booth first, then the chest, both for
\* bodies only, then the door.  A chest is asked whether or not a snapshot said
\* that it is looted; the HUD's line (updatePrompt) is not modelled.
Interactable ==
  IF page.body /\ BoothAt[page.at] # None THEN EngageBooth(BoothAt[page.at])
  ELSE IF page.body /\ ChestAt[page.at] # None THEN <<"interact", ChestAt[page.at]>>
  ELSE IF DoorAt[page.at] # None THEN Door
  ELSE <<"nothing">>

ActInteract ==
  /\ page.typing = "nothing" /\ ~Paying /\ page.scene = "ready" /\ page.at # None
  /\ \/ Interactable[1] = "pay" /\ Pay(Interactable[2])
     \/ /\ Interactable[1] = "interact"
        /\ Send(Interact(Interactable[2]))
        /\ UNCHANGED <<srv, down, page, pay, pays, lost>>

------------------------------------------------------------------------------
(* The request beside the socket. *)

\* grant: the entitlement, the body of the spawn gate, and the frame.
Grant(g) ==
  /\ srv' = IF g = Spawn /\ ~srv.body
            THEN [srv EXCEPT !.entitled = @ \cup {g}, !.body = TRUE, !.at = BodySpawn,
                             !.intent = 0]
            ELSE [srv EXCEPT !.entitled = @ \cup {g}]
  /\ Push(Entitlement(g))

\* The gate redeems the payment of a live session and opens.
GateAnswers ==
  /\ pay.phase = "sent" /\ pay.for \in Gates /\ srv.live
  /\ Grant(pay.for)
  /\ pay' = [pay EXCEPT !.phase = "ok"]
  /\ UNCHANGED <<up, page, pays>>

\* A shrine redeems the payment and pulls; a win's charm is in the answer.
PlayAnswers ==
  /\ pay.phase = "sent" /\ pay.for \in Booths /\ srv.live /\ InReach(pay.for)
  /\ \E token \in {None, pay.for} :
       pay' = [pay EXCEPT !.phase = "ok", !.token = token]
  /\ UNCHANGED <<srv, down, up, page, pays, lost>>

\* showGacha: a card of its own tells of a win; the prize panel stays as it was.
ShowGacha(win) == page

\* The end of payAndReport, payAndPlay and playGacha: on the answer, or when the
\* payment is refused, redeemed for nothing, or its answer is lost.
Answered ==
  /\ Paying
  /\ pay' = Idle
  /\ page' = IF pay.for \in Booths /\ pay.phase = "ok" THEN ShowGacha(pay.token) ELSE page
  /\ UNCHANGED <<srv, down, up, pays, lost>>

------------------------------------------------------------------------------

Server == Connect \/ Tick \/ Receive \/ Disconnect \/ \E p \in Places : Walk(p)
Page == Deliver \/ SceneReady \/ SocketCloses
Player == \/ \E k \in Keys : KeyDown(k) \/ KeyUp(k)
          \/ Focus \/ CloseRiddle \/ \E b \in Booths : Guess(b)
          \/ ActSpawn \/ ActInteract
Payment == GateAnswers \/ PlayAnswers \/ Answered
Next == Server \/ Page \/ Player \/ Payment

Spec == Init /\ [][Next]_vars

------------------------------------------------------------------------------
(* Properties *)

\* actInteract: a court the session already holds is paid again only while the
\* frame that says so is under way or lost, never once the page was told.
PaidAgainUntold ==
  \A g \in Courts : pays' # pays /\ pay'.for = g /\ g \in srv.entitled =>
    g \in lost \/ \E i \in DOMAIN down : down[i] = Entitlement(g)

\* Of every payment, as PaidAgainUntold says.
PaysAgainOnlyUntold == [][PaidAgainUntold]_vars

\* pushIntent and grant: with nothing under way, an avatar that the server
\* moves is moved by the keys that the page takes as held, whatever was typed,
\* dropped before the socket opened, or reset by a grant: a key let go in the
\* page stops it.  One let go where the page does not hear of it (main.ts has
\* no blur handler) stays in keys, and the avatar runs on with it.
NeverRunsOn ==
  page.ws = "open" /\ up = <<>> /\ srv.intent # 0 => srv.intent = Intent(page.keys)

\* A court whose door lets the player in without paying is drawn as open,
\* though its entitlement may come while the scene still loads; and it is open.
OpenIsDrawn ==
  /\ page.entitled \cap Courts \subseteq page.marked
  /\ page.entitled \subseteq srv.entitled

\* booths.ts:142 says of a win "a charm tumbles out — claim it from your
\* prize": the panel shows the charm that the answer brought.
CharmIsShown ==
  [][pay.token # None /\ pay'.phase = "idle" => page'.prize = pay.token]_vars
==============================================================================
