----------------------------- MODULE ClientProofs -----------------------------
(***************************************************************************)
(* Theorems about Client, for every map of places, booths, chests and      *)
(* doors, any size of the outbox and any number of messages and payments.  *)
(*                                                                         *)
(* What the page does rests on what is still on the wire: IInv says of     *)
(* every frame and every message under way what it will find when it       *)
(* arrives.                                                                *)
(***************************************************************************)
EXTENDS Client, TLAPS

Frames == {Hello, Riddle}
            \cup [type : {"state"}, body : BOOLEAN, at : Places]
            \cup [type : {"entitlement"}, gate : Gates]
            \cup [type : {"prize"}, from : Booths \cup Chests]
Messages == [type : {"move"}, intent : -1 .. 1]
              \cup [type : {"interact", "answer"}, target : Booths \cup Chests]

\* What goes over the wire is of the protocol.
WireOK == down \in Seq(Frames) /\ up \in Seq(Messages)

\* Before the socket opens nothing happened.
Fresh == page.ws = "connecting" =>
  /\ ~srv.live /\ srv.intent = 0 /\ page.scene = "none"
  /\ down = <<>> /\ up = <<>>

\* The server will come to hear of the intent the page sent last; the avatar
\* keeps to it, or was stopped by a grant.
LastMove(i) == up[i].type = "move" /\ \A j \in DOMAIN up : j > i => up[j].type # "move"
IntentIsHeard ==
  /\ page.lastIntent = Intent(page.keys)
  /\ page.ws = "open" =>
       /\ \A i \in DOMAIN up : LastMove(i) => up[i].intent = page.lastIntent
       /\ (\A i \in DOMAIN up : up[i].type # "move") => srv.intent \in {0, page.lastIntent}

\* The hello is the first frame of all, and there is no session before it.
HelloFirst ==
  /\ \A i \in DOMAIN down : down[i].type = "hello" => i = 1 /\ page.scene = "none"
  /\ page.session => page.scene # "none"

\* A court is paid for at its door, which takes a scene to stand in.
SceneForCourts ==
  /\ Paying /\ pay.for \in Courts => page.scene = "ready"
  /\ \A i \in DOMAIN down :
       down[i].type = "entitlement" /\ down[i].gate \in Courts => page.scene = "ready"

\* An entitlement is known to the page, on its way to it, or lost; and only
\* what the session holds is told.
Told ==
  /\ \A g \in srv.entitled :
       g \in page.entitled \cup lost \/ \E i \in DOMAIN down : down[i] = Entitlement(g)
  /\ \A i \in DOMAIN down : down[i].type = "entitlement" => down[i].gate \in srv.entitled

IInv ==
  /\ TypeOK
  /\ WireOK
  /\ Fresh
  /\ IntentIsHeard
  /\ HelloFirst
  /\ SceneForCourts
  /\ Told
  /\ OpenIsDrawn

------------------------------------------------------------------------------
(* Sequences and records. *)

\* What stays and what is new when an element is appended.
LEMMA Appended ==
  ASSUME NEW S, NEW s \in Seq(S), NEW e \in S
  PROVE  /\ Append(s, e) \in Seq(S) /\ Len(Append(s, e)) = Len(s) + 1
         /\ DOMAIN s = 1 .. Len(s) /\ DOMAIN Append(s, e) = 1 .. Len(s) + 1
         /\ \A i \in DOMAIN s : Append(s, e)[i] = s[i]
         /\ Append(s, e)[Len(s) + 1] = e /\ Len(s) \in Nat
  OBVIOUS

\* What is left of a sequence, and where, when its head is taken.
LEMMA Tailed ==
  ASSUME NEW S, NEW s \in Seq(S), s # <<>>
  PROVE  /\ Tail(s) \in Seq(S) /\ Len(Tail(s)) = Len(s) - 1
         /\ DOMAIN s = 1 .. Len(s) /\ DOMAIN Tail(s) = 1 .. Len(s) - 1
         /\ \A i \in DOMAIN Tail(s) : i + 1 \in DOMAIN s /\ Tail(s)[i] = s[i + 1]
         /\ Head(s) = s[1] /\ s[1] \in S /\ 1 \in DOMAIN s /\ Len(s) \in Nat
  OBVIOUS

\* The keys that are held make one of three intents.
LEMMA IntentType == ASSUME NEW keys PROVE Intent(keys) \in -1 .. 1
  BY DEF Intent

\* Every gate, booth and chest has a name, and the messages have their types.
LEMMA FrameTypes ==
  /\ \A m \in Frames : m.type \in {"hello", "riddle", "state", "entitlement", "prize"}
  /\ \A m \in Frames : m.type = "entitlement" => m.gate \in Gates /\ m = Entitlement(m.gate)
  /\ \A m \in Frames : m.type = "state" => m.body \in BOOLEAN /\ m.at \in Places
  /\ \A m \in Frames : m.type = "prize" => m.from \in Booths \cup Chests
  /\ Hello \in Frames /\ Riddle \in Frames
  /\ \A g \in Gates : Entitlement(g) \in Frames
  /\ \A k \in Booths \cup Chests : Prize(k) \in Frames
  /\ srv \in Session => State \in Frames
  BY DEF Frames, Hello, Riddle, State, Entitlement, Prize, Session

\* The page's messages have the types of the protocol.
LEMMA MessageTypes ==
  /\ \A m \in Messages : m.type \in {"move", "interact", "answer"}
  /\ \A m \in Messages : m.type = "move" => m.intent \in -1 .. 1
  /\ \A m \in Messages : m.type # "move" => m.target \in Booths \cup Chests
  /\ \A i \in -1 .. 1 : Move(i) \in Messages
  /\ \A k \in Booths \cup Chests : Interact(k) \in Messages /\ Answer(k) \in Messages
  BY DEF Messages, Move, Interact, Answer

\* Gates, booths and chests have names apart from one another and from None.
LEMMA Names ==
  /\ Lanterns \subseteq Booths /\ None \notin Gates \cup Booths \cup Chests
  /\ Courts \subseteq Gates /\ Spawn \in Gates /\ Spawn \notin Courts
  /\ Booths \cap Gates = {}
  /\ \A p \in Places : /\ BoothAt[p] \in Booths \cup {None}
                       /\ ChestAt[p] \in Chests \cup {None}
                       /\ DoorAt[p] \in Courts \cup {None}
  BY ClientAssumption DEF Gates, Booths, Chests

\* A frame that is pushed goes last or is dropped; the others stay.
LEMMA Pushed ==
  ASSUME TypeOK, WireOK, NEW m \in Frames, Push(m)
  PROVE  /\ down' \in Seq(Frames) /\ Len(down') <= OutboxSize + 1
         /\ \A i \in DOMAIN down' : (i \in DOMAIN down /\ down'[i] = down[i]) \/ down'[i] = m
         /\ \A i \in DOMAIN down : i \in DOMAIN down' /\ down'[i] = down[i]
         /\ lost \subseteq lost' /\ lost' \subseteq Gates
         /\ m.type # "entitlement" => lost' = lost
         /\ m.type = "entitlement" =>
              m.gate \in lost' \/ \E i \in DOMAIN down' : down'[i] = m
<1> USE ClientAssumption DEF TypeOK, WireOK, Push
<1>1. CASE Len(down) < OutboxSize
  <2>1. down' = Append(down, m) /\ lost' = lost
    BY <1>1
  <2>2. Len(down) + 1 \in DOMAIN down'
    BY <2>1, Appended
  <2> QED BY <1>1, <2>1, <2>2, Appended
<1>2. CASE ~(Len(down) < OutboxSize)
  <2>1. down' = down /\ lost' = lost \cup (IF m.type = "entitlement" THEN {m.gate} ELSE {})
    BY <1>2
  <2> QED BY <2>1, FrameTypes
<1> QED BY <1>1, <1>2

\* A message goes last, if the socket is open.
LEMMA Sent ==
  ASSUME TypeOK, WireOK, NEW m \in Messages, Send(m)
  PROVE  /\ up' \in Seq(Messages) /\ Len(up') <= MaxUp
         /\ page.ws = "open" => up' = Append(up, m)
         /\ page.ws # "open" => up' = up
<1> USE ClientAssumption DEF Send, TypeOK, WireOK
<1>1. CASE page.ws = "open"
  <2>1. Len(up) < MaxUp /\ up' = Append(up, m)
    BY <1>1
  <2>2. Append(up, m) \in Seq(Messages) /\ Len(Append(up, m)) = Len(up) + 1 /\ Len(up) \in Nat
    BY Appended
  <2>3. up' \in Seq(Messages) /\ Len(up') <= MaxUp
    BY <2>1, <2>2
  <2> QED BY <1>1, <2>1, <2>3
<1>2. CASE page.ws # "open"
  BY <1>2
<1> QED BY <1>1, <1>2

\* The two lemmas that follow are for steps that leave the keys alone, and for
\* steps that push no entitlement and tell none to the page.
LEMMA IntentKept ==
  ASSUME TypeOK, WireOK, IntentIsHeard,
         page'.ws = page.ws, page'.keys = page.keys, page'.lastIntent = page.lastIntent,
         srv'.intent \in {srv.intent, 0},
         \/ up' = up
         \/ \E m \in Messages : m.type # "move" /\ up' = Append(up, m)
  PROVE  IntentIsHeard'
<1> USE DEF IntentIsHeard, WireOK
<1>1. CASE up' = up
  BY <1>1 DEF LastMove
<1>2. ASSUME NEW m \in Messages, m.type # "move", up' = Append(up, m)
      PROVE  IntentIsHeard'
  <2>1. \A i \in DOMAIN up : i \in DOMAIN up' /\ up'[i] = up[i]
    BY <1>2, Appended
  <2>2. \A i \in DOMAIN up' : i \in DOMAIN up \/ up'[i].type # "move"
    BY <1>2, Appended
  <2>3. \A i \in DOMAIN up' : LastMove(i)' => i \in DOMAIN up /\ LastMove(i)
    BY <2>1, <2>2 DEF LastMove
  <2> QED BY <2>1, <2>2, <2>3
<1> QED BY <1>1, <1>2

\* What the page knows of the session stays true when only its other fields
\* change.
LEMMA PageKept ==
  ASSUME TypeOK, HelloFirst, SceneForCourts, Told, OpenIsDrawn, Fresh,
         page' \in PageState,
         page'.ws = page.ws, page'.session = page.session, page'.scene = page.scene,
         page'.entitled = page.entitled, page'.marked = page.marked,
         srv'.entitled = srv.entitled, UNCHANGED <<down, lost>>,
         Paying' /\ pay'.for \in Courts => page.scene = "ready"
  PROVE  HelloFirst' /\ SceneForCourts' /\ Told' /\ OpenIsDrawn'
<1>1. HelloFirst' /\ SceneForCourts'
  BY DEF HelloFirst, SceneForCourts
<1>2. Told' /\ OpenIsDrawn'
  BY DEF Told, OpenIsDrawn, Gates, Courts
<1> QED BY <1>1, <1>2

\* What a pushed frame does to what is under way.
LEMMA FramesKept ==
  ASSUME IInv, NEW m \in Frames, Push(m), m.type # "hello",
         page' = page, pay'.for = pay.for, Paying' => Paying,
         srv'.entitled = srv.entitled \cup (IF m.type = "entitlement" THEN {m.gate} ELSE {}),
         m.type = "entitlement" /\ m.gate \in Courts => page.scene = "ready"
  PROVE  HelloFirst' /\ SceneForCourts' /\ Told' /\ OpenIsDrawn'
<1> USE DEF IInv
<1>1. /\ \A i \in DOMAIN down' : (i \in DOMAIN down /\ down'[i] = down[i]) \/ down'[i] = m
      /\ \A i \in DOMAIN down : i \in DOMAIN down' /\ down'[i] = down[i]
      /\ lost \subseteq lost'
      /\ m.type = "entitlement" => m.gate \in lost' \/ \E i \in DOMAIN down' : down'[i] = m
  BY Pushed
<1>2. HelloFirst'
  BY <1>1 DEF HelloFirst
<1>3. SceneForCourts'
  <2>1. Paying' /\ pay'.for \in Courts => page'.scene = "ready"
    BY DEF SceneForCourts
  <2>2. ASSUME NEW i \in DOMAIN down', down'[i].type = "entitlement", down'[i].gate \in Courts
        PROVE  page'.scene = "ready"
    BY <1>1, <2>2 DEF SceneForCourts
  <2> QED BY <2>1, <2>2 DEF SceneForCourts
<1>4. Told'
  <2>1. ASSUME NEW g \in srv'.entitled
        PROVE  g \in page'.entitled \cup lost' \/ \E i \in DOMAIN down' : down'[i] = Entitlement(g)
    <3>1. CASE g \in srv.entitled
      <4>1. g \in page.entitled \cup lost \/ \E i \in DOMAIN down : down[i] = Entitlement(g)
        BY <3>1 DEF Told
      <4> QED BY <1>1, <4>1
    <3>2. CASE g \notin srv.entitled
      <4>1. m.type = "entitlement" /\ m.gate = g /\ m = Entitlement(g)
        BY <3>2, FrameTypes
      <4> QED BY <1>1, <4>1
    <3> QED BY <3>1, <3>2
  <2>2. \A i \in DOMAIN down' : down'[i].type = "entitlement" => down'[i].gate \in srv'.entitled
    BY <1>1 DEF Told
  <2> QED BY <2>1, <2>2 DEF Told
<1>5. OpenIsDrawn'
  BY DEF OpenIsDrawn
<1> QED BY <1>2, <1>3, <1>4, <1>5

------------------------------------------------------------------------------
(* The steps. *)

\* Nothing is under way in the initial states.
LEMMA InitIInv == Init => IInv
<1> SUFFICES ASSUME Init PROVE IInv
  OBVIOUS
<1> USE ClientAssumption DEF Init, Idle
<1>1. srv \in Session /\ page \in PageState
  BY DEF Session, PageState
<1>2. TypeOK
  <2>1. Len(down) = 0 /\ Len(up) = 0
    OBVIOUS
  <2> QED BY <1>1, <2>1 DEF TypeOK
<1>3. WireOK /\ Fresh
  BY DEF WireOK, Fresh
<1>4. IntentIsHeard
  BY DEF IntentIsHeard, Intent
<1>5. HelloFirst /\ SceneForCourts /\ Told /\ OpenIsDrawn
  BY DEF HelloFirst, SceneForCourts, Told, OpenIsDrawn, Paying
<1> QED BY <1>2, <1>3, <1>4, <1>5 DEF IInv

\* The server's steps, among them every frame it pushes.
LEMMA ServerIInv == IInv /\ Server => IInv'
<1> USE ClientAssumption
<1>1. ASSUME IInv, Connect PROVE IInv'
  <2> USE <1>1 DEF IInv, Connect
  <2>1. srv' \in Session /\ srv'.intent = 0 /\ srv'.entitled = srv.entitled
        /\ page' \in PageState /\ page'.ws = "open" /\ page'.session = page.session
        /\ page'.scene = "none" /\ page'.entitled = page.entitled /\ page'.marked = page.marked
        /\ page'.keys = page.keys /\ page'.lastIntent = page.lastIntent
        /\ down = <<>> /\ up = <<>>
    BY DEF TypeOK, Session, PageState, Fresh
  <2>2. Len(down') = 1 /\ DOMAIN down' = {1} /\ down'[1] = Hello /\ down' \in Seq(Frames)
    BY FrameTypes
  <2>3. TypeOK' /\ WireOK'
    BY <2>1, <2>2 DEF TypeOK, WireOK
  <2>4. Fresh' /\ IntentIsHeard'
    BY <2>1 DEF Fresh, IntentIsHeard
  <2>5. HelloFirst' /\ SceneForCourts'
    BY <2>1, <2>2 DEF HelloFirst, SceneForCourts, Hello, Paying
  <2>6. Told' /\ OpenIsDrawn'
    BY <2>1, <2>2 DEF Told, OpenIsDrawn, Hello
  <2> QED BY <2>3, <2>4, <2>5, <2>6
<1>2. ASSUME IInv, Tick PROVE IInv'
  <2> USE <1>2 DEF IInv, Tick
  <2>1. State \in Frames /\ State.type = "state"
    BY FrameTypes DEF State, TypeOK
  <2>2. TypeOK' /\ WireOK'
    BY <2>1, Pushed DEF TypeOK, WireOK
  <2>3. HelloFirst' /\ SceneForCourts' /\ Told' /\ OpenIsDrawn'
    <3>1. srv'.entitled = srv.entitled \cup (IF State.type = "entitlement" THEN {State.gate} ELSE {})
      BY <2>1
    <3> QED BY <2>1, <3>1, FramesKept DEF Paying
  <2>4. Fresh' /\ IntentIsHeard'
    BY IntentKept DEF Fresh
  <2> QED BY <2>2, <2>3, <2>4
<1>3. ASSUME IInv, NEW p \in Places, Walk(p) PROVE IInv'
  <2> USE <1>3 DEF IInv, Walk
  <2>1. srv' \in Session /\ srv'.intent = srv.intent /\ srv'.entitled = srv.entitled
    BY DEF TypeOK, Session
  <2>2. TypeOK' /\ WireOK'
    BY <2>1 DEF TypeOK, WireOK
  <2>3. HelloFirst' /\ SceneForCourts' /\ Told' /\ OpenIsDrawn'
    BY <2>1, PageKept DEF SceneForCourts, Paying, TypeOK
  <2>4. Fresh' /\ IntentIsHeard'
    BY <2>1, IntentKept DEF Fresh
  <2> QED BY <2>2, <2>3, <2>4
<1>4. ASSUME IInv, Disconnect PROVE IInv'
  <2> USE <1>4 DEF IInv, Disconnect
  <2>1. srv' \in Session /\ srv'.intent = srv.intent /\ srv'.entitled = srv.entitled
    BY DEF TypeOK, Session
  <2>2. TypeOK' /\ WireOK'
    BY <2>1 DEF TypeOK, WireOK
  <2>3. HelloFirst' /\ SceneForCourts' /\ Told' /\ OpenIsDrawn'
    BY <2>1, PageKept DEF SceneForCourts, Paying, TypeOK
  <2>4. Fresh' /\ IntentIsHeard'
    BY DEF Fresh, IntentIsHeard
  <2> QED BY <2>2, <2>3, <2>4
<1>5. ASSUME IInv, Receive PROVE IInv'
  <2> USE <1>5 DEF IInv, Receive
  <2> DEFINE m == Head(up)
  <2>1. /\ m \in Messages /\ up' \in Seq(Messages) /\ Len(up') <= MaxUp
        /\ Len(up') = Len(up) - 1 /\ m = up[1]
        /\ DOMAIN up = 1 .. Len(up) /\ DOMAIN up' = 1 .. Len(up) - 1 /\ Len(up) \in Nat \ {0}
        /\ \A i \in DOMAIN up' : i + 1 \in DOMAIN up /\ up'[i] = up[i + 1]
    BY Tailed DEF TypeOK, WireOK
  <2>2. \A i \in DOMAIN up' : LastMove(i)' => LastMove(i + 1)
    <3> SUFFICES ASSUME NEW i \in DOMAIN up', LastMove(i)',
                        NEW j \in DOMAIN up, j > i + 1
                 PROVE  up[i + 1].type = "move" /\ up[j].type # "move"
      BY <2>1 DEF LastMove
    <3>1. j - 1 \in DOMAIN up' /\ j - 1 > i /\ up'[j - 1] = up[j]
      BY <2>1
    <3> QED BY <2>1, <3>1 DEF LastMove
  <2>3. Fresh'
    BY DEF Fresh
  <2>4. CASE m.type = "move" /\ srv' = [srv EXCEPT !.intent = m.intent] /\ UNCHANGED <<down, lost>>
    <3>1. srv' \in Session /\ srv'.intent = m.intent /\ srv'.entitled = srv.entitled
      BY <2>1, <2>4, MessageTypes DEF TypeOK, Session
    <3>2. TypeOK' /\ WireOK'
      BY <2>1, <2>4, <3>1 DEF TypeOK, WireOK
    <3>3. HelloFirst' /\ SceneForCourts' /\ Told' /\ OpenIsDrawn'
      BY <2>4, <3>1, PageKept DEF SceneForCourts, Paying, TypeOK
    <3>4. IntentIsHeard'
      <4>1. page.ws = "open" /\ (\A i \in DOMAIN up' : up'[i].type # "move") => m.intent = page.lastIntent
        <5> SUFFICES ASSUME page.ws = "open", \A i \in DOMAIN up' : up'[i].type # "move"
                     PROVE  m.intent = page.lastIntent
          OBVIOUS
        <5>1. \A j \in DOMAIN up : j > 1 => j - 1 \in DOMAIN up' /\ up'[j - 1] = up[j]
          BY <2>1
        <5>2. 1 \in DOMAIN up /\ LastMove(1)
          BY <2>1, <2>4, <5>1 DEF LastMove
        <5> QED BY <2>1, <5>2 DEF IntentIsHeard
      <4> QED BY <2>1, <2>2, <3>1, <4>1 DEF IntentIsHeard
    <3> QED BY <2>3, <3>2, <3>3, <3>4
  <2>5. ASSUME UNCHANGED srv, \/ UNCHANGED <<down, lost>>
                              \/ \E f \in Frames : f.type \in {"riddle", "prize"} /\ Push(f),
               m.type # "move"
        PROVE  IInv'
    <3>1. IntentIsHeard'
      <4>1. \A j \in DOMAIN up :
              up[j].type # "move" \/ (j - 1 \in DOMAIN up' /\ up'[j - 1] = up[j])
        BY <2>1, <2>5
      <4>2. (\A i \in DOMAIN up' : up'[i].type # "move") => \A j \in DOMAIN up : up[j].type # "move"
        BY <4>1
      <4> QED BY <2>1, <2>2, <2>5, <4>2 DEF IntentIsHeard
    <3>2. CASE UNCHANGED <<down, lost>>
      <4>1. TypeOK' /\ WireOK'
        BY <2>1, <2>5, <3>2 DEF TypeOK, WireOK
      <4>2. HelloFirst' /\ SceneForCourts' /\ Told' /\ OpenIsDrawn'
        BY <2>5, <3>2, PageKept DEF SceneForCourts, Paying, TypeOK
      <4> QED BY <2>3, <3>1, <4>1, <4>2
    <3>3. ASSUME NEW f \in Frames, f.type \in {"riddle", "prize"}, Push(f)
          PROVE  IInv'
      <4>1. TypeOK' /\ WireOK'
        BY <2>1, <2>5, <3>3, Pushed DEF TypeOK, WireOK
      <4>2. HelloFirst' /\ SceneForCourts' /\ Told' /\ OpenIsDrawn'
        <5>1. srv'.entitled = srv.entitled \cup (IF f.type = "entitlement" THEN {f.gate} ELSE {})
          BY <2>5, <3>3
        <5> QED BY <3>3, <5>1, FramesKept DEF Paying
      <4> QED BY <2>3, <3>1, <4>1, <4>2
    <3> QED BY <2>5, <3>2, <3>3
  <2>6. m.type # "move" => m.target \in Booths \cup Chests
    BY <2>1, MessageTypes
  <2>7. \A k \in Booths \cup Chests : Prize(k) \in Frames /\ Prize(k).type = "prize"
    BY FrameTypes DEF Prize
  <2>8. Riddle \in Frames /\ Riddle.type = "riddle"
    BY FrameTypes DEF Riddle
  <2> QED
    <3>1. CASE m.type = "interact" /\ Push(IF m.target \in Lanterns THEN Riddle ELSE Prize(m.target))
               /\ UNCHANGED srv
      BY <2>5, <2>6, <2>7, <2>8, <3>1
    <3>2. CASE m.type = "answer" /\ Push(Prize(m.target)) /\ UNCHANGED srv
      BY <2>5, <2>6, <2>7, <3>2
    <3>3. CASE m.type # "move" /\ UNCHANGED <<srv, down, lost>>
      BY <2>5, <3>3
    <3> QED BY <2>4, <3>1, <3>2, <3>3
<1> QED BY <1>1, <1>2, <1>3, <1>4, <1>5 DEF Server

\* The page keeps its type when one of its fields takes another value.
LEMMA PageUpdates ==
  ASSUME NEW pg \in PageState
  PROVE  /\ \A x \in {"connecting", "open", "closed"} : [pg EXCEPT !.ws = x] \in PageState
         /\ \A x \in {"none", "creating", "ready"} : [pg EXCEPT !.scene = x] \in PageState
         /\ \A x \in BOOLEAN : /\ [pg EXCEPT !.session = x] \in PageState
                               /\ [pg EXCEPT !.body = x] \in PageState
                               /\ [pg EXCEPT !.riddle = x] \in PageState
         /\ \A x \in SUBSET Gates : [pg EXCEPT !.entitled = x] \in PageState
         /\ \A x \in SUBSET Courts : [pg EXCEPT !.marked = x] \in PageState
         /\ \A x \in Places \cup {None} : [pg EXCEPT !.at = x] \in PageState
         /\ \A x \in SUBSET Keys : [pg EXCEPT !.keys = x] \in PageState
         /\ \A x \in -1 .. 1 : [pg EXCEPT !.lastIntent = x] \in PageState
         /\ \A x \in {"nothing", "answer", "field"} : [pg EXCEPT !.typing = x] \in PageState
         /\ \A x \in Booths \cup Chests : [pg EXCEPT !.prize = x] \in PageState
<1>1. /\ \A x \in {"connecting", "open", "closed"} : [pg EXCEPT !.ws = x] \in PageState
      /\ \A x \in {"none", "creating", "ready"} : [pg EXCEPT !.scene = x] \in PageState
  BY DEF PageState
<1>2. \A x \in BOOLEAN : [pg EXCEPT !.session = x] \in PageState
  BY DEF PageState
<1>3. \A x \in BOOLEAN : [pg EXCEPT !.body = x] \in PageState
  BY DEF PageState
<1>4. \A x \in BOOLEAN : [pg EXCEPT !.riddle = x] \in PageState
  BY DEF PageState
<1>5. \A x \in SUBSET Gates : [pg EXCEPT !.entitled = x] \in PageState
  BY DEF PageState
<1>6. \A x \in SUBSET Courts : [pg EXCEPT !.marked = x] \in PageState
  BY DEF PageState
<1>7. \A x \in Places \cup {None} : [pg EXCEPT !.at = x] \in PageState
  BY DEF PageState
<1>8. \A x \in SUBSET Keys : [pg EXCEPT !.keys = x] \in PageState
  BY DEF PageState
<1>9. \A x \in -1 .. 1 : [pg EXCEPT !.lastIntent = x] \in PageState
  BY DEF PageState
<1>10. \A x \in {"nothing", "answer", "field"} : [pg EXCEPT !.typing = x] \in PageState
  BY DEF PageState
<1>11. \A x \in Booths \cup Chests : [pg EXCEPT !.prize = x] \in PageState
  BY DEF PageState
<1> QED BY <1>1, <1>2, <1>3, <1>4, <1>5, <1>6, <1>7, <1>8, <1>9, <1>10, <1>11

\* What the invariant says of the page is not about its panels and its focus.
Sides(pg) == <<pg.ws, pg.session, pg.scene, pg.entitled, pg.marked, pg.keys, pg.lastIntent>>

\* The page takes in a frame.
LEMMA Delivered ==
  ASSUME IInv, page.ws = "open", down # <<>>, down' = Tail(down),
         UNCHANGED <<srv, up, pay, pays, lost>>,
         page' \in PageState,
         page'.ws = page.ws, page'.keys = page.keys, page'.lastIntent = page.lastIntent,
         IF Head(down).type = "hello"
           THEN page'.session /\ page'.scene = "creating"
           ELSE page'.session = page.session /\ page'.scene = page.scene,
         page'.entitled = page.entitled \cup
           (IF Head(down).type = "entitlement" THEN {Head(down).gate} ELSE {}),
         page'.entitled \cap Courts \subseteq page'.marked
  PROVE  IInv'
<1> USE DEF IInv
<1> DEFINE m == Head(down)
<1>1. /\ m \in Frames /\ down' \in Seq(Frames) /\ Len(down') = Len(down) - 1 /\ m = down[1]
      /\ DOMAIN down = 1 .. Len(down) /\ DOMAIN down' = 1 .. Len(down) - 1
      /\ Len(down) \in Nat /\ 1 \in DOMAIN down
      /\ \A i \in DOMAIN down' : i + 1 \in DOMAIN down /\ down'[i] = down[i + 1]
  BY Tailed DEF WireOK
<1>2. \A i \in DOMAIN down : i = 1 \/ (i - 1 \in DOMAIN down' /\ down'[i - 1] = down[i])
  BY <1>1
<1>3. m.type = "hello" => page.scene = "none"
  BY <1>1 DEF HelloFirst
<1>4. TypeOK' /\ WireOK'
  BY <1>1, ClientAssumption DEF TypeOK, WireOK
<1>5. Fresh' /\ IntentIsHeard'
  BY IntentKept DEF Fresh, TypeOK
<1>6. HelloFirst'
  <2>1. \A i \in DOMAIN down' : down'[i].type # "hello"
    BY <1>1 DEF HelloFirst
  <2> QED BY <2>1 DEF HelloFirst
<1>7. SceneForCourts'
  <2>1. page.scene = "ready" => page'.scene = "ready"
    BY <1>3
  <2> QED BY <1>1, <2>1 DEF SceneForCourts, Paying
<1>8. Told'
  <2>1. ASSUME NEW g \in srv'.entitled
        PROVE  g \in page'.entitled \cup lost' \/ \E i \in DOMAIN down' : down'[i] = Entitlement(g)
    <3>1. CASE g \in page.entitled \cup lost
      BY <3>1
    <3>2. ASSUME NEW i \in DOMAIN down, down[i] = Entitlement(g)
          PROVE  g \in page'.entitled \/ \E j \in DOMAIN down' : down'[j] = Entitlement(g)
      <4>1. CASE i = 1
        BY <1>1, <3>2, <4>1 DEF Entitlement
      <4>2. CASE i # 1
        BY <1>2, <3>2, <4>2
      <4> QED BY <4>1, <4>2
    <3> QED BY <3>1, <3>2 DEF Told
  <2>2. \A i \in DOMAIN down' : down'[i].type = "entitlement" => down'[i].gate \in srv'.entitled
    BY <1>1 DEF Told
  <2> QED BY <2>1, <2>2 DEF Told
<1>9. OpenIsDrawn'
  <2>1. m.type = "entitlement" => m.gate \in srv.entitled
    BY <1>1 DEF Told
  <2> QED BY <2>1 DEF OpenIsDrawn
<1> QED BY <1>4, <1>5, <1>6, <1>7, <1>8, <1>9

\* A step of the page that only touches its panels and its focus.
LEMMA PanelsIInv ==
  ASSUME IInv, page' \in PageState, Sides(page') = Sides(page), UNCHANGED <<srv, down, lost>>,
         UNCHANGED <<up, pay, pays>>
  PROVE  IInv'
<1> USE DEF IInv, Sides
<1>1. TypeOK' /\ WireOK'
  BY DEF TypeOK, WireOK
<1>2. Fresh' /\ IntentIsHeard'
  BY IntentKept DEF Fresh
<1>3. HelloFirst' /\ SceneForCourts' /\ Told' /\ OpenIsDrawn'
  BY PageKept DEF SceneForCourts, Paying
<1> QED BY <1>1, <1>2, <1>3

\* Closing the riddle changes neither the scene nor what the page knows.
LEMMA RiddleClosedKeeps ==
  ASSUME NEW pg \in PageState
  PROVE  RiddleClosed(pg) \in PageState /\ Sides(RiddleClosed(pg)) = Sides(pg)
<1>1. RiddleClosed(pg) = [[pg EXCEPT !.riddle = FALSE] EXCEPT
                            !.typing = IF pg.typing = "answer" THEN "nothing" ELSE pg.typing]
  BY DEF RiddleClosed, PageState
<1>2. pg.typing \in {"nothing", "answer", "field"}
  BY DEF PageState
<1>3. RiddleClosed(pg) \in PageState
  <2> DEFINE focus == IF pg.typing = "answer" THEN "nothing" ELSE pg.typing
  <2>1. [pg EXCEPT !.riddle = FALSE] \in PageState
    BY PageUpdates
  <2>2. focus \in {"nothing", "answer", "field"}
    BY <1>2
  <2>3. RiddleClosed(pg) = [[pg EXCEPT !.riddle = FALSE] EXCEPT !.typing = focus]
    BY <1>1
  <2> HIDE DEF focus
  <2>4. \A x \in {"nothing", "answer", "field"} :
          [[pg EXCEPT !.riddle = FALSE] EXCEPT !.typing = x] \in PageState
    BY <2>1, PageUpdates
  <2>5. [[pg EXCEPT !.riddle = FALSE] EXCEPT !.typing = focus] \in PageState
    BY <2>2, <2>4
  <2> QED BY <2>3, <2>5
<1>4. Sides(RiddleClosed(pg)) = Sides(pg)
  BY DEF RiddleClosed, Sides, PageState
<1> QED BY <1>3, <1>4

\* What arrives, and what the page does with it.
LEMMA PageIInv == IInv /\ Page => IInv'
<1> USE ClientAssumption
<1>1. ASSUME IInv, Deliver PROVE IInv'
  <2> DEFINE m == Head(down)
  <2> USE <1>1 DEF IInv, Deliver
  <2>1. m \in Frames /\ page \in PageState
    BY Tailed DEF WireOK, TypeOK
  <2>2. page.entitled \cap Courts \subseteq page.marked
    BY DEF OpenIsDrawn
  <2>3. CASE m.type = "hello"
    <3>1. page' = [page EXCEPT !.session = TRUE, !.scene = "creating"]
      BY <2>3 DEF OnHello
    <3>2. page' \in PageState
      <4>1. [page EXCEPT !.session = TRUE] \in PageState
        BY <2>1, PageUpdates
      <4>2. page' = [[page EXCEPT !.session = TRUE] EXCEPT !.scene = "creating"]
        BY <2>1, <3>1 DEF PageState
      <4> QED BY <4>1, <4>2, PageUpdates
    <3>3. /\ page'.ws = page.ws /\ page'.keys = page.keys /\ page'.lastIntent = page.lastIntent
          /\ page'.session /\ page'.scene = "creating"
          /\ page'.entitled = page.entitled /\ page'.marked = page.marked
      BY <2>1, <3>1 DEF PageState
    <3> QED BY <2>2, <2>3, <3>2, <3>3, Delivered
  <2>4. ASSUME page' \in PageState, Sides(page') = Sides(page),
               m.type # "hello", m.type # "entitlement"
        PROVE  IInv'
    BY <2>2, <2>4, Delivered DEF Sides
  <2>5. CASE m.type = "state"
    <3>1. OnState(m) /\ m.body \in BOOLEAN /\ m.at \in Places
      BY <2>1, <2>5, FrameTypes
    <3>2. PICK p \in {m.at, page.at} :
            page' = [[page EXCEPT !.at = p] EXCEPT !.body = m.body] \/ page' = page
      BY <3>1 DEF OnState, ApplySnapshot
    <3>3. page' \in PageState
      <4>1. p \in Places \cup {None}
        BY <2>1, <3>1 DEF PageState
      <4>2. [page EXCEPT !.at = p] \in PageState
        BY <2>1, <4>1, PageUpdates
      <4>3. [[page EXCEPT !.at = p] EXCEPT !.body = m.body] \in PageState
        BY <3>1, <4>2, PageUpdates
      <4> QED BY <2>1, <3>2, <4>3
    <3>4. Sides(page') = Sides(page)
      <4>1. Sides([[page EXCEPT !.at = p] EXCEPT !.body = m.body]) = Sides(page)
        BY <2>1 DEF Sides, PageState
      <4> QED BY <3>2, <4>1
    <3> QED BY <2>4, <2>5, <3>3, <3>4
  <2>6. CASE m.type = "entitlement"
    <3>1. OnEntitlement(m) /\ m.gate \in Gates
      BY <2>1, <2>6, FrameTypes
    <3> DEFINE marked == IF page.scene = "ready" THEN MarkCourtOpen(m.gate) ELSE page.marked
    <3>2. page' = [[page EXCEPT !.entitled = page.entitled \cup {m.gate}] EXCEPT !.marked = marked]
      BY <2>1, <3>1 DEF OnEntitlement, PageState
    <3>3. marked \in SUBSET Courts /\ page.entitled \cup {m.gate} \in SUBSET Gates
      BY <2>1, <3>1 DEF MarkCourtOpen, PageState
    <3>4. page' \in PageState
      <4>1. [page EXCEPT !.entitled = page.entitled \cup {m.gate}] \in PageState
        BY <2>1, <3>3, PageUpdates
      <4> HIDE DEF marked
      <4> QED BY <3>2, <3>3, <4>1, PageUpdates
    <3>5. /\ page'.ws = page.ws /\ page'.keys = page.keys /\ page'.lastIntent = page.lastIntent
          /\ page'.session = page.session /\ page'.scene = page.scene
          /\ page'.entitled = page.entitled \cup {m.gate} /\ page'.marked = marked
      BY <2>1, <3>2 DEF PageState
    <3>6. m.gate \in Courts => page.scene = "ready"
      BY <2>6, Tailed DEF SceneForCourts, WireOK
    <3>7. page'.entitled \cap Courts \subseteq page'.marked
      BY <2>2, <3>5, <3>6 DEF MarkCourtOpen
    <3> QED BY <2>6, <3>4, <3>5, <3>7, Delivered
  <2>7. CASE m.type = "prize"
    <3>1. OnPrize(m) /\ m.from \in Booths \cup Chests
      BY <2>1, <2>7, FrameTypes
    <3>2. ShowPrize(m.from) \in PageState /\ Sides(ShowPrize(m.from)) = Sides(page)
      <4>1. ShowPrize(m.from) \in PageState
        BY <2>1, <3>1, PageUpdates DEF ShowPrize
      <4>2. Sides(ShowPrize(m.from)) = Sides(page)
        BY <2>1 DEF ShowPrize, Sides, PageState
      <4> QED BY <4>1, <4>2
    <3>3. page' = RiddleClosed(ShowPrize(m.from)) \/ page' = ShowPrize(m.from)
      BY <3>1 DEF OnPrize
    <3>4. page' \in PageState /\ Sides(page') = Sides(page)
      BY <3>2, <3>3, RiddleClosedKeeps
    <3> QED BY <2>4, <2>7, <3>4
  <2>8. CASE m.type = "riddle"
    <3>1. page' = [page EXCEPT !.riddle = TRUE, !.typing = "answer"]
      BY <2>8 DEF OnRiddle, ShowRiddle
    <3>2. page' = [[page EXCEPT !.riddle = TRUE] EXCEPT !.typing = "answer"]
      BY <2>1, <3>1 DEF PageState
    <3>3. page' \in PageState
      BY <2>1, <3>2, PageUpdates
    <3>4. Sides(page') = Sides(page)
      BY <2>1, <3>1 DEF Sides, PageState
    <3> QED BY <2>4, <2>8, <3>3, <3>4
  <2> QED BY <2>1, <2>3, <2>5, <2>6, <2>7, <2>8, FrameTypes
<1>2. ASSUME IInv, SceneReady PROVE IInv'
  <2> USE <1>2 DEF IInv, SceneReady
  <2>1. page' \in PageState
    BY PageUpdates DEF TypeOK
  <2>2. /\ page'.ws = page.ws /\ page'.keys = page.keys /\ page'.lastIntent = page.lastIntent
        /\ page'.session = page.session /\ page'.scene = "ready"
        /\ page'.entitled = page.entitled /\ page'.marked = page.marked
    BY DEF TypeOK, PageState
  <2>3. TypeOK' /\ WireOK'
    BY <2>1 DEF TypeOK, WireOK
  <2>4. Fresh' /\ IntentIsHeard'
    BY <2>2, IntentKept DEF Fresh
  <2>5. HelloFirst' /\ SceneForCourts'
    BY <2>2 DEF HelloFirst, SceneForCourts
  <2>6. Told' /\ OpenIsDrawn'
    BY <2>2 DEF Told, OpenIsDrawn
  <2> QED BY <2>3, <2>4, <2>5, <2>6
<1>3. ASSUME IInv, SocketCloses PROVE IInv'
  <2> USE <1>3 DEF IInv, SocketCloses
  <2>1. page' \in PageState
    BY PageUpdates DEF TypeOK
  <2>2. /\ page'.ws = "closed" /\ page'.keys = page.keys /\ page'.lastIntent = page.lastIntent
        /\ page'.session = page.session /\ page'.scene = page.scene
        /\ page'.entitled = page.entitled /\ page'.marked = page.marked
    BY DEF TypeOK, PageState
  <2>3. down' \in Seq(Frames) /\ Len(down') = 0 /\ DOMAIN down' = {}
    OBVIOUS
  <2>4. TypeOK' /\ WireOK'
    BY <2>1, <2>3 DEF TypeOK, WireOK
  <2>5. Fresh' /\ IntentIsHeard'
    BY <2>2 DEF Fresh, IntentIsHeard
  <2>6. HelloFirst' /\ SceneForCourts'
    BY <2>2, <2>3 DEF HelloFirst, SceneForCourts, Paying
  <2>7. Told'
    <3>1. \A g \in srv.entitled : g \in Gates
      BY DEF TypeOK, Session
    <3> QED BY <2>2, <2>3, <3>1 DEF Told
  <2>8. OpenIsDrawn'
    BY <2>2 DEF OpenIsDrawn
  <2> QED BY <2>4, <2>5, <2>6, <2>7, <2>8
<1> QED BY <1>1, <1>2, <1>3 DEF Page

\* A key goes down or up: the intent that is sent is the one remembered.
LEMMA PushIntentIInv ==
  ASSUME IInv, NEW keys \in SUBSET Keys, PushIntent(keys), UNCHANGED <<srv, down, pay, pays, lost>>
  PROVE  IInv'
<1> USE ClientAssumption DEF IInv, PushIntent
<1>1. page' \in PageState /\ page'.keys = keys /\ page'.lastIntent = Intent(keys)
      /\ page'.ws = page.ws /\ page'.session = page.session /\ page'.scene = page.scene
      /\ page'.entitled = page.entitled /\ page'.marked = page.marked
  <2>1. page \in PageState /\ Intent(keys) \in -1 .. 1
    BY IntentType DEF TypeOK
  <2>2. [page EXCEPT !.keys = keys] \in PageState
    BY <2>1, PageUpdates
  <2>3. page' = [[page EXCEPT !.keys = keys] EXCEPT !.lastIntent = Intent(keys)]
    BY <2>1 DEF PageState
  <2>4. page' \in PageState
    <3>1. \A x \in -1 .. 1 : [[page EXCEPT !.keys = keys] EXCEPT !.lastIntent = x] \in PageState
      BY <2>2, PageUpdates
    <3> QED BY <2>1, <2>3, <3>1
  <2> QED BY <2>1, <2>4 DEF PageState
<1>2. HelloFirst' /\ SceneForCourts' /\ Told' /\ OpenIsDrawn'
  BY <1>1, PageKept DEF SceneForCourts, Paying
<1>3. CASE UNCHANGED up /\ (Intent(keys) = page.lastIntent \/ page.ws # "open")
  <2>1. TypeOK' /\ WireOK'
    BY <1>1, <1>3 DEF TypeOK, WireOK
  <2>2. Fresh' /\ IntentIsHeard'
    BY <1>1, <1>3 DEF Fresh, IntentIsHeard, LastMove
  <2> QED BY <1>2, <2>1, <2>2
<1>4. CASE page.ws = "open" /\ Send(Move(Intent(keys)))
  <2> DEFINE m == Move(Intent(keys))
  <2>1. m \in Messages /\ m.type = "move" /\ m.intent = Intent(keys)
    BY IntentType, MessageTypes DEF Move
  <2>2. up' = Append(up, m) /\ up' \in Seq(Messages) /\ Len(up') <= MaxUp
    BY <1>4, <2>1, Sent
  <2>3. DOMAIN up' = 1 .. Len(up) + 1 /\ up'[Len(up) + 1] = m /\ Len(up) \in Nat
    BY <2>1, <2>2, Appended DEF WireOK
  <2>4. TypeOK' /\ WireOK'
    BY <1>1, <2>2 DEF TypeOK, WireOK
  <2>5. Fresh'
    BY <1>1, <1>4 DEF Fresh
  <2>6. IntentIsHeard'
    <3>1. \A i \in DOMAIN up' : LastMove(i)' => i = Len(up) + 1
      BY <2>1, <2>3 DEF LastMove
    <3>2. Len(up) + 1 \in DOMAIN up'
      BY <2>3
    <3> QED BY <1>1, <2>1, <2>3, <3>1, <3>2 DEF IntentIsHeard
  <2> QED BY <1>2, <2>4, <2>5, <2>6
<1>5. CASE page.ws # "open" /\ Send(Move(Intent(keys)))
  BY <1>3, <1>5 DEF Send
<1> QED BY <1>3, <1>4, <1>5

\* A message other than a move.
LEMMA SendIInv ==
  ASSUME IInv, NEW m \in Messages, m.type # "move", Send(m),
         UNCHANGED <<srv, down, page, pay, pays, lost>>
  PROVE  IInv'
<1> USE DEF IInv
<1>1. TypeOK' /\ WireOK'
  BY Sent DEF TypeOK, WireOK
<1>2. Fresh' /\ IntentIsHeard'
  <2>1. up' = up \/ up' = Append(up, m)
    BY Sent
  <2>2. page.ws # "open" => up' = up
    BY Sent
  <2> QED BY <2>1, <2>2, IntentKept DEF Fresh
<1>3. HelloFirst' /\ SceneForCourts' /\ Told' /\ OpenIsDrawn'
  BY PageKept DEF SceneForCourts, Paying, TypeOK
<1> QED BY <1>1, <1>2, <1>3

\* A payment begins; for a court only in a scene.
LEMMA PayIInv ==
  ASSUME IInv, NEW what \in Gates \cup Booths, Pay(what),
         what \in Courts => page.scene = "ready"
  PROVE  IInv'
<1> USE ClientAssumption DEF IInv, Pay
<1>1. TypeOK' /\ WireOK'
  BY DEF TypeOK, WireOK
<1>2. Fresh' /\ IntentIsHeard'
  BY IntentKept DEF Fresh
<1>3. HelloFirst' /\ SceneForCourts' /\ Told' /\ OpenIsDrawn'
  BY PageKept DEF TypeOK
<1> QED BY <1>1, <1>2, <1>3

\* What [E] does: it asks and pays for what is there.
LEMMA Interacts ==
  ASSUME TypeOK, page.at # None
  PROVE  /\ Interactable[1] = "interact" => Interactable[2] \in Booths \cup Chests
         /\ Interactable[1] = "pay" =>
              Interactable[2] \in Booths \cup (Courts \ page.entitled)
<1>1. /\ BoothAt[page.at] \in Booths \cup {None} /\ ChestAt[page.at] \in Chests \cup {None}
      /\ DoorAt[page.at] \in Courts \cup {None}
  BY Names DEF TypeOK, PageState
<1>2. CASE page.body /\ BoothAt[page.at] # None
  BY <1>1, <1>2 DEF Interactable, EngageBooth
<1>3. CASE ~(page.body /\ BoothAt[page.at] # None) /\ page.body /\ ChestAt[page.at] # None
  BY <1>1, <1>3 DEF Interactable
<1>4. CASE ~(page.body /\ BoothAt[page.at] # None) /\ ~(page.body /\ ChestAt[page.at] # None)
  BY <1>1, <1>4 DEF Interactable, Door
<1> QED BY <1>2, <1>3, <1>4

\* The player's keys.
LEMMA PlayerIInv == IInv /\ Player => IInv'
<1>1. ASSUME IInv, NEW k \in Keys, KeyDown(k) \/ KeyUp(k) PROVE IInv'
  <2>1. page.keys \in SUBSET Keys
    BY <1>1 DEF IInv, TypeOK, PageState
  <2>2. CASE KeyDown(k)
    BY <1>1, <2>1, <2>2, PushIntentIInv DEF KeyDown
  <2>3. CASE KeyUp(k)
    BY <1>1, <2>1, <2>3, PushIntentIInv DEF KeyUp
  <2> QED BY <1>1, <2>2, <2>3
<1>2. ASSUME IInv, Focus PROVE IInv'
  <2>1. page \in PageState
    BY <1>2 DEF IInv, TypeOK
  <2>2. PICK t \in {"nothing", "answer", "field"} : page' = [page EXCEPT !.typing = t]
    BY <1>2 DEF Focus
  <2>3. page' \in PageState
    BY <2>1, <2>2, PageUpdates
  <2>4. Sides(page') = Sides(page)
    BY <2>1, <2>2 DEF Sides, PageState
  <2> QED BY <1>2, <2>3, <2>4, PanelsIInv DEF Focus
<1>3. ASSUME IInv, CloseRiddle PROVE IInv'
  <2>1. page' \in PageState /\ Sides(page') = Sides(page)
    BY <1>3, RiddleClosedKeeps DEF IInv, TypeOK, CloseRiddle
  <2> QED BY <1>3, <2>1, PanelsIInv DEF CloseRiddle
<1>4. ASSUME IInv, NEW b \in Booths, Guess(b) PROVE IInv'
  <2>1. Answer(b) \in Messages /\ Answer(b).type # "move"
    BY MessageTypes DEF Answer
  <2> QED BY <1>4, <2>1, SendIInv DEF Guess
<1>5. ASSUME IInv, ActSpawn PROVE IInv'
  BY <1>5, PayIInv, Names DEF ActSpawn
<1>6. ASSUME IInv, ActInteract PROVE IInv'
  <2>1. TypeOK /\ page.at # None /\ page.scene = "ready"
    BY <1>6 DEF IInv, ActInteract
  <2>2. CASE Interactable[1] = "pay" /\ Pay(Interactable[2])
    <3>1. Interactable[2] \in Gates \cup Booths
      BY <2>1, <2>2, Interacts, Names
    <3> QED BY <1>6, <2>1, <2>2, <3>1, PayIInv
  <2>3. CASE /\ Interactable[1] = "interact" /\ Send(Interact(Interactable[2]))
             /\ UNCHANGED <<srv, down, page, pay, pays, lost>>
    <3>1. Interactable[2] \in Booths \cup Chests
      BY <2>1, <2>3, Interacts
    <3>2. Interact(Interactable[2]) \in Messages /\ Interact(Interactable[2]).type # "move"
      BY <3>1, MessageTypes DEF Interact
    <3> QED BY <1>6, <2>3, <3>2, SendIInv
  <2> QED BY <1>6, <2>2, <2>3 DEF ActInteract
<1> QED BY <1>1, <1>2, <1>3, <1>4, <1>5, <1>6 DEF Player

\* A payment under way, from its request to its answer.
LEMMA PaymentIInv == IInv /\ Payment => IInv'
<1> USE ClientAssumption
<1>1. ASSUME IInv, GateAnswers PROVE IInv'
  <2> USE <1>1 DEF IInv, GateAnswers
  <2> DEFINE g == pay.for
             m == Entitlement(g)
  <2>1. g \in Gates /\ m \in Frames /\ m.type = "entitlement" /\ m.gate = g
    BY FrameTypes DEF Entitlement
  <2>2. Push(m) /\ srv.live
    BY DEF Grant
  <2>3. srv' \in Session /\ srv'.entitled = srv.entitled \cup {g} /\ srv'.intent \in {srv.intent, 0}
    <3>1. CASE g = Spawn /\ ~srv.body
      <4>1. srv' = [srv EXCEPT !.entitled = @ \cup {g}, !.body = TRUE, !.at = BodySpawn,
                               !.intent = 0]
        BY <3>1 DEF Grant
      <4>2. srv'.entitled = srv.entitled \cup {g} /\ srv'.intent = 0
            /\ srv'.body = TRUE /\ srv'.at = BodySpawn /\ srv'.live = srv.live
        BY <4>1 DEF TypeOK, Session
      <4>3. srv' \in Session
        <5> DEFINE s1 == [srv EXCEPT !.entitled = srv.entitled \cup {g}]
                   s2 == [s1 EXCEPT !.body = TRUE]
                   s3 == [s2 EXCEPT !.at = BodySpawn]
        <5>1. s1 \in Session
          BY <2>1 DEF TypeOK, Session
        <5>2. srv' = [s3 EXCEPT !.intent = 0]
          BY <4>1 DEF TypeOK, Session
        <5> HIDE DEF s1
        <5>3. s2 \in Session
          BY <5>1 DEF Session
        <5> HIDE DEF s2
        <5>4. s3 \in Session
          BY <5>3 DEF Session
        <5> HIDE DEF s3
        <5> QED BY <5>2, <5>4 DEF Session
      <4> QED BY <4>2, <4>3
    <3>2. CASE ~(g = Spawn /\ ~srv.body)
      <4>1. srv' = [srv EXCEPT !.entitled = srv.entitled \cup {g}]
        BY <3>2 DEF Grant
      <4> QED BY <2>1, <4>1 DEF TypeOK, Session
    <3> QED BY <3>1, <3>2
  <2>4. pay'.for = g /\ Paying /\ (g \in Courts => page.scene = "ready")
    BY DEF TypeOK, SceneForCourts, Paying
  <2>5. TypeOK' /\ WireOK'
    <3>1. pay' \in [for : Gates \cup Booths \cup {None}, phase : {"idle", "sent", "ok"},
                    token : Booths \cup {None}]
      BY DEF TypeOK
    <3> QED BY <2>1, <2>2, <2>3, <3>1, Pushed DEF TypeOK, WireOK
  <2>6. Fresh' /\ IntentIsHeard'
    BY <2>2, <2>3, IntentKept DEF Fresh
  <2>7. HelloFirst' /\ SceneForCourts' /\ Told' /\ OpenIsDrawn'
    <3>1. srv'.entitled = srv.entitled \cup (IF m.type = "entitlement" THEN {m.gate} ELSE {})
      BY <2>1, <2>3
    <3> HIDE DEF m
    <3> QED BY <2>1, <2>2, <2>4, <3>1, FramesKept
  <2> QED BY <2>5, <2>6, <2>7
<1>2. ASSUME IInv, PlayAnswers PROVE IInv'
  <2> USE <1>2 DEF IInv, PlayAnswers
  <2>1. PICK token \in {None, pay.for} : pay' = [pay EXCEPT !.phase = "ok", !.token = token]
    OBVIOUS
  <2>2. pay'.for = pay.for /\ Paying
    BY <2>1 DEF TypeOK, Paying
  <2>3. TypeOK' /\ WireOK'
    BY <2>1 DEF TypeOK, WireOK
  <2>4. Fresh' /\ IntentIsHeard'
    BY IntentKept DEF Fresh
  <2>5. HelloFirst' /\ SceneForCourts' /\ Told' /\ OpenIsDrawn'
    BY <2>2, PageKept DEF SceneForCourts, TypeOK
  <2> QED BY <2>3, <2>4, <2>5
<1>3. ASSUME IInv, Answered PROVE IInv'
  <2> USE <1>3 DEF IInv, Answered
  <2>1. page' = page /\ ~Paying'
    BY DEF ShowGacha, Paying, Idle
  <2>2. TypeOK' /\ WireOK'
    BY <2>1 DEF TypeOK, WireOK, Idle
  <2>3. Fresh' /\ IntentIsHeard'
    BY <2>1, IntentKept DEF Fresh
  <2>4. HelloFirst' /\ SceneForCourts' /\ Told' /\ OpenIsDrawn'
    BY <2>1, PageKept DEF TypeOK
  <2> QED BY <2>2, <2>3, <2>4
<1> QED BY <1>1, <1>2, <1>3 DEF Payment

\* Every action keeps the inductive invariant.
LEMMA NextIInv == IInv /\ [Next]_vars => IInv'
<1>1. ASSUME IInv, UNCHANGED vars PROVE IInv'
  <2> USE <1>1 DEF IInv, vars
  <2>1. TypeOK' /\ WireOK' /\ Fresh'
    BY DEF TypeOK, WireOK, Fresh
  <2>2. IntentIsHeard' /\ HelloFirst' /\ SceneForCourts' /\ Told' /\ OpenIsDrawn'
    BY DEF IntentIsHeard, LastMove, HelloFirst, SceneForCourts, Told, OpenIsDrawn, Paying
  <2> QED BY <2>1, <2>2
<1> QED BY <1>1, ServerIInv, PageIInv, PlayerIInv, PaymentIInv DEF Next

------------------------------------------------------------------------------
(* The theorems. *)

\* The strengthening holds in every reachable state.
THEOREM Invariance == Spec => []IInv
  BY InitIInv, NextIInv, PTL DEF Spec

\* The variables keep their types, and the outbox its bound.
THEOREM TypeCorrect == Spec => []TypeOK
<1>1. IInv => TypeOK
  BY DEF IInv
<1> QED BY <1>1, Invariance, PTL

\* pushIntent and grant: once what is under way has arrived, the avatar moves by
\* the keys the page takes as held, so a key whose release it hears stops it.
THEOREM LettingGoStops == Spec => []NeverRunsOn
<1>1. IInv => NeverRunsOn
  <2> SUFFICES ASSUME IInv, page.ws = "open", up = <<>>, srv.intent # 0
               PROVE  srv.intent = Intent(page.keys)
    BY DEF NeverRunsOn
  <2>1. \A i \in DOMAIN up : up[i].type # "move"
    OBVIOUS
  <2> QED BY <2>1 DEF IInv, IntentIsHeard
<1> QED BY <1>1, Invariance, PTL

\* A court that lets the player in for nothing is drawn as open, and is open.
THEOREM EntitledIsDrawn == Spec => []OpenIsDrawn
<1>1. IInv => OpenIsDrawn
  BY DEF IInv
<1> QED BY <1>1, Invariance, PTL

\* A payment for a court is for one the page does not know to be open, so what
\* the session holds of it is on its way or lost.
LEMMA StepPays == IInv /\ [Next]_vars => PaidAgainUntold
<1> SUFFICES ASSUME IInv, [Next]_vars, NEW g \in Courts, pays' # pays, pay'.for = g,
                    g \in srv.entitled
             PROVE  g \in lost \/ \E i \in DOMAIN down : down[i] = Entitlement(g)
  BY DEF PaidAgainUntold
<1> USE DEF IInv
<1>1. ActSpawn \/ ActInteract
  BY DEF Next, Server, Page, Player, Payment, vars, Connect, Tick, Receive, Disconnect, Walk,
     Deliver, SceneReady, SocketCloses, KeyDown, KeyUp, Focus, CloseRiddle, Guess, GateAnswers,
     PlayAnswers, Answered
<1>2. ~ActSpawn
  BY Names DEF ActSpawn, Pay
<1>3. Interactable[1] = "pay" /\ Pay(Interactable[2]) /\ page.at # None
  BY <1>1, <1>2 DEF ActInteract
<1>4. Interactable[2] = g
  BY <1>3 DEF Pay
<1>5. g \notin page.entitled
  BY <1>3, <1>4, Interacts, Names
<1> QED BY <1>5 DEF Told

\* main.ts: a court that is held is never paid again by a page that was told.
THEOREM ToldNeverPays == Spec => PaysAgainOnlyUntold
  BY Invariance, StepPays, PTL DEF Spec, PaysAgainOnlyUntold
==============================================================================
