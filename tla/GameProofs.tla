------------------------------ MODULE GameProofs ------------------------------
(***************************************************************************)
(* Theorems about Game, for every world, any stock of prizes and any       *)
(* number of sessions.                                                     *)
(*                                                                         *)
(* That a prize is paid once is a matter of where each token is: in the    *)
(* file, in the outbox of one session or in the pocket of one, or lost.    *)
(* IInv adds what keeps the tokens apart: the file only ever loses some, a *)
(* new session has none, and a session with a lantern's token won at it.   *)
(***************************************************************************)
EXTENDS Game, FiniteSetTheorems, TLAPS

\* What is left in the file for a target is of its stock, each token once.
FileIsStock ==
  \A k \in Targets : ToSet(vault[k]) \subseteq TokensOf(k) /\ IsInjective(vault[k])

\* The first two conjuncts of PrizePaidOnce.
HeldByOne ==
  /\ \A s, t \in Sessions : s # t => Holds(s) \cap Holds(t) = {}
  /\ \A s \in Sessions, k \in Targets : Holds(s) \cap ToSet(vault[k]) = {}

\* A session that was never issued has nothing; one that lives and has a token
\* of a lantern won there, and nobody has two.
WonOnce ==
  /\ \A s \in Sessions \ used : Holds(s) = {}
  /\ \A s \in Sessions, b \in Riddles : \A x, y \in Holds(s) \cap TokensOf(b) : x = y
  /\ \A s \in Live, b \in Riddles : Holds(s) \cap TokensOf(b) # {} => b \in players[s].won

IInv ==
  /\ TypeOK
  /\ FileIsStock
  /\ HeldByOne
  /\ WonOnce
  /\ UnclaimedIsStocked
  /\ PrizeAccounted
  /\ BellPressIsPaid

------------------------------------------------------------------------------
(* Sequences. *)

\* A message that is pushed goes last or, if the queue is full, is dropped.
LEMMA PushedKeeps ==
  ASSUME NEW S, NEW q \in Seq(S), NEW m \in S, Len(q) <= OutboxSize
  PROVE  /\ Pushed(q, m) \in Seq(S) /\ Len(Pushed(q, m)) <= OutboxSize
         /\ ToSet(q) \subseteq ToSet(Pushed(q, m))
         /\ ToSet(Pushed(q, m)) \subseteq ToSet(q) \cup {m}
         /\ Len(q) < OutboxSize => m \in ToSet(Pushed(q, m))
         /\ ~(Len(q) < OutboxSize) => Pushed(q, m) = q
<1> USE GameAssumption DEF Pushed
<1>1. CASE Len(q) < OutboxSize
  <2>1. Append(q, m) \in Seq(S) /\ Len(Append(q, m)) = Len(q) + 1 /\ Len(q) \in Nat
        /\ \A i \in 1 .. Len(q) + 1 : Append(q, m)[i] = IF i = Len(q) + 1 THEN m ELSE q[i]
    OBVIOUS
  <2>2. ToSet(Append(q, m)) \subseteq ToSet(q) \cup {m} /\ ToSet(q) \subseteq ToSet(Append(q, m))
        /\ m \in ToSet(Append(q, m))
    BY <2>1 DEF ToSet
  <2> QED BY <1>1, <2>1, <2>2
<1>2. CASE ~(Len(q) < OutboxSize)
  BY <1>2
<1> QED BY <1>1, <1>2

\* What is left of a queue when its head is taken, and that the head is gone
\* if nothing is in the queue twice.
LEMMA Popped ==
  ASSUME NEW S, NEW q \in Seq(S), q # <<>>
  PROVE  /\ Tail(q) \in Seq(S) /\ Len(Tail(q)) <= Len(q) /\ Len(Tail(q)) \in Nat /\ Len(q) \in Nat
         /\ Head(q) \in S /\ Head(q) \in ToSet(q)
         /\ ToSet(Tail(q)) \subseteq ToSet(q) /\ ToSet(q) \subseteq ToSet(Tail(q)) \cup {Head(q)}
         /\ IsInjective(q) => IsInjective(Tail(q)) /\ Head(q) \notin ToSet(Tail(q))
<1>1. /\ Len(q) \in Nat \ {0} /\ Len(Tail(q)) = Len(q) - 1 /\ Tail(q) \in Seq(S)
      /\ Head(q) = q[1] /\ q[1] \in S
      /\ DOMAIN q = 1 .. Len(q) /\ DOMAIN Tail(q) = 1 .. Len(q) - 1
      /\ \A i \in 1 .. Len(q) - 1 : Tail(q)[i] = q[i + 1]
  OBVIOUS
<1>2. Head(q) \in ToSet(q)
  BY <1>1 DEF ToSet
<1>3. ToSet(Tail(q)) \subseteq ToSet(q)
  BY <1>1 DEF ToSet
<1>4. ToSet(q) \subseteq ToSet(Tail(q)) \cup {Head(q)}
  <2> SUFFICES ASSUME NEW i \in DOMAIN q PROVE q[i] \in ToSet(Tail(q)) \cup {Head(q)}
    BY DEF ToSet
  <2>1. CASE i = 1
    BY <1>1, <2>1
  <2>2. CASE i # 1
    <3>1. i - 1 \in DOMAIN Tail(q) /\ Tail(q)[i - 1] = q[i]
      BY <1>1, <2>2
    <3> QED BY <3>1 DEF ToSet
  <2> QED BY <2>1, <2>2
<1>5. ASSUME IsInjective(q) PROVE IsInjective(Tail(q)) /\ Head(q) \notin ToSet(Tail(q))
  <2>1. \A i, j \in DOMAIN q : q[i] = q[j] => i = j
    BY <1>5 DEF IsInjective
  <2>2. IsInjective(Tail(q))
    <3> SUFFICES ASSUME NEW i \in DOMAIN Tail(q), NEW j \in DOMAIN Tail(q),
                        Tail(q)[i] = Tail(q)[j]
                 PROVE  i = j
      BY DEF IsInjective
    <3>1. i + 1 \in DOMAIN q /\ j + 1 \in DOMAIN q /\ q[i + 1] = q[j + 1]
      BY <1>1
    <3>2. i + 1 = j + 1
      BY <2>1, <3>1
    <3> QED BY <1>1, <3>2
  <2>3. \A i \in DOMAIN Tail(q) : Tail(q)[i] # q[1]
    BY <1>1, <2>1
  <2> QED BY <1>1, <2>2, <2>3 DEF ToSet
<1> QED BY <1>1, <1>2, <1>3, <1>4, <1>5

------------------------------------------------------------------------------
(* Prizes on their way. *)

\* A session that lives has been issued; one that does not has its pocket only.
LEMMA LiveIsKnown ==
  ASSUME TypeOK
  PROVE  /\ Live \subseteq used /\ used \subseteq Sessions
         /\ \A t \in Sessions : t \in Live => Holds(t) = pocket[t] \cup (ToSet(outbox[t]) \ {Frame})
         /\ \A t \in Sessions : t \notin Live => Holds(t) = pocket[t]
  BY DEF TypeOK, Holds

\* A step that hands the prizes P of target k, if any, to session s and takes
\* them out of the file keeps the prizes apart, as long as a lantern pays whom
\* it had not paid, and nobody who is known forgets a win.
LEMMA PrizesKept ==
  ASSUME IInv, NEW s, NEW k, NEW P,
         P # {} => s \in Sessions \cap used' /\ k \in Targets,
         P \subseteq ToSet(vault[k]), \A x, y \in P : x = y,
         \A t \in Sessions : Holds(t)' \subseteq Holds(t) \cup (IF t = s THEN P ELSE {}),
         \A l \in Targets : ToSet(vault'[l]) \subseteq ToSet(vault[l]) \ P,
         used \subseteq used', Live' \subseteq Sessions,
         \A t \in Live' : Holds(t)' = {} \/ (t \in Live /\ players[t].won \subseteq players'[t].won),
         k \in Riddles /\ P # {} =>
           /\ s \in Live /\ k \notin players[s].won
           /\ s \in Live' => k \in players'[s].won
  PROVE  HeldByOne' /\ WonOnce'
<1> USE DEF IInv
<1>1. \A t \in Sessions : Holds(t) \cap P = {}
  BY DEF HeldByOne
<1>2. HeldByOne'
  <2>1. ASSUME NEW t \in Sessions, NEW u \in Sessions, t # u
        PROVE  Holds(t)' \cap Holds(u)' = {}
    <3>1. Holds(t) \cap Holds(u) = {}
      BY <2>1 DEF HeldByOne
    <3> QED BY <1>1, <2>1, <3>1
  <2>2. ASSUME NEW t \in Sessions, NEW l \in Targets
        PROVE  Holds(t)' \cap ToSet(vault'[l]) = {}
    <3>1. Holds(t) \cap ToSet(vault[l]) = {}
      BY DEF HeldByOne
    <3> QED BY <3>1
  <2> QED BY <2>1, <2>2 DEF HeldByOne
<1>3. \A b \in Riddles : P \cap TokensOf(b) # {} => b = k
  <2>1. P # {} => P \subseteq TokensOf(k)
    BY DEF FileIsStock
  <2> QED BY <2>1, GameAssumption DEF Targets, Booths
<1>4. WonOnce'
  <2>1. ASSUME NEW t \in Sessions \ used' PROVE Holds(t)' = {}
    <3>1. Holds(t) = {} /\ ~(t = s /\ P # {})
      BY <2>1 DEF WonOnce
    <3> QED BY <3>1
  <2>2. ASSUME NEW t \in Sessions, NEW b \in Riddles,
               NEW x \in Holds(t)' \cap TokensOf(b), NEW y \in Holds(t)' \cap TokensOf(b)
        PROVE  x = y
    <3>1. CASE x \in Holds(t) /\ y \in Holds(t)
      BY <3>1 DEF WonOnce
    <3>2. CASE x \in P \/ y \in P
      <4>1. b = k /\ (t = s \/ P = {}) /\ P # {}
        BY <1>1, <1>3, <2>2, <3>2
      <4>2. Holds(s) \cap TokensOf(b) = {}
        BY <4>1 DEF WonOnce
      <4>3. x \in P /\ y \in P
        BY <4>1, <4>2, <2>2
      <4> QED BY <4>3
    <3> QED BY <2>2, <3>1, <3>2
  <2>3. ASSUME NEW t \in Live', NEW b \in Riddles, Holds(t)' \cap TokensOf(b) # {}
        PROVE  b \in players'[t].won
    <3>1. t \in Live /\ players[t].won \subseteq players'[t].won /\ t \in Sessions
      BY <2>3
    <3>2. CASE Holds(t) \cap TokensOf(b) # {}
      BY <3>1, <3>2 DEF WonOnce
    <3>3. CASE Holds(t) \cap TokensOf(b) = {}
      <4>1. t = s /\ P \cap TokensOf(b) # {}
        BY <2>3, <3>1, <3>3
      <4> QED BY <1>3, <2>3, <4>1
    <3> QED BY <3>2, <3>3
  <2> QED BY <2>1, <2>2, <2>3 DEF WonOnce
<1> QED BY <1>2, <1>4

\* A step takes the prizes P, if any, out of the file and hands them on, and of
\* those and what sessions had it loses L.
Hands(k, P, L) ==
  /\ P # {} => k \in Targets
  /\ P \subseteq ToSet(vault[k])
  /\ \A l \in Targets : ToSet(vault'[l]) \subseteq ToSet(vault[l]) \ P
  /\ \A l \in Targets : ToSet(vault[l]) \subseteq ToSet(vault'[l]) \cup P
  /\ lost' = lost \cup L
  /\ \A t \in Sessions : Holds(t)' \subseteq Holds(t) \cup P
  /\ \A t \in Sessions : Holds(t) \subseteq Holds(t)' \cup L
  /\ \A t \in Sessions : L \cap Holds(t)' = {}
  /\ \A x \in L : x \in P \/ \E t \in Sessions : x \in Holds(t)
  /\ \A x \in P : x \in L \/ \E t \in Sessions : x \in Holds(t)'

\* Such a step keeps the account.
LEMMA StillAccounted ==
  ASSUME IInv, NEW k, NEW P, NEW L, Hands(k, P, L)
  PROVE  PrizeAccounted'
<1> USE DEF Hands
<1>1. /\ \A l \in Targets : TokensOf(l) \subseteq ToSet(vault[l]) \cup lost \cup AllHeld
      /\ \A l \in Targets : lost \cap ToSet(vault[l]) = {}
      /\ lost \cap AllHeld = {}
  BY DEF IInv, PrizeAccounted
<1>2. \A x \in AllHeld : \E t \in Sessions : x \in Holds(t)
  BY DEF AllHeld
<1>3. \A x : x \in AllHeld' <=> \E t \in Sessions : x \in Holds(t)'
  BY DEF AllHeld
<1>4. \A t \in Sessions : lost \cap Holds(t) = {}
  BY <1>1 DEF AllHeld
<1>5. ASSUME NEW l \in Targets, NEW x \in TokensOf(l)
      PROVE  x \in ToSet(vault'[l]) \cup lost' \cup AllHeld'
  <2>1. CASE x \in ToSet(vault[l])
    BY <1>3, <2>1
  <2>2. CASE x \in lost
    BY <2>2
  <2>3. CASE x \in AllHeld
    BY <1>2, <1>3, <2>3
  <2> QED BY <1>1, <1>5, <2>1, <2>2, <2>3
<1>6. ASSUME NEW l \in Targets PROVE lost' \cap ToSet(vault'[l]) = {}
  <2>1. lost \cap ToSet(vault[l]) = {}
    BY <1>1
  <2>2. \A t \in Sessions : Holds(t) \cap ToSet(vault[l]) = {}
    BY DEF IInv, HeldByOne
  <2> QED BY <2>1, <2>2
<1>7. lost' \cap AllHeld' = {}
  <2>1. lost \cap P = {}
    BY <1>1
  <2> QED BY <1>3, <1>4, <2>1
<1>8. \A l \in Targets : TokensOf(l)' = TokensOf(l)
  BY DEF TokensOf
<1> QED BY <1>5, <1>6, <1>7, <1>8 DEF PrizeAccounted

\* Vault::pop takes one token, and that one is not left in the file.
LEMMA PopTakesOne ==
  ASSUME TypeOK, FileIsStock, NEW k \in Targets, vault[k] # <<>>, Pop(k)
  PROVE  /\ vault' \in [Targets -> Seq(Tokens)] /\ FileIsStock'
         /\ Head(vault[k]) \in Tokens /\ Head(vault[k]) # Frame
         /\ {Head(vault[k])} \subseteq ToSet(vault[k])
         /\ \A l \in Targets : ToSet(vault'[l]) \subseteq ToSet(vault[l]) \ {Head(vault[k])}
         /\ \A l \in Targets : ToSet(vault[l]) \subseteq ToSet(vault'[l]) \cup {Head(vault[k])}
         /\ \A l \in Targets : l # k => vault'[l] = vault[l]
<1> DEFINE q == vault[k]
<1>1. q \in Seq(Tokens) /\ ToSet(q) \subseteq TokensOf(k) /\ IsInjective(q)
      /\ vault \in [Targets -> Seq(Tokens)] /\ vault' = [vault EXCEPT ![k] = Tail(q)]
  BY DEF TypeOK, FileIsStock, Pop
<1>2. /\ Tail(q) \in Seq(Tokens) /\ Head(q) \in Tokens /\ Head(q) \in ToSet(q)
      /\ ToSet(Tail(q)) \subseteq ToSet(q) /\ IsInjective(Tail(q)) /\ Head(q) \notin ToSet(Tail(q))
      /\ ToSet(q) \subseteq ToSet(Tail(q)) \cup {Head(q)}
  BY <1>1, Popped
<1>3. vault' \in [Targets -> Seq(Tokens)] /\ vault'[k] = Tail(q)
      /\ \A l \in Targets : l # k => vault'[l] = vault[l]
  BY <1>1, <1>2
<1>4. FileIsStock'
  <2> SUFFICES ASSUME NEW l \in Targets
               PROVE  ToSet(vault'[l]) \subseteq TokensOf(l) /\ IsInjective(vault'[l])
    BY DEF FileIsStock
  <2>1. CASE l = k
    BY <1>1, <1>2, <1>3, <2>1
  <2>2. CASE l # k
    BY <1>3, <2>2 DEF FileIsStock
  <2> QED BY <2>1, <2>2
<1>5. \A l \in Targets : ToSet(vault'[l]) \subseteq ToSet(vault[l]) \ {Head(q)}
  <2> SUFFICES ASSUME NEW l \in Targets
               PROVE  ToSet(vault'[l]) \subseteq ToSet(vault[l]) \ {Head(q)}
    OBVIOUS
  <2>1. CASE l = k
    BY <1>2, <1>3, <2>1
  <2>2. CASE l # k
    <3>1. TokensOf(l) \cap TokensOf(k) = {} /\ ToSet(vault[l]) \subseteq TokensOf(l)
      BY <2>2, GameAssumption DEF FileIsStock
    <3> QED BY <1>1, <1>2, <1>3, <2>2, <3>1
  <2> QED BY <2>1, <2>2
<1>6. Head(q) # Frame
  BY <1>2, GameAssumption
<1>7. \A l \in Targets : ToSet(vault[l]) \subseteq ToSet(vault'[l]) \cup {Head(q)}
  BY <1>2, <1>3
<1> QED BY <1>2, <1>3, <1>4, <1>5, <1>6, <1>7

Queues(live) == [live -> Seq(Tokens \cup {Frame})]

\* A push to one session, and a push to all.
LEMMA TellKeeps ==
  ASSUME TypeOK, NEW s \in Live, NEW m \in Tokens \cup {Frame}, Tell(s, m)
  PROVE  /\ outbox' \in Queues(Live) /\ \A t \in Live : Len(outbox'[t]) <= OutboxSize
         /\ \A t \in Live : ToSet(outbox'[t]) \subseteq ToSet(outbox[t]) \cup
                              (IF t = s THEN {m} ELSE {})
         /\ \A t \in Live : ToSet(outbox[t]) \subseteq ToSet(outbox'[t])
         /\ \/ Dropped(s, m) = {} /\ m \in ToSet(outbox'[s])
            \/ Dropped(s, m) = {m} /\ \A t \in Live : outbox'[t] = outbox[t]
<1>1. outbox \in Queues(Live) /\ \A t \in Live : Len(outbox[t]) <= OutboxSize
  BY DEF TypeOK, Queues
<1>2. /\ Pushed(outbox[s], m) \in Seq(Tokens \cup {Frame})
      /\ Len(Pushed(outbox[s], m)) <= OutboxSize
      /\ ToSet(Pushed(outbox[s], m)) \subseteq ToSet(outbox[s]) \cup {m}
      /\ ToSet(outbox[s]) \subseteq ToSet(Pushed(outbox[s], m))
      /\ Len(outbox[s]) < OutboxSize => m \in ToSet(Pushed(outbox[s], m))
      /\ ~(Len(outbox[s]) < OutboxSize) => Pushed(outbox[s], m) = outbox[s]
  BY <1>1, PushedKeeps DEF Queues
<1>3. outbox' = [outbox EXCEPT ![s] = Pushed(outbox[s], m)]
  BY DEF Tell
<1>4. outbox'[s] = Pushed(outbox[s], m) /\ \A t \in Live : t # s => outbox'[t] = outbox[t]
  BY <1>1, <1>3 DEF Queues
<1>5. outbox' \in Queues(Live)
  BY <1>1, <1>2, <1>3 DEF Queues
<1> QED BY <1>1, <1>2, <1>4, <1>5 DEF Dropped

\* A frame to everybody adds nothing else to any outbox.
LEMMA TellAllKeeps ==
  ASSUME TypeOK, TellAll(Frame)
  PROVE  /\ outbox' \in Queues(Live) /\ \A t \in Live : Len(outbox'[t]) <= OutboxSize
         /\ \A t \in Live : ToSet(outbox'[t]) \subseteq ToSet(outbox[t]) \cup {Frame}
         /\ \A t \in Live : ToSet(outbox[t]) \subseteq ToSet(outbox'[t])
<1>1. \A t \in Live : outbox[t] \in Seq(Tokens \cup {Frame}) /\ Len(outbox[t]) <= OutboxSize
  BY DEF TypeOK
<1>2. \A t \in Live : /\ Pushed(outbox[t], Frame) \in Seq(Tokens \cup {Frame})
                      /\ Len(Pushed(outbox[t], Frame)) <= OutboxSize
                      /\ ToSet(Pushed(outbox[t], Frame)) \subseteq ToSet(outbox[t]) \cup {Frame}
                      /\ ToSet(outbox[t]) \subseteq ToSet(Pushed(outbox[t], Frame))
  BY <1>1, PushedKeeps
<1> QED BY <1>2 DEF TellAll, Queues

------------------------------------------------------------------------------
(* Steps. *)

\* A step that moves no prize: it may drop sessions, and with them what waited
\* for them, and push frames.
LEMMA QuietStep ==
  ASSUME IInv,
         UNCHANGED <<tour, used, pocket, claimed, riddleIndex, gachaCount, bells, vault, bellLog>>,
         Live' \subseteq Live, players' \in [Live' -> Player], outbox' \in Queues(Live'),
         lost' = lost \cup UNION {Undelivered(t) : t \in Live \ Live'},
         \A t \in Live' : /\ Len(outbox'[t]) <= OutboxSize
                          /\ ToSet(outbox'[t]) \subseteq ToSet(outbox[t]) \cup {Frame}
                          /\ ToSet(outbox[t]) \subseteq ToSet(outbox'[t])
                          /\ players[t].won \subseteq players'[t].won
  PROVE  IInv'
<1> DEFINE L == UNION {Undelivered(t) : t \in Live \ Live'}
<1>1. TypeOK'
  <2>1. \A t \in Live : ToSet(outbox[t]) \subseteq Tokens \cup {Frame}
    BY DEF IInv, TypeOK, ToSet
  <2>2. lost' \subseteq Tokens
    BY <2>1 DEF IInv, TypeOK, Undelivered
  <2> QED BY <2>2 DEF IInv, TypeOK, Queues
<1>2. FileIsStock' /\ UnclaimedIsStocked' /\ BellPressIsPaid'
  BY DEF IInv, FileIsStock, UnclaimedIsStocked, BellPressIsPaid
<1>3. \A t \in Sessions : Holds(t)' \subseteq Holds(t)
  BY DEF Holds
<1>4. /\ \A l \in Targets : ToSet(vault'[l]) \subseteq ToSet(vault[l]) \ {}
      /\ \A l \in Targets : ToSet(vault[l]) \subseteq ToSet(vault'[l]) \cup {}
  OBVIOUS
<1>5. HeldByOne' /\ WonOnce'
  <2>1. used' = used /\ Live' \subseteq Sessions
    BY LiveIsKnown DEF IInv
  <2>2. \A t \in Sessions : Holds(t)' \subseteq Holds(t) \cup (IF t = NoTarget THEN {} ELSE {})
    BY <1>3
  <2> QED BY <1>4, <2>1, <2>2, PrizesKept
<1>6. PrizeAccounted'
  <2>1. \A x \in L : \E u \in Live \ Live' : x \in Holds(u) /\ x \notin pocket[u]
    BY DEF Undelivered, Holds
  <2>2. Live \subseteq Sessions
    BY LiveIsKnown DEF IInv
  <2>3. ASSUME NEW t \in Sessions PROVE Holds(t) \subseteq Holds(t)' \cup L
    <3>1. CASE t \in Live'
      BY <3>1 DEF Holds
    <3>2. CASE t \notin Live'
      BY <3>2 DEF Holds, Undelivered
    <3> QED BY <3>1, <3>2
  <2>4. ASSUME NEW t \in Sessions, NEW x \in L, x \in Holds(t)' PROVE FALSE
    <3>1. PICK u \in Live \ Live' : x \in Holds(u) /\ x \notin pocket[u]
      BY <2>1, <2>4
    <3>2. u \in Sessions /\ x \in Holds(t)
      BY <1>3, <2>2, <2>4, <3>1
    <3>3. t = u
      BY <3>1, <3>2 DEF IInv, HeldByOne
    <3>4. Holds(t)' = pocket[t]
      BY <3>1, <3>3 DEF Holds
    <3> QED BY <2>4, <3>1, <3>3, <3>4
  <2>5. \A t \in Sessions : L \cap Holds(t)' = {}
    BY <2>4
  <2>6. \A x \in L : \E t \in Sessions : x \in Holds(t)
    BY <2>1, <2>2
  <2> HIDE DEF L
  <2>7. \A t \in Sessions : Holds(t)' \subseteq Holds(t) \cup {}
    BY <1>3
  <2>8. lost' = lost \cup L
    BY DEF L
  <2>9. Hands(NoTarget, {}, L)
    BY <1>4, <2>3, <2>5, <2>6, <2>7, <2>8 DEF Hands
  <2> QED BY <2>9, StillAccounted
<1> QED BY <1>1, <1>2, <1>5, <1>6 DEF IInv

\* A player's record stays one when a field of it takes another value, and
\* only won changes the wins.
LEMMA PlayerUpdates ==
  ASSUME NEW p \in Player
  PROVE  /\ \A x \in Places : [p EXCEPT !.place = x] \in Player /\ [p EXCEPT !.place = x].won = p.won
         /\ \A x \in BOOLEAN :
              /\ [p EXCEPT !.aloft = x] \in Player /\ [p EXCEPT !.aloft = x].won = p.won
              /\ [p EXCEPT !.body = x] \in Player /\ [p EXCEPT !.body = x].won = p.won
              /\ [p EXCEPT !.guessed = x] \in Player /\ [p EXCEPT !.guessed = x].won = p.won
         /\ \A x \in SUBSET (Courts \cup {Spawn}) :
              [p EXCEPT !.entitled = x] \in Player /\ [p EXCEPT !.entitled = x].won = p.won
         /\ \A x \in SUBSET Riddles :
              [p EXCEPT !.won = x] \in Player /\ [p EXCEPT !.won = x].won = x
  BY DEF Player

\* A step that changes one session's record, forgets no win of its and tells
\* it a frame at most.
LEMMA MoveStep ==
  ASSUME IInv, UNCHANGED world, NEW s \in Live, NEW p \in Player,
         players' = [players EXCEPT ![s] = p], players[s].won \subseteq p.won,
         outbox' = outbox \/ Tell(s, Frame)
  PROVE  IInv'
<1>1. players \in [Live -> Player] /\ TypeOK
  BY DEF IInv, TypeOK
<1>2. Live' = Live /\ players' \in [Live' -> Player]
      /\ \A t \in Live : players[t].won \subseteq players'[t].won
  BY <1>1 DEF Live
<1>3. lost' = lost \cup UNION {Undelivered(t) : t \in Live \ Live'}
  BY <1>2 DEF world
<1>4. CASE outbox' = outbox
  <2>1. outbox' \in Queues(Live')
        /\ \A t \in Live' : Len(outbox'[t]) <= OutboxSize
                            /\ ToSet(outbox'[t]) \subseteq ToSet(outbox[t]) \cup {Frame}
                            /\ ToSet(outbox[t]) \subseteq ToSet(outbox'[t])
    BY <1>1, <1>2, <1>4 DEF TypeOK, Queues
  <2> QED BY <1>2, <1>3, <2>1, QuietStep DEF world
<1>5. CASE Tell(s, Frame)
  <2>1. outbox' \in Queues(Live')
        /\ \A t \in Live' : Len(outbox'[t]) <= OutboxSize
                            /\ ToSet(outbox'[t]) \subseteq ToSet(outbox[t]) \cup {Frame}
                            /\ ToSet(outbox[t]) \subseteq ToSet(outbox'[t])
    BY <1>1, <1>2, <1>5, TellKeeps
  <2> QED BY <1>2, <1>3, <2>1, QuietStep DEF world
<1> QED BY <1>4, <1>5

\* Steps of one session that touch no prize.
LEMMA MovesKeepIInv ==
  ASSUME IInv, NEW s \in Sessions,
         \/ Refuse(s) \/ \E g \in RoomsOf(tour) \cup {Spawn} : Grant(s, g)
         \/ \E q \in Places : Walk(s, q)
         \/ Jump(s) \/ Land(s) \/ CoolDown(s) \/ \E b \in Riddles : AnswerInVain(s, b)
  PROVE  IInv'
<1> DEFINE p == players[s]
<1>1. /\ s \in Live => p \in Player
      /\ tour \subseteq Places
      /\ s \in Live => players = [players EXCEPT ![s] = players[s]]
  BY GameAssumption DEF IInv, TypeOK
<1>2. ASSUME Refuse(s) PROVE IInv'
  <2>1. s \in Live /\ players' = [players EXCEPT ![s] = p] /\ Tell(s, Frame) /\ UNCHANGED world
    BY <1>1, <1>2 DEF Refuse
  <2> QED BY <1>1, <2>1, MoveStep
<1>3. ASSUME NEW g \in RoomsOf(tour) \cup {Spawn}, Grant(s, g) PROVE IInv'
  <2> DEFINE e == p.entitled \cup {g}
             p1 == [p EXCEPT !.entitled = e]
             p2 == [p1 EXCEPT !.body = TRUE]
             p3 == [p2 EXCEPT !.place = BodySpawn]
             p4 == [p3 EXCEPT !.aloft = FALSE]
  <2>1. s \in Live /\ Tell(s, Frame) /\ UNCHANGED world
        /\ players' = [players EXCEPT ![s] = IF g = Spawn /\ ~p.body THEN p4 ELSE p1]
    BY <1>3 DEF Grant, Granted
  <2>2. e \in SUBSET (Courts \cup {Spawn})
    BY <1>1, <2>1 DEF Player, Courts, RoomsOf
  <2>3. p1 \in Player /\ p1.won = p.won
    BY <1>1, <2>1, <2>2, PlayerUpdates
  <2>4. p2 \in Player /\ p2.won = p.won
    BY <2>3, PlayerUpdates
  <2>5. p3 \in Player /\ p3.won = p.won
    BY <2>4, PlayerUpdates, GameAssumption
  <2>6. p4 \in Player /\ p4.won = p.won
    BY <2>5, PlayerUpdates
  <2> HIDE DEF p1, p4
  <2>7. PICK r \in {p1, p4} : players' = [players EXCEPT ![s] = r]
    BY <2>1
  <2> QED BY <2>1, <2>3, <2>6, <2>7, MoveStep
<1>4. ASSUME NEW q \in Places, Walk(s, q) PROVE IInv'
  <2>1. [p EXCEPT !.place = q] \in Player /\ [p EXCEPT !.place = q].won = p.won
    BY <1>1, <1>4, PlayerUpdates DEF Walk
  <2>2. s \in Live /\ players' = [players EXCEPT ![s] = [p EXCEPT !.place = q]]
        /\ outbox' = outbox /\ UNCHANGED world
    BY <1>4 DEF Walk
  <2> QED BY <2>1, <2>2, MoveStep
<1>5. ASSUME NEW x \in BOOLEAN, s \in Live, outbox' = outbox, UNCHANGED world,
             players' = [players EXCEPT ![s].aloft = x]
      PROVE  IInv'
  <2>1. [p EXCEPT !.aloft = x] \in Player /\ [p EXCEPT !.aloft = x].won = p.won
    BY <1>1, <1>5, PlayerUpdates
  <2>2. players' = [players EXCEPT ![s] = [p EXCEPT !.aloft = x]]
    BY <1>5
  <2> QED BY <1>5, <2>1, <2>2, MoveStep
<1>6. ASSUME NEW x \in BOOLEAN, s \in Live, outbox' = outbox \/ Tell(s, Frame), UNCHANGED world,
             players' = [players EXCEPT ![s].guessed = x]
      PROVE  IInv'
  <2>1. [p EXCEPT !.guessed = x] \in Player /\ [p EXCEPT !.guessed = x].won = p.won
    BY <1>1, <1>6, PlayerUpdates
  <2>2. players' = [players EXCEPT ![s] = [p EXCEPT !.guessed = x]]
    BY <1>6
  <2> QED BY <1>6, <2>1, <2>2, MoveStep
<1>7. ASSUME Jump(s) \/ Land(s) PROVE IInv'
  BY <1>5, <1>7 DEF Jump, Land
<1>8. ASSUME CoolDown(s) PROVE IInv'
  BY <1>6, <1>8 DEF CoolDown
<1>9. ASSUME NEW b \in Riddles, AnswerInVain(s, b) PROVE IInv'
  BY <1>6, <1>9 DEF AnswerInVain, MayAnswer, InReach
<1> QED BY <1>2, <1>3, <1>4, <1>7, <1>8, <1>9

\* A session ends, and the snapshot of a tick.
LEMMA DisconnectKeepsIInv ==
  ASSUME IInv, NEW s \in Sessions, Disconnect(s)
  PROVE  IInv'
<1>1. /\ players' = [t \in Live \ {s} |-> players[t]]
      /\ outbox' = [t \in Live \ {s} |-> outbox[t]]
      /\ s \in Live /\ lost' = lost \cup Undelivered(s)
      /\ UNCHANGED <<tour, used, pocket, claimed, riddleIndex, gachaCount, bells, vault, bellLog>>
  BY DEF Disconnect, Without, IInv, TypeOK
<1>2. Live' = Live \ {s}
  BY <1>1 DEF Live
<1>3. UNION {Undelivered(t) : t \in Live \ Live'} = Undelivered(s)
  BY <1>1, <1>2
<1> QED BY <1>1, <1>2, <1>3, QuietStep DEF IInv, TypeOK, Queues

\* The tick tells every session a frame.
LEMMA TickKeepsIInv ==
  ASSUME IInv, Tick
  PROVE  IInv'
<1>1. TellAll(Frame) /\ players' = players /\ UNCHANGED world /\ TypeOK
  BY DEF Tick, IInv
<1>2. Live' = Live
  BY <1>1 DEF Live
<1>3. lost' = lost \cup UNION {Undelivered(t) : t \in Live \ Live'}
  BY <1>1, <1>2 DEF world
<1> QED BY <1>1, <1>2, <1>3, TellAllKeeps, QuietStep DEF TypeOK, world

\* A new session takes no prize with it.
LEMMA ConnectKeepsIInv ==
  ASSUME IInv, NEW s \in Sessions, Connect(s)
  PROVE  IInv'
<1> USE DEF IInv
<1> DEFINE fresh == [body |-> FALSE, place |-> GhostSpawn, aloft |-> FALSE,
                     entitled |-> {}, won |-> {}, guessed |-> FALSE]
<1>1. /\ s \notin used /\ used' = used \cup {s}
      /\ players' = [t \in Live \cup {s} |-> IF t = s THEN fresh ELSE players[t]]
      /\ outbox' = [t \in Live \cup {s} |-> IF t = s THEN <<>> ELSE outbox[t]]
      /\ UNCHANGED <<tour, pocket, claimed, riddleIndex, gachaCount, bells, vault, lost, bellLog>>
  BY DEF Connect, With, Live, TypeOK
<1>2. Live' = Live \cup {s} /\ s \notin Live
  BY <1>1 DEF Live, TypeOK
<1>3. fresh \in Player
  BY GameAssumption DEF Player
<1> HIDE DEF fresh
<1>4. TypeOK'
  <2>1. players' \in [Live' -> Player]
    BY <1>1, <1>2, <1>3 DEF TypeOK
  <2>2. <<>> \in Seq(Tokens \cup {Frame}) /\ Len(<<>>) = 0
    OBVIOUS
  <2>3. outbox' \in [Live' -> Seq(Tokens \cup {Frame})] /\ \A t \in Live' : Len(outbox'[t]) <= OutboxSize
    BY <1>1, <1>2, <2>2, GameAssumption DEF TypeOK
  <2> QED BY <1>1, <1>2, <2>1, <2>3 DEF TypeOK
<1>5. FileIsStock' /\ UnclaimedIsStocked' /\ BellPressIsPaid'
  BY <1>1 DEF FileIsStock, UnclaimedIsStocked, BellPressIsPaid
<1>6. HeldByOne' /\ WonOnce' /\ PrizeAccounted'
  <2>1. Holds(s) = {} /\ pocket[s] = {}
    BY <1>1, <1>2 DEF WonOnce, Holds
  <2>2. Holds(s)' = {}
    <3>1. ToSet(outbox'[s]) = {}
      BY <1>1 DEF ToSet
    <3> QED BY <1>1, <1>2, <2>1, <3>1 DEF Holds
  <2>3. \A t \in Sessions : t # s => Holds(t)' = Holds(t)
    BY <1>1, <1>2 DEF Holds
  <2>4. \A t \in Sessions : Holds(t)' \subseteq Holds(t) \cup (IF t = s THEN {} ELSE {})
    BY <2>2, <2>3
  <2>5. \A t \in Live' : Holds(t)' = {} \/ (t \in Live /\ players[t].won \subseteq players'[t].won)
    BY <1>1, <1>2, <2>2
  <2>6. /\ used \subseteq used' /\ Live' \subseteq Sessions
        /\ \A l \in Targets : ToSet(vault'[l]) \subseteq ToSet(vault[l]) \ {}
        /\ \A l \in Targets : ToSet(vault[l]) \subseteq ToSet(vault'[l]) \cup {}
    BY <1>1, <1>2, LiveIsKnown
  <2>7. HeldByOne' /\ WonOnce'
    BY <2>4, <2>5, <2>6, PrizesKept
  <2>8. /\ lost' = lost \cup {}
        /\ \A t \in Sessions : Holds(t)' \subseteq Holds(t) \cup {} /\ Holds(t) \subseteq Holds(t)' \cup {}
    BY <1>1, <2>1, <2>2, <2>3
  <2>9. Hands(NoTarget, {}, {})
    BY <2>6, <2>7, <2>8 DEF Hands
  <2> QED BY <2>7, <2>9, StillAccounted
<1> QED BY <1>4, <1>5, <1>6

\* A message leaves the outbox, and a prize goes from there into the pocket.
LEMMA DeliverKeepsIInv ==
  ASSUME IInv, NEW s \in Sessions, Deliver(s)
  PROVE  IInv'
<1> USE DEF IInv
<1> DEFINE q == outbox[s]
           h == {Head(q)} \ {Frame}
<1>1. /\ s \in Live /\ q # <<>> /\ q \in Seq(Tokens \cup {Frame}) /\ Len(q) <= OutboxSize
      /\ outbox' = [outbox EXCEPT ![s] = Tail(q)]
      /\ pocket' = [pocket EXCEPT ![s] = pocket[s] \cup h]
      /\ UNCHANGED <<tour, used, players, claimed, riddleIndex, gachaCount, bells, vault,
                     lost, bellLog>>
  BY DEF Deliver, TypeOK
<1>2. /\ Tail(q) \in Seq(Tokens \cup {Frame}) /\ Len(Tail(q)) <= Len(q)
      /\ Len(Tail(q)) \in Nat /\ Len(q) \in Nat
      /\ Head(q) \in Tokens \cup {Frame} /\ Head(q) \in ToSet(q) /\ ToSet(Tail(q)) \subseteq ToSet(q)
      /\ ToSet(q) \subseteq ToSet(Tail(q)) \cup {Head(q)}
  BY <1>1, Popped
<1>3. Live' = Live
  BY <1>1 DEF Live
<1>4. /\ \A t \in Live : outbox'[t] = IF t = s THEN Tail(q) ELSE outbox[t]
      /\ \A t \in Sessions : pocket'[t] = IF t = s THEN pocket[s] \cup h ELSE pocket[t]
      /\ outbox' \in [Live' -> Seq(Tokens \cup {Frame})]
      /\ pocket' \in [Sessions -> SUBSET Tokens]
  BY <1>1, <1>2, <1>3 DEF TypeOK
<1>5. TypeOK'
  <2>1. \A t \in Live' : Len(outbox'[t]) <= OutboxSize
    BY <1>1, <1>2, <1>3, <1>4, GameAssumption DEF TypeOK
  <2> QED BY <1>1, <1>3, <1>4, <2>1 DEF TypeOK
<1>6. FileIsStock' /\ UnclaimedIsStocked' /\ BellPressIsPaid'
  BY <1>1 DEF FileIsStock, UnclaimedIsStocked, BellPressIsPaid
<1>7. HeldByOne' /\ WonOnce' /\ PrizeAccounted'
  <2>1. \A t \in Sessions : Holds(t)' \subseteq Holds(t) \cup (IF t = s THEN {} ELSE {})
    BY <1>1, <1>2, <1>3, <1>4 DEF Holds
  <2>2. /\ used \subseteq used' /\ Live' \subseteq Sessions
        /\ \A l \in Targets : ToSet(vault'[l]) \subseteq ToSet(vault[l]) \ {}
        /\ \A l \in Targets : ToSet(vault[l]) \subseteq ToSet(vault'[l]) \cup {}
        /\ \A t \in Live' : players[t].won \subseteq players'[t].won
    BY <1>1, <1>3, LiveIsKnown
  <2>3. HeldByOne' /\ WonOnce'
    BY <1>3, <2>1, <2>2, PrizesKept
  <2>4. lost' = lost \cup {} /\ \A t \in Sessions : Holds(t)' \subseteq Holds(t) \cup {}
    BY <1>1, <2>1
  <2>5. \A t \in Sessions : Holds(t) \subseteq Holds(t)' \cup {}
    BY <1>1, <1>2, <1>3, <1>4 DEF Holds
  <2>6. Hands(NoTarget, {}, {})
    BY <2>2, <2>3, <2>4, <2>5 DEF Hands
  <2> QED BY <2>3, <2>6, StillAccounted
<1> QED BY <1>5, <1>6, <1>7

\* A token popped for a session and pushed to it is on its way or lost, and
\* whether it is lost is whether it was dropped.
LEMMA ToldPrize ==
  ASSUME IInv, NEW s \in Sessions, NEW k \in Targets, s \in Live, vault[k] # <<>>, Pop(k),
         Tell(s, Head(vault[k])), lost' = lost \cup Dropped(s, Head(vault[k])),
         Live' = Live, pocket' = pocket
  PROVE  PrizeAccounted' /\ lost' \subseteq Tokens
<1> DEFINE h == Head(vault[k])
           P == {h}
<1>1. /\ h \in Tokens /\ h # Frame /\ P \subseteq ToSet(vault[k])
      /\ \A l \in Targets : ToSet(vault'[l]) \subseteq ToSet(vault[l]) \ P
      /\ \A l \in Targets : ToSet(vault[l]) \subseteq ToSet(vault'[l]) \cup P
  BY PopTakesOne DEF IInv
<1>2. /\ \A t \in Live : ToSet(outbox'[t]) \subseteq ToSet(outbox[t]) \cup (IF t = s THEN P ELSE {})
      /\ \A t \in Live : ToSet(outbox[t]) \subseteq ToSet(outbox'[t])
      /\ \/ Dropped(s, h) = {} /\ h \in ToSet(outbox'[s])
         \/ Dropped(s, h) = P /\ \A t \in Live : outbox'[t] = outbox[t]
  BY <1>1, TellKeeps DEF IInv
<1> HIDE DEF h
<1>3. \A t \in Sessions : Holds(t)' \subseteq Holds(t) \cup P /\ Holds(t) \subseteq Holds(t)'
  BY <1>2 DEF Holds
<1>4. \A t \in Sessions : P \cap Holds(t) = {}
  BY <1>1 DEF IInv, HeldByOne
<1>5. lost \subseteq Tokens
  BY DEF IInv, TypeOK
<1>6. CASE Dropped(s, h) = {} /\ h \in ToSet(outbox'[s])
  <2>1. h \in Holds(s)' /\ lost' = lost \cup {}
    BY <1>1, <1>6 DEF Holds, h
  <2>2. \A t \in Sessions : Holds(t) \subseteq Holds(t)' \cup {}
    BY <1>3
  <2>3. \A x \in P : \E t \in Sessions : x \in Holds(t)'
    BY <2>1
  <2>4. Hands(k, P, {})
    BY <1>1, <1>3, <2>1, <2>2, <2>3 DEF Hands
  <2>5. PrizeAccounted'
    BY <2>4, StillAccounted
  <2> QED BY <1>5, <2>1, <2>5
<1>7. CASE Dropped(s, h) = P /\ \A t \in Live : outbox'[t] = outbox[t]
  <2>1. \A t \in Sessions : Holds(t)' = Holds(t)
    BY <1>7 DEF Holds
  <2>2. lost' = lost \cup P /\ \A t \in Sessions : P \cap Holds(t)' = {}
    BY <1>4, <1>7, <2>1 DEF h
  <2>3. \A t \in Sessions : Holds(t)' \subseteq Holds(t) \cup P /\ Holds(t) \subseteq Holds(t)' \cup P
    BY <2>1
  <2>4. Hands(k, P, P)
    BY <1>1, <2>2, <2>3 DEF Hands
  <2>5. PrizeAccounted'
    BY <2>4, StillAccounted
  <2> QED BY <1>1, <1>5, <2>2, <2>5
<1> QED BY <1>2, <1>6, <1>7

\* The chest's token goes to the claimant, if the outbox has room.
LEMMA ClaimChestKeepsIInv ==
  ASSUME IInv, NEW s \in Sessions, NEW c \in Chests, ClaimChest(s, c)
  PROVE  IInv'
<1> USE DEF IInv
<1> DEFINE P == {Head(vault[c])}
<1>1. /\ s \in Live /\ vault[c] # <<>> /\ Pop(c) /\ c \in Targets /\ c \notin Riddles
      /\ claimed' = [claimed EXCEPT ![c] = TRUE]
      /\ Tell(s, Head(vault[c])) /\ lost' = lost \cup Dropped(s, Head(vault[c]))
      /\ UNCHANGED <<tour, used, players, pocket, riddleIndex, gachaCount, bells, bellLog>>
  BY GameAssumption DEF ClaimChest, InReach, Targets, Booths
<1>2. /\ vault' \in [Targets -> Seq(Tokens)] /\ FileIsStock'
      /\ Head(vault[c]) \in Tokens /\ Head(vault[c]) # Frame
      /\ P \subseteq ToSet(vault[c])
      /\ \A l \in Targets : ToSet(vault'[l]) \subseteq ToSet(vault[l]) \ P
      /\ \A l \in Targets : l # c => vault'[l] = vault[l]
  BY <1>1, PopTakesOne
<1>3. /\ outbox' \in Queues(Live) /\ \A t \in Live : Len(outbox'[t]) <= OutboxSize
      /\ \A t \in Live : ToSet(outbox'[t]) \subseteq ToSet(outbox[t]) \cup (IF t = s THEN P ELSE {})
  BY <1>1, <1>2, TellKeeps
<1>4. Live' = Live
  BY <1>1 DEF Live
<1>5. PrizeAccounted' /\ lost' \subseteq Tokens
  BY <1>1, <1>4, ToldPrize
<1>6. TypeOK'
  BY <1>1, <1>2, <1>3, <1>4, <1>5 DEF TypeOK, Queues
<1>7. UnclaimedIsStocked' /\ BellPressIsPaid'
  <2>1. \A d \in Chests : ~claimed'[d] => d # c /\ ~claimed[d] /\ d \in Targets
    BY <1>1 DEF TypeOK, Targets
  <2>2. UnclaimedIsStocked'
    BY <1>2, <2>1 DEF UnclaimedIsStocked
  <2> QED BY <1>1, <2>2 DEF BellPressIsPaid
<1>8. HeldByOne' /\ WonOnce'
  <2>1. \A t \in Sessions : Holds(t)' \subseteq Holds(t) \cup (IF t = s THEN P ELSE {})
    BY <1>1, <1>3, <1>4 DEF Holds
  <2>2. /\ used \subseteq used' /\ Live' \subseteq Sessions /\ s \in Sessions \cap used'
        /\ \A t \in Live' : t \in Live /\ players[t].won \subseteq players'[t].won
    BY <1>1, <1>4, LiveIsKnown
  <2> QED BY <1>1, <1>2, <2>1, <2>2, PrizesKept
<1> QED BY <1>2, <1>6, <1>7, <1>8, <1>5

\* The answer advances the riddle, and the token, if there is one, goes to a
\* session that had not won.
LEMMA AnswerRightKeepsIInv ==
  ASSUME IInv, NEW s \in Sessions, NEW b \in Riddles, NEW i \in 0 .. RiddleCount - 1,
         AnswerRight(s, b, i)
  PROVE  IInv'
<1> USE DEF IInv
<1> DEFINE p == players[s]
           p1 == [p EXCEPT !.guessed = TRUE]
           p2 == [p1 EXCEPT !.won = p.won \cup {b}]
<1>1. /\ s \in Live /\ b \notin p.won /\ p \in Player
      /\ b \in Targets /\ b \notin Chests
      /\ UNCHANGED <<tour, used, pocket, claimed, gachaCount, bells, bellLog>>
  BY GameAssumption DEF AnswerRight, MayAnswer, InReach, Targets, Booths, TypeOK
<1>2. players' = [players EXCEPT ![s] = p2] /\ riddleIndex' = (riddleIndex + 1) % RiddleCount
  BY <1>1 DEF AnswerRight, Solved, TypeOK
<1>3. p1 \in Player /\ p1.won = p.won /\ p.won \in SUBSET Riddles
  BY <1>1, PlayerUpdates DEF Player
<1>4. p2 \in Player /\ p2.won = p.won \cup {b}
  <2>1. \A x \in SUBSET Riddles : [p1 EXCEPT !.won = x] \in Player /\ [p1 EXCEPT !.won = x].won = x
    BY <1>3, PlayerUpdates
  <2>2. p.won \cup {b} \in SUBSET Riddles
    BY <1>3
  <2> QED BY <2>1, <2>2
<1> HIDE DEF p1, p2
<1>5. Live' = Live /\ players' \in [Live' -> Player]
      /\ \A t \in Live : players'[t] = IF t = s THEN p2 ELSE players[t]
  BY <1>1, <1>2, <1>4 DEF Live, TypeOK
<1>6. riddleIndex' \in 0 .. RiddleCount - 1
  BY <1>2, GameAssumption DEF TypeOK
<1>7. /\ used \subseteq used' /\ Live' \subseteq Sessions /\ s \in Sessions \cap used'
      /\ \A t \in Live' : t \in Live /\ players[t].won \subseteq players'[t].won
      /\ b \in players'[s].won
  BY <1>1, <1>4, <1>5, LiveIsKnown
<1>8. BellPressIsPaid'
  BY <1>1 DEF BellPressIsPaid
<1>9. CASE /\ vault[b] # <<>> /\ Pop(b) /\ Tell(s, Head(vault[b]))
           /\ lost' = lost \cup Dropped(s, Head(vault[b]))
  <2> DEFINE P == {Head(vault[b])}
  <2>1. /\ vault' \in [Targets -> Seq(Tokens)] /\ FileIsStock'
        /\ Head(vault[b]) \in Tokens /\ Head(vault[b]) # Frame
        /\ P \subseteq ToSet(vault[b])
        /\ \A l \in Targets : ToSet(vault'[l]) \subseteq ToSet(vault[l]) \ P
        /\ \A l \in Targets : l # b => vault'[l] = vault[l]
    BY <1>1, <1>9, PopTakesOne
  <2>2. /\ outbox' \in Queues(Live) /\ \A t \in Live : Len(outbox'[t]) <= OutboxSize
        /\ \A t \in Live : ToSet(outbox'[t]) \subseteq ToSet(outbox[t]) \cup (IF t = s THEN P ELSE {})
    BY <1>1, <1>9, <2>1, TellKeeps
  <2>3. PrizeAccounted' /\ lost' \subseteq Tokens
    BY <1>1, <1>5, <1>9, ToldPrize
  <2>4. TypeOK'
    BY <1>1, <1>5, <1>6, <2>1, <2>2, <2>3 DEF TypeOK, Queues
  <2>5. UnclaimedIsStocked'
    BY <1>1, <2>1 DEF UnclaimedIsStocked, Targets
  <2>6. \A t \in Sessions : Holds(t)' \subseteq Holds(t) \cup (IF t = s THEN P ELSE {})
    BY <1>1, <1>5, <2>2 DEF Holds
  <2>7. HeldByOne' /\ WonOnce'
    BY <1>1, <1>7, <2>1, <2>6, PrizesKept
  <2> QED BY <1>8, <2>1, <2>4, <2>5, <2>7, <2>3
<1>10. CASE Tell(s, Frame) /\ UNCHANGED <<vault, lost>>
  <2>1. /\ outbox' \in Queues(Live) /\ \A t \in Live : Len(outbox'[t]) <= OutboxSize
        /\ \A t \in Live : ToSet(outbox'[t]) \subseteq ToSet(outbox[t]) \cup {Frame}
        /\ \A t \in Live : ToSet(outbox[t]) \subseteq ToSet(outbox'[t])
    BY <1>1, <1>10, TellKeeps
  <2>2. TypeOK'
    BY <1>1, <1>5, <1>6, <1>10, <2>1 DEF TypeOK, Queues
  <2>3. FileIsStock' /\ UnclaimedIsStocked'
    BY <1>1, <1>10 DEF FileIsStock, UnclaimedIsStocked
  <2>4. \A t \in Sessions : Holds(t)' \subseteq Holds(t) \cup (IF t = s THEN {} ELSE {})
    BY <1>1, <1>5, <2>1 DEF Holds
  <2>5. \A l \in Targets : ToSet(vault'[l]) \subseteq ToSet(vault[l]) \ {}
    BY <1>10
  <2>6. HeldByOne' /\ WonOnce'
    BY <1>7, <2>4, <2>5, PrizesKept
  <2>7. PrizeAccounted'
    <3>1. /\ \A t \in Sessions : Holds(t)' \subseteq Holds(t) \cup {}
          /\ \A t \in Sessions : Holds(t) \subseteq Holds(t)' \cup {}
      BY <1>1, <1>5, <2>1, <2>4 DEF Holds
    <3>2. /\ lost' = lost \cup {}
          /\ \A l \in Targets : ToSet(vault[l]) \subseteq ToSet(vault'[l]) \cup {}
      BY <1>10
    <3>3. Hands(NoTarget, {}, {})
      BY <2>5, <3>1, <3>2 DEF Hands
    <3> QED BY <3>3, StillAccounted
  <2> QED BY <1>8, <2>2, <2>3, <2>6, <2>7
<1> QED BY <1>9, <1>10 DEF AnswerRight

\* The pull is counted, and the prize of a win goes out in the answer or with it.
LEMMA PlayGachaKeepsIInv ==
  ASSUME IInv, NEW s \in Sessions, NEW b \in Gachas, PlayGacha(s, b)
  PROVE  IInv'
<1> USE DEF IInv
<1>1. /\ gachaCount < MaxPulls /\ s \in Live /\ gachaCount' = gachaCount + 1
      /\ b \in Targets /\ b \notin Chests /\ b \notin Riddles
      /\ UNCHANGED <<tour, used, players, outbox, claimed, riddleIndex, bells, bellLog>>
  BY GameAssumption DEF PlayGacha, InReach, Targets, Booths
<1>2. Live' = Live /\ gachaCount \in Nat
  BY <1>1 DEF Live, TypeOK
<1>3. gachaCount' \in 0 .. MaxPulls
  BY <1>1, <1>2, GameAssumption
<1>4. BellPressIsPaid'
  BY <1>1 DEF BellPressIsPaid
<1>5. /\ used \subseteq used' /\ Live' \subseteq Sessions /\ s \in Sessions \cap used'
      /\ \A t \in Live' : t \in Live /\ players[t].won \subseteq players'[t].won
  BY <1>1, <1>2, LiveIsKnown
<1>6. CASE /\ vault[b] # <<>> /\ Pop(b)
           /\ \/ Answered(s, Head(vault[b])) /\ UNCHANGED lost
              \/ lost' = lost \cup {Head(vault[b])} /\ UNCHANGED pocket
  <2> DEFINE P == {Head(vault[b])}
  <2>1. /\ vault' \in [Targets -> Seq(Tokens)] /\ FileIsStock'
        /\ Head(vault[b]) \in Tokens /\ P \subseteq ToSet(vault[b])
        /\ \A l \in Targets : ToSet(vault'[l]) \subseteq ToSet(vault[l]) \ P
        /\ \A l \in Targets : ToSet(vault[l]) \subseteq ToSet(vault'[l]) \cup P
        /\ \A l \in Targets : l # b => vault'[l] = vault[l]
    BY <1>1, <1>6, PopTakesOne
  <2>2. PICK P1 \in {P, {}}, L \in {P, {}} :
          /\ P1 \cap L = {} /\ P \subseteq P1 \cup L /\ lost' = lost \cup L
          /\ pocket' = [pocket EXCEPT ![s] = pocket[s] \cup P1]
    <3>1. CASE Answered(s, Head(vault[b])) /\ UNCHANGED lost
      <4>1. /\ P \cap {} = {} /\ P \subseteq P \cup {} /\ lost' = lost \cup {}
            /\ pocket' = [pocket EXCEPT ![s] = pocket[s] \cup P]
        BY <3>1 DEF Answered
      <4> QED BY <4>1
    <3>2. CASE lost' = lost \cup {Head(vault[b])} /\ UNCHANGED pocket
      <4>1. /\ {} \cap P = {} /\ P \subseteq {} \cup P /\ lost' = lost \cup P
            /\ pocket' = [pocket EXCEPT ![s] = pocket[s] \cup {}]
        BY <3>2 DEF TypeOK
      <4> QED BY <4>1
    <3> QED BY <1>6, <3>1, <3>2
  <2>3. pocket' \in [Sessions -> SUBSET Tokens]
        /\ \A t \in Sessions : pocket'[t] = pocket[t] \cup (IF t = s THEN P1 ELSE {})
    BY <2>1, <2>2 DEF TypeOK
  <2>4. lost' \subseteq Tokens
    BY <2>1, <2>2 DEF TypeOK
  <2>5. TypeOK'
    BY <1>1, <1>2, <1>3, <2>1, <2>3, <2>4 DEF TypeOK
  <2>6. UnclaimedIsStocked'
    BY <1>1, <2>1 DEF UnclaimedIsStocked, Targets
  <2>7. \A t \in Sessions : Holds(t)' = Holds(t) \cup (IF t = s THEN P1 ELSE {})
    BY <1>1, <1>2, <2>3 DEF Holds
  <2> HIDE DEF P
  <2>8. \A t \in Sessions : Holds(t)' \subseteq Holds(t) \cup (IF t = s THEN P ELSE {})
    BY <2>2, <2>7
  <2>9. \A x, y \in P : x = y
    BY DEF P
  <2>10. HeldByOne' /\ WonOnce'
    BY <1>1, <1>5, <2>1, <2>8, <2>9, PrizesKept
  <2>11. PrizeAccounted'
    <3>1. \A t \in Sessions : P \cap Holds(t) = {}
      BY <1>1, <2>1 DEF HeldByOne
    <3>2. \A t \in Sessions : Holds(t) \subseteq Holds(t)' \cup L /\ Holds(t)' \subseteq Holds(t) \cup P
      BY <2>7, <2>8
    <3>3. \A t \in Sessions : L \cap Holds(t)' = {}
      BY <2>2, <2>7, <3>1
    <3>4. \A x \in P : x \in L \/ \E t \in Sessions : x \in Holds(t)'
      BY <2>2, <2>7
    <3>5. \A x \in L : x \in P
      BY <2>2
    <3>6. Hands(b, P, L)
      BY <1>1, <2>1, <2>2, <3>2, <3>3, <3>4, <3>5 DEF Hands
    <3> QED BY <3>6, StillAccounted
  <2> QED BY <1>4, <2>1, <2>5, <2>6, <2>10, <2>11
<1>7. CASE UNCHANGED <<vault, pocket, lost>>
  <2>1. TypeOK'
    BY <1>1, <1>2, <1>3, <1>7 DEF TypeOK
  <2>2. FileIsStock' /\ UnclaimedIsStocked'
    BY <1>1, <1>7 DEF FileIsStock, UnclaimedIsStocked
  <2>3. /\ \A t \in Sessions : Holds(t)' \subseteq Holds(t) \cup (IF t = s THEN {} ELSE {})
        /\ \A l \in Targets : ToSet(vault'[l]) \subseteq ToSet(vault[l]) \ {}
        /\ \A l \in Targets : ToSet(vault[l]) \subseteq ToSet(vault'[l]) \cup {}
        /\ \A t \in Sessions : Holds(t)' = Holds(t)
    BY <1>1, <1>2, <1>7 DEF Holds
  <2>4. HeldByOne' /\ WonOnce'
    BY <1>5, <2>3, PrizesKept
  <2>5. PrizeAccounted'
    <3>1. /\ lost' = lost \cup {} /\ \A t \in Sessions : Holds(t)' \subseteq Holds(t) \cup {}
          /\ \A t \in Sessions : Holds(t) \subseteq Holds(t)' \cup {}
      BY <1>7, <2>3
    <3>2. Hands(NoTarget, {}, {})
      BY <2>3, <3>1 DEF Hands
    <3> QED BY <3>2, StillAccounted
  <2> QED BY <1>4, <2>1, <2>2, <2>4, <2>5
<1> QED BY <1>6, <1>7 DEF PlayGacha

\* A step of the bell's own state.
LEMMA BellStep ==
  ASSUME IInv,
         UNCHANGED <<tour, used, players, outbox, pocket, claimed, riddleIndex, gachaCount,
                     vault, lost>>,
         DOMAIN bells' \subseteq used, \A t \in DOMAIN bells' : bells'[t] \in {"live", "expired"},
         bellLog' \in [Sessions -> [started : 0 .. MaxPlays, judged : Nat]],
         BellPressIsPaid'
  PROVE  IInv'
<1> USE DEF IInv
<1>1. Live' = Live
  BY DEF Live
<1>2. TypeOK'
  BY <1>1 DEF TypeOK
<1>3. FileIsStock' /\ UnclaimedIsStocked'
  BY DEF FileIsStock, UnclaimedIsStocked
<1>4. HeldByOne' /\ WonOnce'
  BY <1>1 DEF HeldByOne, WonOnce, Holds
<1>5. PrizeAccounted'
  BY <1>1 DEF PrizeAccounted, AllHeld, Holds
<1> QED BY <1>2, <1>3, <1>4, <1>5

\* What a session's log of plays and presses is after a change of one number.
LEMMA BellLogUpdates ==
  ASSUME TypeOK, NEW s \in Sessions
  PROVE  /\ bellLog[s].judged \in Nat /\ bellLog[s].started \in 0 .. MaxPlays
         /\ \A x \in 0 .. MaxPlays :
              LET log == [bellLog EXCEPT ![s].started = x]
              IN /\ log \in [Sessions -> [started : 0 .. MaxPlays, judged : Nat]]
                 /\ \A t \in Sessions :
                      /\ log[t].judged = bellLog[t].judged
                      /\ log[t].started = IF t = s THEN x ELSE bellLog[t].started
         /\ \A x \in Nat :
              LET log == [bellLog EXCEPT ![s].judged = x]
              IN /\ log \in [Sessions -> [started : 0 .. MaxPlays, judged : Nat]]
                 /\ \A t \in Sessions :
                      /\ log[t].started = bellLog[t].started
                      /\ log[t].judged = IF t = s THEN x ELSE bellLog[t].judged
  BY DEF TypeOK

\* A play that starts, and one that ends without a verdict.
LEMMA BellKeepsIInv ==
  ASSUME IInv, NEW s \in Sessions,
         (\E b \in Bells : PlayBellStart(s, b)) \/ BellExpires(s) \/ PressExpired(s)
  PROVE  IInv'
<1> USE DEF IInv
<1>1. /\ DOMAIN bells \subseteq used /\ Live \subseteq used
      /\ \A t \in DOMAIN bells : bells[t] \in {"live", "expired"}
  BY DEF TypeOK
<1>2. \A t \in Sessions : bellLog[t].judged \in Nat /\ bellLog[t].started \in Nat
  BY GameAssumption DEF TypeOK
<1>3. ASSUME NEW b \in Bells, PlayBellStart(s, b) PROVE IInv'
  <2> DEFINE x == bellLog[s].started + 1
  <2>1. /\ s \in Live /\ bellLog[s].started < MaxPlays
        /\ bells' = [t \in DOMAIN bells \cup {s} |-> IF t = s THEN "live" ELSE bells[t]]
        /\ bellLog' = [bellLog EXCEPT ![s].started = x]
        /\ UNCHANGED <<tour, used, players, outbox, pocket, claimed, riddleIndex, gachaCount,
                       vault, lost>>
    BY <1>3 DEF PlayBellStart, InReach, With
  <2>2. x \in 0 .. MaxPlays
    BY <1>2, <2>1, GameAssumption
  <2>3. /\ bellLog' \in [Sessions -> [started : 0 .. MaxPlays, judged : Nat]]
        /\ \A t \in Sessions :
             /\ bellLog'[t].judged = bellLog[t].judged
             /\ bellLog'[t].started = IF t = s THEN x ELSE bellLog[t].started
    BY <2>1, <2>2, BellLogUpdates
  <2>4. DOMAIN bells' = DOMAIN bells \cup {s}
        /\ \A t \in DOMAIN bells' : bells'[t] \in {"live", "expired"}
    BY <1>1, <2>1
  <2>5. BellPressIsPaid'
    <3> SUFFICES ASSUME NEW t \in Sessions
                 PROVE  bellLog'[t].judged + (IF t \in DOMAIN bells' THEN 1 ELSE 0)
                          <= bellLog'[t].started
      BY DEF BellPressIsPaid
    <3>1. bellLog[t].judged + (IF t \in DOMAIN bells THEN 1 ELSE 0) <= bellLog[t].started
      BY DEF BellPressIsPaid
    <3> QED BY <1>2, <2>3, <2>4, <3>1
  <2>6. DOMAIN bells' \subseteq used
    BY <1>1, <2>1, <2>4
  <2>7. bellLog' \in [Sessions -> [started : 0 .. MaxPlays, judged : Nat]]
    BY <2>3
  <2> QED BY <2>1, <2>4, <2>5, <2>6, <2>7, BellStep
<1>4. ASSUME BellExpires(s) PROVE IInv'
  <2>1. /\ bells' = [bells EXCEPT ![s] = "expired"] /\ s \in DOMAIN bells /\ bellLog' = bellLog
        /\ UNCHANGED <<tour, used, players, outbox, pocket, claimed, riddleIndex, gachaCount,
                       vault, lost>>
    BY <1>4 DEF BellExpires
  <2>2. DOMAIN bells' = DOMAIN bells /\ \A t \in DOMAIN bells' : bells'[t] \in {"live", "expired"}
    BY <1>1, <2>1
  <2>3. BellPressIsPaid' /\ bellLog' \in [Sessions -> [started : 0 .. MaxPlays, judged : Nat]]
    BY <2>1, <2>2 DEF BellPressIsPaid, TypeOK
  <2> QED BY <1>1, <2>1, <2>2, <2>3, BellStep
<1>5. ASSUME PressExpired(s) PROVE IInv'
  <2>1. /\ bells' = [t \in DOMAIN bells \ {s} |-> bells[t]] /\ bellLog' = bellLog
        /\ UNCHANGED <<tour, used, players, outbox, pocket, claimed, riddleIndex, gachaCount,
                       vault, lost>>
    BY <1>5 DEF PressExpired, Without
  <2>2. DOMAIN bells' = DOMAIN bells \ {s}
        /\ \A t \in DOMAIN bells' : bells'[t] \in {"live", "expired"}
    BY <1>1, <2>1
  <2>3. BellPressIsPaid'
    <3> SUFFICES ASSUME NEW t \in Sessions
                 PROVE  bellLog'[t].judged + (IF t \in DOMAIN bells' THEN 1 ELSE 0)
                          <= bellLog'[t].started
      BY DEF BellPressIsPaid
    <3>1. bellLog[t].judged + (IF t \in DOMAIN bells THEN 1 ELSE 0) <= bellLog[t].started
      BY DEF BellPressIsPaid
    <3> QED BY <1>2, <2>1, <2>2, <3>1
  <2>4. bellLog' \in [Sessions -> [started : 0 .. MaxPlays, judged : Nat]]
    BY <2>1 DEF TypeOK
  <2> QED BY <1>1, <2>1, <2>2, <2>3, <2>4, BellStep
<1> QED BY <1>3, <1>4, <1>5

\* A judged press takes the play with it, and a hit pays its one token twice
\* to one session.
LEMMA PlayBellPressKeepsIInv ==
  ASSUME IInv, NEW s \in Sessions, NEW b \in Bells, PlayBellPress(s, b)
  PROVE  IInv'
<1> USE DEF IInv
<1> DEFINE x == bellLog[s].judged + 1
<1>1. /\ s \in Live /\ s \in DOMAIN bells /\ b \in Targets /\ b \notin Chests /\ b \notin Riddles
      /\ bells' = [t \in DOMAIN bells \ {s} |-> bells[t]]
      /\ bellLog' = [bellLog EXCEPT ![s].judged = x]
      /\ UNCHANGED <<tour, used, players, claimed, riddleIndex, gachaCount>>
  BY GameAssumption DEF PlayBellPress, Without, Targets, Booths
<1>2. Live' = Live
  BY <1>1 DEF Live
<1>3. \A t \in Sessions : bellLog[t].judged \in Nat /\ bellLog[t].started \in Nat
  BY GameAssumption DEF TypeOK
<1>4. DOMAIN bells' = DOMAIN bells \ {s} /\ DOMAIN bells' \subseteq used
      /\ \A t \in DOMAIN bells' : bells'[t] \in {"live", "expired"}
  BY <1>1 DEF TypeOK
<1>5. x \in Nat
  BY <1>3
<1>6. /\ bellLog' \in [Sessions -> [started : 0 .. MaxPlays, judged : Nat]]
      /\ \A t \in Sessions :
           /\ bellLog'[t].started = bellLog[t].started
           /\ bellLog'[t].judged = IF t = s THEN x ELSE bellLog[t].judged
  BY <1>1, <1>5, BellLogUpdates
<1>7. BellPressIsPaid'
  <2> SUFFICES ASSUME NEW t \in Sessions
               PROVE  bellLog'[t].judged + (IF t \in DOMAIN bells' THEN 1 ELSE 0)
                        <= bellLog'[t].started
    BY DEF BellPressIsPaid
  <2>1. bellLog[t].judged + (IF t \in DOMAIN bells THEN 1 ELSE 0) <= bellLog[t].started
    BY DEF BellPressIsPaid
  <2> QED BY <1>1, <1>3, <1>4, <1>6, <2>1
<1> HIDE DEF x
<1>8. /\ used \subseteq used' /\ Live' \subseteq Sessions /\ s \in Sessions \cap used'
      /\ \A t \in Live' : t \in Live /\ players[t].won \subseteq players'[t].won
  BY <1>1, <1>2, LiveIsKnown
<1>9. CASE /\ vault[b] # <<>> /\ Pop(b)
            /\ \/ Answered(s, Head(vault[b])) /\ UNCHANGED lost
               \/ lost' = lost \cup Dropped(s, Head(vault[b])) /\ UNCHANGED pocket
            /\ outbox' = [t \in Live |->
                 Pushed(IF t = s THEN Pushed(outbox[t], Head(vault[b])) ELSE outbox[t], Frame)]
  <2> DEFINE h == Head(vault[b])
             P == {h}
             q(t) == IF t = s THEN Pushed(outbox[t], h) ELSE outbox[t]
  <2>1. /\ vault' \in [Targets -> Seq(Tokens)] /\ FileIsStock'
        /\ h \in Tokens /\ P \subseteq ToSet(vault[b])
        /\ \A l \in Targets : ToSet(vault'[l]) \subseteq ToSet(vault[l]) \ P
        /\ \A l \in Targets : ToSet(vault[l]) \subseteq ToSet(vault'[l]) \cup P
        /\ \A l \in Targets : l # b => vault'[l] = vault[l]
    BY <1>1, <1>9, PopTakesOne
  <2>2. /\ pocket' \in [Sessions -> SUBSET Tokens] /\ lost' \subseteq Tokens
        /\ \A t \in Sessions : pocket[t] \subseteq pocket'[t]
        /\ \A t \in Sessions : pocket'[t] \subseteq pocket[t] \cup (IF t = s THEN P ELSE {})
    <3>1. pocket \in [Sessions -> SUBSET Tokens] /\ lost \subseteq Tokens
      BY DEF TypeOK
    <3>2. CASE Answered(s, h) /\ UNCHANGED lost
      <4>1. pocket' = [pocket EXCEPT ![s] = pocket[s] \cup P]
        BY <3>2 DEF Answered
      <4> HIDE DEF P
      <4>2. P \subseteq Tokens
        BY <2>1 DEF P
      <4> QED BY <3>1, <3>2, <4>1, <4>2
    <3>3. CASE lost' = lost \cup Dropped(s, h) /\ UNCHANGED pocket
      <4>1. Dropped(s, h) \subseteq Tokens
        BY <2>1 DEF Dropped
      <4> QED BY <3>1, <3>3, <4>1
    <3> QED BY <1>9, <3>2, <3>3
  <2>3. ASSUME NEW t \in Live
        PROVE  /\ q(t) \in Seq(Tokens \cup {Frame}) /\ Len(q(t)) <= OutboxSize
               /\ ToSet(q(t)) \subseteq ToSet(outbox[t]) \cup (IF t = s THEN P ELSE {})
               /\ ToSet(outbox[t]) \subseteq ToSet(q(t))
               /\ t = s /\ Dropped(s, h) = {} => h \in ToSet(q(t))
               /\ t = s /\ Dropped(s, h) # {} => q(t) = outbox[t]
    <3>1. outbox[t] \in Seq(Tokens \cup {Frame}) /\ Len(outbox[t]) <= OutboxSize
          /\ h \in Tokens \cup {Frame}
      BY <2>1 DEF TypeOK
    <3>2. CASE t = s
      <4>1. q(t) = Pushed(outbox[t], h)
        BY <3>2
      <4>2. /\ Dropped(s, h) = {} => Len(outbox[t]) < OutboxSize
            /\ Dropped(s, h) # {} => ~(Len(outbox[t]) < OutboxSize)
        BY <3>2 DEF Dropped
      <4> HIDE DEF q
      <4> QED BY <3>1, <3>2, <4>1, <4>2, PushedKeeps
    <3>3. CASE t # s
      BY <3>1, <3>3
    <3> QED BY <3>2, <3>3
  <2>4. ASSUME NEW t \in Live
        PROVE  /\ outbox'[t] \in Seq(Tokens \cup {Frame}) /\ Len(outbox'[t]) <= OutboxSize
               /\ ToSet(outbox'[t]) \subseteq ToSet(outbox[t]) \cup (IF t = s THEN P ELSE {}) \cup {Frame}
               /\ ToSet(outbox[t]) \subseteq ToSet(outbox'[t])
               /\ t = s /\ Dropped(s, h) = {} => h \in ToSet(outbox'[t])
               /\ t = s /\ Dropped(s, h) # {} => ToSet(outbox'[t]) \subseteq ToSet(outbox[t]) \cup {Frame}
    <3>1. outbox'[t] = Pushed(q(t), Frame)
      BY <1>9
    <3> HIDE DEF q
    <3>2. /\ Pushed(q(t), Frame) \in Seq(Tokens \cup {Frame})
          /\ Len(Pushed(q(t), Frame)) <= OutboxSize
          /\ ToSet(Pushed(q(t), Frame)) \subseteq ToSet(q(t)) \cup {Frame}
          /\ ToSet(q(t)) \subseteq ToSet(Pushed(q(t), Frame))
      BY <2>3, PushedKeeps
    <3> QED BY <2>3, <3>1, <3>2
  <2>5. outbox' \in [Live' -> Seq(Tokens \cup {Frame})]
    BY <1>2, <1>9, <2>4
  <2>6. TypeOK'
    BY <1>1, <1>2, <1>4, <1>6, <2>1, <2>2, <2>4, <2>5 DEF TypeOK
  <2>7. UnclaimedIsStocked'
    BY <1>1, <2>1 DEF UnclaimedIsStocked, Targets
  <2>8. \A t \in Sessions : Holds(t)' \subseteq Holds(t) \cup (IF t = s THEN P ELSE {})
    BY <1>1, <1>2, <2>2, <2>4 DEF Holds
  <2>9. HeldByOne' /\ WonOnce'
    BY <1>1, <1>8, <2>1, <2>8, PrizesKept
  <2>10. PrizeAccounted'
    <3> HIDE DEF h
    <3>1. h # Frame
      BY <2>1, GameAssumption
    <3>2. \A t \in Sessions : P \cap Holds(t) = {}
      BY <1>1, <2>1 DEF HeldByOne
    <3>3. \A t \in Sessions : Holds(t) \subseteq Holds(t)'
      BY <1>1, <1>2, <2>2, <2>4 DEF Holds
    <3>4. \A t \in Sessions : Holds(t)' \subseteq Holds(t) \cup P
      BY <2>8
    <3>5. CASE \/ Answered(s, h) /\ UNCHANGED lost
               \/ lost' = lost \cup Dropped(s, h) /\ Dropped(s, h) = {}
      <4>1. lost' = lost \cup {}
        BY <3>5
      <4>2. h \in Holds(s)'
        <5>1. CASE Answered(s, h)
          BY <5>1 DEF Answered, Holds, TypeOK
        <5>2. CASE Dropped(s, h) = {}
          BY <1>1, <1>2, <2>4, <3>1, <5>2 DEF Holds
        <5> QED BY <3>5, <5>1, <5>2
      <4>3. \A t \in Sessions : Holds(t) \subseteq Holds(t)' \cup {}
        BY <3>3
      <4>4. \A y \in P : \E t \in Sessions : y \in Holds(t)'
        BY <4>2
      <4>5. Hands(b, P, {})
        BY <1>1, <2>1, <3>4, <4>1, <4>3, <4>4 DEF Hands
      <4> QED BY <4>5, StillAccounted
    <3>6. CASE lost' = lost \cup Dropped(s, h) /\ Dropped(s, h) # {} /\ UNCHANGED pocket
      <4>1. lost' = lost \cup P
        BY <3>6 DEF Dropped
      <4>2. \A t \in Sessions : Holds(t)' \subseteq Holds(t)
        BY <1>1, <1>2, <2>4, <3>6 DEF Holds
      <4>3. \A t \in Sessions : P \cap Holds(t)' = {} /\ Holds(t) \subseteq Holds(t)' \cup P
        BY <3>2, <3>3, <4>2
      <4>4. Hands(b, P, P)
        BY <1>1, <2>1, <3>4, <4>1, <4>3 DEF Hands
      <4> QED BY <4>4, StillAccounted
    <3> QED BY <1>9, <3>5, <3>6 DEF h
  <2> QED BY <1>7, <2>1, <2>6, <2>7, <2>9, <2>10
<1>10. CASE TellAll(Frame) /\ UNCHANGED <<vault, pocket, lost>>
  <2>1. /\ outbox' \in Queues(Live) /\ \A t \in Live : Len(outbox'[t]) <= OutboxSize
        /\ \A t \in Live : ToSet(outbox'[t]) \subseteq ToSet(outbox[t]) \cup {Frame}
        /\ \A t \in Live : ToSet(outbox[t]) \subseteq ToSet(outbox'[t])
    BY <1>10, TellAllKeeps
  <2>2. TypeOK'
    BY <1>1, <1>2, <1>4, <1>6, <1>10, <2>1 DEF TypeOK, Queues
  <2>3. FileIsStock' /\ UnclaimedIsStocked'
    BY <1>1, <1>10 DEF FileIsStock, UnclaimedIsStocked
  <2>4. /\ \A t \in Sessions : Holds(t)' \subseteq Holds(t) \cup (IF t = s THEN {} ELSE {})
        /\ \A l \in Targets : ToSet(vault'[l]) \subseteq ToSet(vault[l]) \ {}
    BY <1>1, <1>2, <1>10, <2>1 DEF Holds
  <2>5. HeldByOne' /\ WonOnce'
    BY <1>8, <2>4, PrizesKept
  <2>6. PrizeAccounted'
    <3>1. /\ \A t \in Sessions : Holds(t)' \subseteq Holds(t) \cup {}
          /\ \A t \in Sessions : Holds(t) \subseteq Holds(t)' \cup {}
      BY <1>1, <1>2, <1>10, <2>1, <2>4 DEF Holds
    <3> HIDE DEF x
    <3>2. /\ lost' = lost \cup {}
          /\ \A l \in Targets : ToSet(vault[l]) \subseteq ToSet(vault'[l]) \cup {}
      BY <1>10
    <3>3. Hands(NoTarget, {}, {})
      BY <2>4, <3>1, <3>2 DEF Hands
    <3> QED BY <3>3, StillAccounted
  <2> QED BY <1>7, <2>2, <2>3, <2>5, <2>6
<1> QED BY <1>9, <1>10 DEF PlayBellPress

\* A restart forgets the sessions and counts from 0; the file and what the
\* clients received stay, but for a token that a dying pop takes along.
LEMMA CrashKeepsIInv ==
  ASSUME IInv, Crash
  PROVE  IInv'
<1> USE DEF IInv
<1>1. /\ players' = << >> /\ outbox' = << >> /\ bells' = << >>
      /\ riddleIndex' = 0 /\ gachaCount' = 0
      /\ claimed' \in BootChests(vault')
      /\ UNCHANGED <<tour, used, pocket, bellLog>>
  BY DEF Crash
<1>2. DOMAIN players' = {} /\ Live' = {} /\ DOMAIN outbox' = {} /\ DOMAIN bells' = {}
  BY <1>1 DEF Live
<1>3. Visited \ {NoTarget} \subseteq Targets
  BY GameAssumption DEF Visited, TypeOK
<1>4. PICK k \in Targets \cup {NoTarget}, P \in SUBSET Tokens :
        /\ lost' = lost \cup Waiting \cup P /\ \A x, y \in P : x = y
        /\ P # {} => k \in Targets
        /\ P \subseteq ToSet(vault[k])
        /\ vault' \in [Targets -> Seq(Tokens)] /\ FileIsStock'
        /\ \A l \in Targets : ToSet(vault'[l]) \subseteq ToSet(vault[l]) \ P
        /\ \A l \in Targets : ToSet(vault[l]) \subseteq ToSet(vault'[l]) \cup P
  <2>1. CASE UNCHANGED vault /\ lost' = lost \cup Waiting
    <3>1. FileIsStock' /\ vault' \in [Targets -> Seq(Tokens)]
      BY <2>1 DEF TypeOK, FileIsStock
    <3>2. /\ lost' = lost \cup Waiting \cup {} /\ {} \in SUBSET Tokens
          /\ \A l \in Targets : ToSet(vault'[l]) \subseteq ToSet(vault[l]) \ {}
          /\ \A l \in Targets : ToSet(vault[l]) \subseteq ToSet(vault'[l]) \cup {}
      BY <2>1
    <3> QED BY <3>1, <3>2
  <2>2. ASSUME NEW k \in Targets, vault[k] # <<>>, Pop(k),
               lost' = lost \cup Waiting \cup {Head(vault[k])}
        PROVE  \E l \in Targets \cup {NoTarget}, P \in SUBSET Tokens :
                 /\ lost' = lost \cup Waiting \cup P /\ \A x, y \in P : x = y
                 /\ P # {} => l \in Targets
                 /\ P \subseteq ToSet(vault[l])
                 /\ vault' \in [Targets -> Seq(Tokens)] /\ FileIsStock'
                 /\ \A m \in Targets : ToSet(vault'[m]) \subseteq ToSet(vault[m]) \ P
                 /\ \A m \in Targets : ToSet(vault[m]) \subseteq ToSet(vault'[m]) \cup P
    <3> DEFINE P == {Head(vault[k])}
    <3>1. /\ vault' \in [Targets -> Seq(Tokens)] /\ FileIsStock' /\ P \in SUBSET Tokens
          /\ P \subseteq ToSet(vault[k])
          /\ \A m \in Targets : ToSet(vault'[m]) \subseteq ToSet(vault[m]) \ P
          /\ \A m \in Targets : ToSet(vault[m]) \subseteq ToSet(vault'[m]) \cup P
      BY <2>2, PopTakesOne
    <3>2. lost' = lost \cup Waiting \cup P /\ \A x, y \in P : x = y
      BY <2>2
    <3> HIDE DEF P
    <3> QED BY <3>1, <3>2
  <2> QED BY <1>3, <2>1, <2>2 DEF Crash
<1>5. \A x \in Waiting : x \in Tokens /\ \E t \in Live : x \in Holds(t) /\ x \notin pocket[t]
  <2>1. \A t \in Live : ToSet(outbox[t]) \subseteq Tokens \cup {Frame}
    BY DEF TypeOK, ToSet
  <2> QED BY <2>1 DEF Waiting, Undelivered, Holds
<1>6. TypeOK'
  <2>1. players' \in [Live' -> Player] /\ outbox' \in [Live' -> Seq(Tokens \cup {Frame})]
    BY <1>1, <1>2
  <2>2. claimed' \in [Chests -> BOOLEAN] /\ 0 \in 0 .. RiddleCount - 1 /\ 0 \in 0 .. MaxPulls
    BY <1>1, GameAssumption DEF BootChests
  <2>3. lost' \subseteq Tokens
    BY <1>4, <1>5 DEF TypeOK
  <2> QED BY <1>1, <1>2, <1>4, <2>1, <2>2, <2>3 DEF TypeOK
<1>7. UnclaimedIsStocked'
  BY <1>1 DEF UnclaimedIsStocked, BootChests
<1>8. BellPressIsPaid'
  <2> SUFFICES ASSUME NEW t \in Sessions
               PROVE  bellLog'[t].judged + (IF t \in DOMAIN bells' THEN 1 ELSE 0)
                        <= bellLog'[t].started
    BY DEF BellPressIsPaid
  <2>1. bellLog[t].judged + (IF t \in DOMAIN bells THEN 1 ELSE 0) <= bellLog[t].started
    BY DEF BellPressIsPaid
  <2>2. bellLog[t].judged \in Nat /\ bellLog[t].started \in Nat
    BY GameAssumption DEF TypeOK
  <2> QED BY <1>1, <1>2, <2>1, <2>2
<1>9. HeldByOne' /\ WonOnce'
  <2>1. \A t \in Sessions : Holds(t)' \subseteq Holds(t) \cup (IF t = NoTarget THEN {} ELSE {})
    BY <1>1, <1>2 DEF Holds
  <2>2. used \subseteq used' /\ Live' \subseteq Sessions /\ \A t \in Live' : Holds(t)' = {}
    BY <1>1, <1>2
  <2>3. \A l \in Targets : ToSet(vault'[l]) \subseteq ToSet(vault[l]) \ {}
    BY <1>4
  <2> QED BY <2>1, <2>2, <2>3, PrizesKept
<1>10. PrizeAccounted'
  <2> DEFINE L == Waiting \cup P
  <2>1. Live \subseteq Sessions /\ \A t \in Sessions : Holds(t)' = pocket[t] /\ pocket[t] \subseteq Holds(t)
    BY <1>1, <1>2, LiveIsKnown DEF Holds
  <2>2. \A t \in Sessions : Holds(t) \subseteq pocket[t] \cup Waiting
    BY DEF Holds, Waiting, Undelivered
  <2>3. ASSUME NEW t \in Sessions PROVE L \cap Holds(t)' = {}
    <3>1. P \cap Holds(t) = {}
      BY <1>4 DEF HeldByOne
    <3>2. ASSUME NEW x \in Waiting, x \in pocket[t] PROVE FALSE
      <4>1. PICK u \in Live : x \in Holds(u) /\ x \notin pocket[u]
        BY <1>5, <3>2
      <4>2. t # u /\ x \in Holds(t) \cap Holds(u)
        BY <2>1, <3>2, <4>1
      <4> QED BY <2>1, <4>2 DEF HeldByOne
    <3> QED BY <2>1, <3>1, <3>2
  <2>4. /\ lost' = lost \cup L /\ \A x \in P : x \in L
        /\ \A x \in L : x \in P \/ \E t \in Sessions : x \in Holds(t)
    BY <1>4, <1>5, <2>1
  <2>5. \A t \in Sessions : Holds(t) \subseteq Holds(t)' \cup L /\ Holds(t)' \subseteq Holds(t) \cup P
    BY <2>1, <2>2
  <2> HIDE DEF L
  <2>6. Hands(k, P, L)
    BY <1>4, <2>3, <2>4, <2>5 DEF Hands
  <2> QED BY <2>6, StillAccounted
<1> QED BY <1>4, <1>6, <1>7, <1>8, <1>9, <1>10

------------------------------------------------------------------------------
(* The theorems. *)

\* The vault is stocked and nobody has anything in the initial states.
LEMMA InitIInv == Init => IInv
<1> SUFFICES ASSUME Init PROVE IInv
  OBVIOUS
<1>1. /\ tour \in Tours /\ used = {} /\ players = << >> /\ outbox = << >>
      /\ pocket = [s \in Sessions |-> {}] /\ vault = [k \in Targets |-> Stock[k]]
      /\ claimed \in BootChests(Stock) /\ riddleIndex = 0 /\ gachaCount = 0 /\ lost = {}
      /\ bells = << >>
      /\ bellLog = [s \in Sessions |-> [started |-> 0, judged |-> 0]]
  BY DEF Init
<1>2. DOMAIN players = {} /\ Live = {} /\ DOMAIN outbox = {} /\ DOMAIN bells = {}
  BY <1>1 DEF Live
<1>3. \A k \in Targets : vault[k] = Stock[k] /\ Stock[k] \in Seq(Tokens)
  <2> SUFFICES ASSUME NEW k \in Targets PROVE Stock[k] \in Seq(Tokens)
    BY <1>1
  <2>1. Stock[k] \in Seq(TokensOf(k)) /\ TokensOf(k) \subseteq Tokens
    BY GameAssumption DEF Tokens
  <2> QED BY <2>1
<1>4. TypeOK
  <2>1. players \in [Live -> Player] /\ outbox \in [Live -> Seq(Tokens \cup {Frame})]
    BY <1>1, <1>2
  <2>2. claimed \in [Chests -> BOOLEAN] /\ 0 \in 0 .. RiddleCount - 1 /\ 0 \in 0 .. MaxPulls
    BY <1>1, GameAssumption DEF BootChests
  <2>3. vault \in [Targets -> Seq(Tokens)] /\ pocket \in [Sessions -> SUBSET Tokens]
    BY <1>1, <1>3
  <2>4. bellLog \in [Sessions -> [started : 0 .. MaxPlays, judged : Nat]]
    BY <1>1, GameAssumption
  <2> QED BY <1>1, <1>2, <2>1, <2>2, <2>3, <2>4 DEF TypeOK
<1>5. FileIsStock
  BY <1>3, GameAssumption DEF FileIsStock, TokensOf
<1>6. HeldByOne /\ WonOnce
  <2>1. \A s \in Sessions : Holds(s) = {}
    BY <1>1, <1>2 DEF Holds
  <2> QED BY <1>2, <2>1 DEF HeldByOne, WonOnce
<1>7. UnclaimedIsStocked
  BY <1>1, <1>3 DEF UnclaimedIsStocked, BootChests, Targets
<1>8. PrizeAccounted
  <2>1. \A k \in Targets : TokensOf(k) = ToSet(vault[k])
    BY <1>3 DEF TokensOf
  <2> QED BY <1>1, <2>1 DEF PrizeAccounted
<1>9. BellPressIsPaid
  BY <1>1, <1>2 DEF BellPressIsPaid
<1> QED BY <1>4, <1>5, <1>6, <1>7, <1>8, <1>9 DEF IInv

\* Every action keeps the inductive invariant.
LEMMA NextIInv == IInv /\ [Next]_vars => IInv'
<1> SUFFICES ASSUME IInv, [Next]_vars PROVE IInv'
  OBVIOUS
<1>1. CASE UNCHANGED vars
  BY <1>1 DEF vars, IInv, TypeOK, Live, FileIsStock, HeldByOne, WonOnce, Holds,
              UnclaimedIsStocked, PrizeAccounted, AllHeld, BellPressIsPaid
<1>2. ASSUME NEW s \in Sessions, Operation(s) PROVE IInv'
  BY <1>2, ConnectKeepsIInv, DisconnectKeepsIInv, MovesKeepIInv, ClaimChestKeepsIInv,
     AnswerRightKeepsIInv, PlayGachaKeepsIInv, BellKeepsIInv, PlayBellPressKeepsIInv
     DEF Operation
<1>3. CASE Clock
  BY <1>3, MovesKeepIInv, BellKeepsIInv, TickKeepsIInv DEF Clock
<1> QED BY <1>1, <1>2, <1>3, DeliverKeepsIInv, CrashKeepsIInv DEF Next

\* The inductive invariant holds throughout.
THEOREM Invariance == Spec => []IInv
  BY InitIInv, NextIInv, PTL DEF Spec

\* Every variable keeps its type.
THEOREM TypeCorrect == Spec => []TypeOK
<1>1. IInv => TypeOK
  BY DEF IInv
<1> QED BY <1>1, Invariance, PTL

\* No prize is with two clients, nor with one and in the vault's file, and a
\* lantern pays a session once.
THEOREM PaysOnce == Spec => []PrizePaidOnce
<1>1. IInv => PrizePaidOnce
  <2> SUFFICES ASSUME IInv PROVE PrizePaidOnce
    OBVIOUS
  <2>1. ASSUME NEW s \in Sessions, NEW b \in Riddles
        PROVE  Cardinality(Holds(s) \cap TokensOf(b)) <= 1
    <3> DEFINE both == Holds(s) \cap TokensOf(b)
    <3>1. \A x, y \in both : x = y
      BY DEF IInv, WonOnce
    <3> HIDE DEF both
    <3>2. CASE both = {}
      BY <3>2, FS_EmptySet DEF both
    <3>3. CASE both # {}
      <4>1. PICK x \in both : both = {x}
        BY <3>1, <3>3
      <4>2. Cardinality(both) = 1
        BY <4>1, FS_Singleton
      <4> QED BY <4>2 DEF both
    <3> QED BY <3>2, <3>3
  <2> QED BY <2>1 DEF IInv, HeldByOne, PrizePaidOnce
<1> QED BY <1>1, Invariance, PTL

\* A chest shown as unclaimed can pay.
THEOREM ChestsAreStocked == Spec => []UnclaimedIsStocked
<1>1. IInv => UnclaimedIsStocked
  BY DEF IInv
<1> QED BY <1>1, Invariance, PTL

\* Presses judged never outnumber plays paid for.
THEOREM BellIsPaid == Spec => []BellPressIsPaid
<1>1. IInv => BellPressIsPaid
  BY DEF IInv
<1> QED BY <1>1, Invariance, PTL

\* No prize vanishes: what is neither in the file nor with a session or on its
\* way to one is among the named losses.
THEOREM NoPrizeVanishes == Spec => []PrizeAccounted
<1>1. IInv => PrizeAccounted
  BY DEF IInv
<1> QED BY <1>1, Invariance, PTL
==============================================================================
