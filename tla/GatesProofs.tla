----------------------------- MODULE GatesProofs -----------------------------
(***************************************************************************)
(* Theorems about Gates, for every number of sessions, requests, tokens    *)
(* and gates.                                                              *)
(*                                                                         *)
(* None of the safety properties is inductive: that a line is in the file  *)
(* when Grant runs was decided two steps before, and that a token is not   *)
(* banked twice rests on every request's token being spent and its own.    *)
(* IInv adds what a request's stage says of the ledger and of the tokens.  *)
(***************************************************************************)
EXTENDS Gates, TLAPS

\* A line belongs to a request that went through the sink.
LineHasRequest ==
  \A l \in ledger :
    /\ stage[l.req] \in {"persisted", "ok", "unbound", "dropped"}
    /\ l = LineOf(l.req)

\* A request past the sink has its line.
RequestHasLine ==
  \A r \in Requests : stage[r] \in {"persisted", "ok", "unbound"} => LineOf(r) \in ledger

\* The spent tokens are those of the charged requests, one each.
ChargedIsSpent == \A r \in Requests : Charged(r) => call[r].token \in spent
SpentIsCharged == \A t \in spent : \E r \in Requests : Charged(r) /\ call[r].token = t
TokensApart ==
  \A q, r \in Requests : Charged(q) /\ Charged(r) /\ call[q].token = call[r].token => q = r

IInv ==
  /\ TypeOK
  /\ LineHasRequest
  /\ RequestHasLine
  /\ ChargedIsSpent
  /\ SpentIsCharged
  /\ TokensApart
  /\ EntitledIsLive
  /\ GrantIsRecorded

------------------------------------------------------------------------------

\* The initial states have the inductive invariant: no request, no line.
LEMMA InitIInv == Init => IInv
  BY DEF Init, IInv, TypeOK, Stages, InHandler, Answers, Charged, LineHasRequest,
         RequestHasLine, ChargedIsSpent, SpentIsCharged, TokensApart,
         EntitledIsLive, GrantIsRecorded

\* A request that goes from one charged stage to another, its line written
\* when the sink said so, keeps what IInv says of requests and lines.
LEMMA StepKeepsRequests ==
  ASSUME IInv, NEW r \in Requests, NEW from \in InHandler, NEW to \in Answers \cup InHandler,
         Step(r, from, to),
         \/ /\ ledger' = ledger
            /\ to \in {"missing-session", "revenue-unpersisted"} => from = "redeemed"
            /\ to \in {"ok", "unbound"} => from = "persisted"
            /\ to \notin InHandler
         \/ /\ ledger' = ledger \cup {LineOf(r)}
            /\ LineOf(r) \in Line
            /\ to = "persisted"
  PROVE  /\ stage' \in [Requests -> Stages]
         /\ \A q \in Requests : Charged(q)' <=> Charged(q)
         /\ ledger' \subseteq Line
         /\ LineHasRequest'
         /\ RequestHasLine'
         /\ ChargedIsSpent'
         /\ SpentIsCharged'
         /\ TokensApart'
<1> USE DEF IInv, TypeOK, Step, Stages, InHandler, Answers
<1>1. stage' \in [Requests -> Stages] /\ stage' = [stage EXCEPT ![r] = to] /\ stage[r] = from
  OBVIOUS
<1>2. call' = call /\ spent' = spent /\ \A q \in Requests : LineOf(q)' = LineOf(q)
  BY DEF LineOf
<1>3. \A q \in Requests : Charged(q)' <=> Charged(q)
  BY <1>1 DEF Charged
<1>4. ledger' \subseteq Line
  OBVIOUS
<1>5. LineHasRequest'
  <2> SUFFICES ASSUME NEW l \in ledger'
               PROVE  /\ stage'[l.req] \in {"persisted", "ok", "unbound", "dropped"}
                      /\ l = LineOf(l.req)
    BY <1>2, <1>4 DEF LineHasRequest, Line
  <2>1. CASE l \in ledger
    <3>1. l.req \in Requests /\ stage[l.req] \in {"persisted", "ok", "unbound", "dropped"}
      BY <2>1 DEF LineHasRequest, Line
    <3>2. l.req = r => to \in {"ok", "unbound", "persisted"}
      BY <1>1, <3>1
    <3> QED BY <1>1, <2>1, <3>1, <3>2 DEF LineHasRequest
  <2>2. CASE l \notin ledger
    BY <1>1, <2>2 DEF LineOf
  <2> QED BY <2>1, <2>2
<1>6. RequestHasLine'
  BY <1>1, <1>2 DEF RequestHasLine
<1>7. ChargedIsSpent' /\ SpentIsCharged' /\ TokensApart'
  BY <1>2, <1>3 DEF ChargedIsSpent, SpentIsCharged, TokensApart
<1> QED BY <1>1, <1>3, <1>4, <1>5, <1>6, <1>7

------------------------------------------------------------------------------

\* A session that is live names itself in Sessions: a request past the sink
\* carries an id, and only such requests reach the game.
LEMMA PersistedHasSession ==
  ASSUME IInv, NEW r \in Requests, stage[r] = "persisted"
  PROVE  /\ call[r].session \in Sessions
         /\ LineOf(r) \in ledger
  BY DEF IInv, TypeOK, RequestHasLine, LineOf, Line

\* Every action keeps the inductive invariant.
LEMMA NextIInv == IInv /\ [Next]_vars => IInv'
<1> SUFFICES ASSUME IInv, [Next]_vars
             PROVE  IInv'
  OBVIOUS
<1> USE GatesAssumption
<1>1. ASSUME NEW s \in Sessions, Connect(s)
      PROVE  IInv'
  <2> USE <1>1 DEF Connect, IInv
  <2>1. TypeOK'
    BY DEF TypeOK, Charged
  <2>2. EntitledIsLive' /\ GrantIsRecorded'
    BY DEF EntitledIsLive, GrantIsRecorded, TypeOK
  <2> QED BY <2>1, <2>2 DEF LineHasRequest, RequestHasLine, ChargedIsSpent,
            SpentIsCharged, TokensApart, Charged, LineOf
<1>2. ASSUME NEW s \in Sessions, Disconnect(s)
      PROVE  IInv'
  <2> USE <1>2 DEF Disconnect, IInv
  <2>1. TypeOK'
    BY DEF TypeOK, Charged
  <2>2. EntitledIsLive' /\ GrantIsRecorded'
    BY DEF EntitledIsLive, GrantIsRecorded, TypeOK
  <2> QED BY <2>1, <2>2 DEF LineHasRequest, RequestHasLine, ChargedIsSpent,
            SpentIsCharged, TokensApart, Charged, LineOf
<1>3. ASSUME NEW r \in Requests, Refuse(r)
      PROVE  IInv'
  <2> USE <1>3 DEF Refuse, IInv
  <2>1. \A q \in Requests : Charged(q)' <=> Charged(q)
    BY DEF TypeOK, Charged
  <2>2. TypeOK'
    BY <2>1 DEF TypeOK, Stages
  <2>3. LineHasRequest' /\ RequestHasLine'
    BY DEF LineHasRequest, RequestHasLine, LineOf, TypeOK, Line
  <2>4. ChargedIsSpent' /\ SpentIsCharged' /\ TokensApart'
    BY <2>1 DEF ChargedIsSpent, SpentIsCharged, TokensApart
  <2> QED BY <2>2, <2>3, <2>4 DEF EntitledIsLive, GrantIsRecorded
<1>4. ASSUME NEW r \in Requests, NEW c \in Call, Redeem(r, c)
      PROVE  IInv'
  <2> USE <1>4 DEF Redeem, IInv
  <2>1. /\ c.token \in Tokens
        /\ call'[r] = c
        /\ \A q \in Requests \ {r} : call'[q] = call[q] /\ stage'[q] = stage[q]
        /\ stage[r] = "idle" /\ stage'[r] = "redeemed"
    BY DEF TypeOK, Call
  <2>2. \A q \in Requests : Charged(q)' <=> (q = r \/ Charged(q))
    BY <2>1 DEF Charged
  <2>3. TypeOK'
    BY <2>1, <2>2 DEF TypeOK, Stages, InHandler
  <2>4. LineHasRequest'
    BY <2>1 DEF LineHasRequest, LineOf, TypeOK, Line
  <2>5. RequestHasLine'
    BY <2>1 DEF RequestHasLine, LineOf
  <2>6. ChargedIsSpent' /\ TokensApart'
    BY <2>1, <2>2 DEF ChargedIsSpent, TokensApart
  <2>7. SpentIsCharged'
    <3> SUFFICES ASSUME NEW t \in spent'
                 PROVE  \E q \in Requests : Charged(q)' /\ call'[q].token = t
      BY DEF SpentIsCharged
    <3>1. CASE t = c.token
      BY <2>1, <2>2, <3>1
    <3>2. CASE t \in spent
      <4>1. PICK q \in Requests : Charged(q) /\ call[q].token = t
        BY <3>2 DEF SpentIsCharged
      <4>2. q # r
        BY <2>1, <4>1 DEF Charged
      <4> QED BY <2>1, <2>2, <4>1, <4>2
    <3> QED BY <3>1, <3>2
  <2> QED BY <2>3, <2>4, <2>5, <2>6, <2>7 DEF EntitledIsLive, GrantIsRecorded
<1>5. ASSUME NEW r \in Requests, Handler(r)
      PROVE  IInv'
  <2>1. call' = call /\ session' = session /\ spent' = spent
    BY <1>5 DEF Handler, MissingSession, PersistRevenue, SinkFails, Grant, Play,
              Unbound, Step
  <2> DEFINE Requests_ == /\ stage' \in [Requests -> Stages]
                          /\ \A q \in Requests : Charged(q)' <=> Charged(q)
                          /\ ledger' \subseteq Line
                          /\ LineHasRequest'
                          /\ RequestHasLine'
                          /\ ChargedIsSpent'
                          /\ SpentIsCharged'
                          /\ TokensApart'
  <2>2. CASE MissingSession(r)
    <3>1. Requests_
      BY <2>2, StepKeepsRequests DEF MissingSession, InHandler, Answers
    <3> QED BY <2>1, <2>2, <3>1 DEF MissingSession, IInv, TypeOK, EntitledIsLive,
              GrantIsRecorded
  <2>3. CASE PersistRevenue(r)
    <3>1. LineOf(r) \in Line
      BY <2>3 DEF PersistRevenue, Step, IInv, TypeOK, Charged, LineOf, Line, Call
    <3>2. Requests_
      BY <2>3, <3>1, StepKeepsRequests DEF PersistRevenue, InHandler
    <3> QED BY <2>1, <2>3, <3>2 DEF PersistRevenue, IInv, TypeOK, EntitledIsLive,
              GrantIsRecorded
  <2>4. CASE SinkFails(r)
    <3>1. Requests_
      BY <2>4, StepKeepsRequests DEF SinkFails, InHandler, Answers
    <3> QED BY <2>1, <2>4, <3>1 DEF SinkFails, IInv, TypeOK, EntitledIsLive,
              GrantIsRecorded
  <2>5. CASE Grant(r)
    <3> DEFINE s == call[r].session
               g == call[r].gate
    <3>1. Requests_
      BY <2>5, StepKeepsRequests DEF Grant, InHandler, Answers
    <3>2. s \in Sessions /\ LineOf(r) \in ledger
      BY <2>5, PersistedHasSession DEF Grant, Step
    <3>3. /\ entitled' = [entitled EXCEPT ![s] = @ \cup {g}]
          /\ g \in EntryGates /\ session[s] = "live" /\ ledger' = ledger
      BY <2>5 DEF Grant
    <3>4. TypeOK'
      BY <2>1, <3>1, <3>2, <3>3 DEF IInv, TypeOK
    <3>5. EntitledIsLive'
      BY <2>1, <3>2, <3>3 DEF IInv, TypeOK, EntitledIsLive
    <3>6. GrantIsRecorded'
      BY <3>2, <3>3 DEF IInv, TypeOK, GrantIsRecorded, LineOf
    <3> QED BY <3>1, <3>4, <3>5, <3>6 DEF IInv
  <2>6. CASE Play(r)
    <3>1. Requests_
      BY <2>6, StepKeepsRequests DEF Play, InHandler, Answers
    <3> QED BY <2>1, <2>6, <3>1 DEF Play, IInv, TypeOK, EntitledIsLive, GrantIsRecorded
  <2>7. CASE Unbound(r)
    <3>1. Requests_
      BY <2>7, StepKeepsRequests DEF Unbound, InHandler, Answers
    <3> QED BY <2>1, <2>7, <3>1 DEF Unbound, IInv, TypeOK, EntitledIsLive,
              GrantIsRecorded
  <2> QED BY <1>5, <2>2, <2>3, <2>4, <2>5, <2>6, <2>7 DEF Handler
<1>6. CASE Crash
  <2> USE <1>6 DEF Crash, IInv
  <2>1. \A q \in Requests : Charged(q)' <=> Charged(q)
    BY DEF TypeOK, Charged, InHandler
  <2>2. TypeOK'
    BY <2>1 DEF TypeOK, Stages
  <2>3. LineHasRequest' /\ RequestHasLine'
    BY DEF LineHasRequest, RequestHasLine, LineOf, TypeOK, Line, InHandler
  <2>4. ChargedIsSpent' /\ SpentIsCharged' /\ TokensApart'
    BY <2>1 DEF ChargedIsSpent, SpentIsCharged, TokensApart
  <2>5. EntitledIsLive' /\ GrantIsRecorded'
    BY DEF EntitledIsLive, GrantIsRecorded
  <2> QED BY <2>2, <2>3, <2>4, <2>5
<1>7. CASE UNCHANGED vars
  BY <1>7 DEF vars, IInv, TypeOK, LineHasRequest, RequestHasLine, ChargedIsSpent,
            SpentIsCharged, TokensApart, EntitledIsLive, GrantIsRecorded, Charged, LineOf
<1> QED BY <1>1, <1>2, <1>3, <1>4, <1>5, <1>6, <1>7 DEF Next

\* The strengthening holds in every reachable state.
THEOREM Invariance == Spec => []IInv
  BY InitIInv, NextIInv, PTL DEF Spec

\* The variables keep their types.
THEOREM TypeCorrect == Spec => []TypeOK
<1>1. IInv => TypeOK
  BY DEF IInv
<1> QED BY <1>1, Invariance, PTL

\* A session never holds a gate that no durable line of its own paid for,
\* whatever requests, closed sockets, sink failures and crashes interleave.
THEOREM GrantsAreRecorded == Spec => []GrantIsRecorded
<1>1. IInv => GrantIsRecorded
  BY DEF IInv
<1> QED BY <1>1, Invariance, PTL

\* Nothing is held by a session whose socket closed, not even by a grant that
\* was on its way.
THEOREM EntitledAreLive == Spec => []EntitledIsLive
<1>1. IInv => EntitledIsLive
  BY DEF IInv
<1> QED BY <1>1, Invariance, PTL

\* No token is banked twice, every line is of a redeemed request, and every
\* request answered 200 or 409 left its line.
THEOREM LedgerMatches == Spec => []LedgerMatchesAnswers
<1>1. ASSUME IInv
      PROVE  LedgerMatchesAnswers
  <2> USE <1>1 DEF IInv
  <2>1. \A l \in ledger : l.req \in Requests /\ Charged(l.req) /\ l = LineOf(l.req)
    BY DEF TypeOK, Line, LineHasRequest, Charged
  <2>2. \A l \in ledger : l.token = call[l.req].token /\ l.token \in spent
    BY <2>1 DEF LineOf, ChargedIsSpent
  <2>3. ASSUME NEW a \in ledger, NEW b \in ledger, a.token = b.token
        PROVE  a = b
    <3>1. a.req = b.req
      BY <2>1, <2>2, <2>3 DEF TokensApart
    <3> QED BY <2>1, <3>1
  <2> QED BY <2>1, <2>2, <2>3 DEF LedgerMatchesAnswers, RequestHasLine
<1> QED BY <1>1, Invariance, PTL

\* A redeemed token is on record, or its request is at the sink, was told of
\* the failure, or died with the process.
THEOREM ValueIsAccounted == Spec => []ValueAccounted
<1>1. ASSUME IInv
      PROVE  ValueAccounted
  <2> USE <1>1 DEF IInv
  <2> SUFFICES ASSUME NEW t \in spent
               PROVE  \/ Recorded(t)
                      \/ \E r \in Requests :
                           /\ stage[r] \in {"redeemed", "missing-session",
                                           "revenue-unpersisted", "dropped"}
                           /\ call[r].token = t
    BY DEF ValueAccounted
  <2>1. PICK r \in Requests : Charged(r) /\ call[r].token = t
    BY DEF SpentIsCharged
  <2>2. stage[r] \in {"redeemed", "missing-session", "revenue-unpersisted", "dropped",
                     "persisted", "ok", "unbound"}
    BY <2>1 DEF TypeOK, Charged, Stages, InHandler, Answers
  <2>3. ASSUME stage[r] \in {"persisted", "ok", "unbound"}
        PROVE  Recorded(t)
    <3>1. LineOf(r) \in ledger
      BY <2>3 DEF RequestHasLine
    <3> QED BY <2>1, <3>1 DEF Recorded, LineOf
  <2> QED BY <2>1, <2>2, <2>3
<1> QED BY <1>1, Invariance, PTL

------------------------------------------------------------------------------
(* Gates implements PaidAccess. *)

PaymentOf(r) == [token |-> call[r].token, gate |-> call[r].gate, session |-> call[r].session]

\* Writing the line of r puts one payment on record, and its token is new.
LEMMA PersistIsPay ==
  ASSUME IInv, NEW r \in Requests, PersistRevenue(r)
  PROVE  /\ PaymentOf(r) \in Access!Payment
         /\ Access!Pay(PaymentOf(r))
<1> USE DEF PersistRevenue, Step
<1>1. LineOf(r) \in Line
  BY DEF IInv, TypeOK, Charged, LineOf, Line, Call
<1>2. PaymentOf(r) \in Access!Payment
  BY <1>1 DEF PaymentOf, LineOf, Line, PaidGates, Access!Payment
<1>3. ASSUME NEW l \in ledger
      PROVE  l.token # call[r].token
  <2>1. l.req \in Requests /\ l.req # r /\ Charged(l.req) /\ l = LineOf(l.req)
    BY DEF IInv, TypeOK, Line, LineHasRequest, Charged
  <2>2. Charged(r)
    BY DEF Charged
  <2>3. l.token = call[l.req].token
    BY <2>1 DEF LineOf
  <2> QED BY <2>1, <2>2, <2>3 DEF IInv, TokensApart
<1>4. \A q \in Payments : q.token # PaymentOf(r).token
  BY <1>3 DEF Payments, PaymentOf
<1>5. Payments' = Payments \cup {PaymentOf(r)}
  <2> DEFINE Paid(l) == [token |-> l.token, gate |-> l.gate, session |-> l.session]
  <2>1. Paid(LineOf(r)) = PaymentOf(r)
    BY DEF LineOf, PaymentOf
  <2>2. Payments = {Paid(l) : l \in ledger} /\ Payments' = {Paid(l) : l \in ledger'}
    BY DEF Payments
  <2>3. ledger' = ledger \cup {LineOf(r)}
    OBVIOUS
  <2> HIDE DEF Paid
  <2> QED BY <2>1, <2>2, <2>3
<1>6. Held' = Held /\ Ended' = Ended
  BY DEF Held, Ended
<1> QED BY <1>2, <1>4, <1>5, <1>6 DEF Access!Pay

\* Granting the gate of r opens what its payment paid for.
LEMMA GrantIsOpen ==
  ASSUME IInv, NEW r \in Requests, Grant(r)
  PROVE  /\ PaymentOf(r) \in Access!Payment
         /\ Access!Open(PaymentOf(r))
<1> DEFINE s == call[r].session
           g == call[r].gate
<1>1. s \in Sessions /\ LineOf(r) \in ledger
  BY PersistedHasSession DEF Grant, Step
<1>2. /\ entitled' = [entitled EXCEPT ![s] = @ \cup {g}]
      /\ g \in EntryGates /\ session[s] = "live"
      /\ ledger' = ledger /\ session' = session
  BY DEF Grant, Step
<1>3. PaymentOf(r) \in Payments /\ PaymentOf(r) \in Access!Payment
  BY <1>1 DEF Payments, PaymentOf, LineOf, IInv, TypeOK, Line, PaidGates, Access!Payment
<1>4. s \notin Ended
  BY <1>2 DEF Ended
<1>5. Held' = Held \cup {<<s, g>>}
  BY <1>1, <1>2 DEF Held, IInv, TypeOK
<1>6. Payments' = Payments /\ Ended' = Ended
  BY <1>2 DEF Payments, Ended
<1> QED BY <1>2, <1>3, <1>4, <1>5, <1>6 DEF Access!Open, PaymentOf

\* A closed socket ends one session, a crash all that ever connected.
LEMMA DisconnectIsEnd ==
  ASSUME IInv, NEW s \in Sessions, Disconnect(s)
  PROVE  Access!End({s})
<1>1. Ended' = Ended \cup {s}
  BY DEF Disconnect, Ended, IInv, TypeOK
<1>2. Held' = {o \in Held : o[1] \notin {s}}
  BY DEF Disconnect, Held, IInv, TypeOK
<1>3. Payments' = Payments
  BY DEF Disconnect, Payments
<1> QED BY <1>1, <1>2, <1>3 DEF Access!End

\* A crash ends every session that there was.
LEMMA CrashIsEnd ==
  ASSUME IInv, Crash
  PROVE  Access!End({s \in Sessions : session[s] # "new"})
<1> DEFINE S == {s \in Sessions : session[s] # "new"}
<1>1. Ended' = Ended \cup S
  BY DEF Crash, Ended, IInv, TypeOK
<1>2. Held' = {} /\ {o \in Held : o[1] \notin S} = {}
  BY DEF Crash, Held, IInv, EntitledIsLive
<1>3. Payments' = Payments
  BY DEF Crash, Payments
<1> QED BY <1>1, <1>2, <1>3 DEF Access!End

\* Every step of Gates is a step of PaidAccess or leaves it alone.
LEMMA StepSimulation == IInv /\ [Next]_vars => [Access!Next]_(Access!vars)
<1> SUFFICES ASSUME IInv, [Next]_vars
             PROVE  [Access!Next]_(Access!vars)
  OBVIOUS
<1> DEFINE Same == ledger' = ledger /\ entitled' = entitled /\ Ended' = Ended
<1>0. Same => UNCHANGED Access!vars
  BY DEF Access!vars, Payments, Held
<1>1. ASSUME NEW s \in Sessions, Connect(s)
      PROVE  Same
  BY <1>1 DEF Connect, Ended, IInv, TypeOK
<1>2. ASSUME NEW s \in Sessions, Disconnect(s)
      PROVE  Access!Next
  BY <1>2, DisconnectIsEnd DEF Access!Next
<1>3. ASSUME NEW r \in Requests, Refuse(r)
      PROVE  Same
  BY <1>3 DEF Refuse, Ended
<1>4. ASSUME NEW r \in Requests, NEW c \in Call, Redeem(r, c)
      PROVE  Same
  BY <1>4 DEF Redeem, Ended
<1>5. ASSUME NEW r \in Requests, Handler(r)
      PROVE  Same \/ Access!Next
  <2>1. PersistRevenue(r) => Access!Next
    BY PersistIsPay DEF Access!Next
  <2>2. Grant(r) => Access!Next
    BY GrantIsOpen DEF Access!Next
  <2>3. MissingSession(r) \/ SinkFails(r) \/ Play(r) \/ Unbound(r) => Same
    BY DEF MissingSession, SinkFails, Play, Unbound, Step, Ended
  <2> QED BY <1>5, <2>1, <2>2, <2>3 DEF Handler
<1>6. ASSUME Crash
      PROVE  Access!Next
  BY <1>6, CrashIsEnd DEF Access!Next
<1>7. CASE UNCHANGED vars
  <2>1. Same
    BY <1>7 DEF vars, Ended
  <2> QED BY <1>0, <2>1
<1> QED BY <1>0, <1>1, <1>2, <1>3, <1>4, <1>5, <1>6, <1>7 DEF Next

\* The gates implement the promise of PaidAccess: payments go on record
\* before they open anything, each token pays once, and what a session held
\* ends with it for good.
THEOREM Refinement == Spec => ImplementsPaidAccess
<1>1. Init => Access!Init
  BY DEF Init, Access!Init, Payments, Held, Ended
<1>2. IInv /\ [Next]_vars => [Access!Next]_(Access!vars)
  BY StepSimulation
<1> QED BY <1>1, <1>2, Invariance, PTL DEF Spec, Access!Spec, ImplementsPaidAccess
==============================================================================
