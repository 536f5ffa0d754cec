-------------------------------- MODULE Gates --------------------------------
(***************************************************************************)
(* The paid HTTP gates of the server (server/src/gates.rs over the session *)
(* table of game.rs and the revenue sink of sink.rs).  A request first     *)
(* passes require_charge, which redeems its pop at the mint; the handler   *)
(* then finds the session, records the redeemed value in the sink, and     *)
(* only then grants the gate or runs the play.  Each of these takes its    *)
(* lock by itself, so requests, socket closes and a crash of the process   *)
(* come between any two of them.                                           *)
(*                                                                         *)
(* The middleware and the mint are external: Redeem is what the handlers   *)
(* rely on, a pop redeemed once and never again.  Where a body stands is   *)
(* the business of module Game; here a play finds it in reach or not.      *)
(***************************************************************************)
EXTENDS FiniteSets

CONSTANTS
  Sessions,    \* session ids: 64 random bits, so none is issued twice
  Requests,    \* HTTP requests to a gate
  Tokens,      \* bearer pops
  EntryGates,  \* spawn and the courts: the handler is gate_paid
  PlayGates,   \* play.gacha and play.bell: the handler is play_paid
  Spawn,       \* the gate that turns a ghost into a body
  NoSession    \* a request with neither header nor query parameter

ASSUME GatesAssumption ==
  /\ EntryGates \cap PlayGates = {}
  /\ Spawn \in EntryGates
  /\ NoSession \notin Sessions

VARIABLES
  session,     \* the life of each session id
  entitled,    \* Player.entitlements of each session
  stage,       \* how far each request has come, or how it was answered
  call,        \* what each redeemed request pays, for which session
  spent,       \* the tokens the mint has redeemed
  ledger       \* the lines of the revenue file, each with its request

vars == <<session, entitled, stage, call, spent, ledger>>

PaidGates == EntryGates \cup PlayGates
Call == [token : Tokens, gate : PaidGates, session : Sessions \cup {NoSession}]
Line == [req : Requests, token : Tokens, gate : PaidGates, session : Sessions]

\* Inside the handler, with the Redeemed extension in hand.
InHandler == {"redeemed", "persisted"}
\* The answers a redeemed request can get, and the end a crash gives it.
Answers == {"ok", "missing-session", "revenue-unpersisted", "unbound"}
Stages == {"idle", "refused", "dropped"} \cup InHandler \cup Answers
\* The pop of the request was redeemed.
Charged(r) == stage[r] \notin {"idle", "refused"}

TypeOK ==
  /\ session \in [Sessions -> {"new", "live", "gone"}]
  /\ entitled \in [Sessions -> SUBSET EntryGates]
  /\ stage \in [Requests -> Stages]
  /\ DOMAIN call = Requests
  /\ \A r \in Requests : Charged(r) => call[r] \in Call
  /\ spent \subseteq Tokens
  /\ ledger \subseteq Line

Init ==
  /\ session = [s \in Sessions |-> "new"]
  /\ entitled = [s \in Sessions |-> {}]
  /\ stage = [r \in Requests |-> "idle"]
  /\ call = [r \in Requests |-> NoSession]
  /\ spent = {}
  /\ ledger = {}

------------------------------------------------------------------------------
(* Sessions: the websocket side. *)

Connect(s) ==
  /\ session[s] = "new"
  /\ session' = [session EXCEPT ![s] = "live"]
  /\ UNCHANGED <<entitled, stage, call, spent, ledger>>

\* Mutant: what the session had paid for stays.
DisconnectKeeping(s) ==
  /\ session[s] = "live"
  /\ session' = [session EXCEPT ![s] = "gone"]
  /\ UNCHANGED <<entitled, stage, call, spent, ledger>>

Disconnect(s) ==
  /\ session[s] = "live"
  /\ session' = [session EXCEPT ![s] = "gone"]
  /\ entitled' = [entitled EXCEPT ![s] = {}]
  /\ UNCHANGED <<stage, call, spent, ledger>>

------------------------------------------------------------------------------
(* Requests: the middleware, then the handler. *)

\* require_charge answers without redeeming: no credential, or a pop the
\* mint or the replay guard turns down.
Refuse(r) ==
  /\ stage[r] = "idle"
  /\ stage' = [stage EXCEPT ![r] = "refused"]
  /\ UNCHANGED <<session, entitled, call, spent, ledger>>

\* require_charge redeems the pop and hands the request to the handler.  It
\* knows nothing of sessions and entitlements.
Redeem(r, c) ==
  /\ stage[r] = "idle"
  /\ c.token \notin spent
  /\ spent' = spent \cup {c.token}
  /\ call' = [call EXCEPT ![r] = c]
  /\ stage' = [stage EXCEPT ![r] = "redeemed"]
  /\ UNCHANGED <<session, entitled, ledger>>

Step(r, from, to) ==
  /\ stage[r] = from
  /\ stage' = [stage EXCEPT ![r] = to]
  /\ UNCHANGED <<session, call, spent>>

\* session_from finds no id: 400, ahead of everything else.
MissingSession(r) ==
  /\ Step(r, "redeemed", "missing-session")
  /\ call[r].session = NoSession
  /\ UNCHANGED <<entitled, ledger>>

LineOf(r) == [req |-> r, token |-> call[r].token,
              gate |-> call[r].gate, session |-> call[r].session]

\* persist_revenue: one fsynced line, or a 500 and no grant.
PersistRevenue(r) ==
  /\ Step(r, "redeemed", "persisted")
  /\ call[r].session # NoSession
  /\ ledger' = ledger \cup {LineOf(r)}
  /\ UNCHANGED entitled

\* Mutants: the error is logged and the handler goes on; the answer is one that
\* no client knows.
SinkFailsOn(r) ==
  /\ Step(r, "redeemed", "persisted")
  /\ call[r].session # NoSession
  /\ UNCHANGED <<entitled, ledger>>

SinkFailsOddly(r) ==
  /\ Step(r, "redeemed", "unpersisted")
  /\ call[r].session # NoSession
  /\ UNCHANGED <<entitled, ledger>>

SinkFails(r) ==
  /\ Step(r, "redeemed", "revenue-unpersisted")
  /\ call[r].session # NoSession
  /\ UNCHANGED <<entitled, ledger>>

\* Mutant: the session was looked up when the request came in.
GrantUnchecked(r) ==
  LET s == call[r].session
      g == call[r].gate
  IN /\ Step(r, "persisted", "ok")
     /\ g \in EntryGates
     /\ entitled' = [entitled EXCEPT ![s] = @ \cup {g}]
     /\ UNCHANGED ledger

\* Game::grant: the session must be live when the lock is taken, whatever
\* it was when the request came in.
Grant(r) ==
  LET s == call[r].session
      g == call[r].gate
  IN /\ Step(r, "persisted", "ok")
     /\ g \in EntryGates
     /\ session[s] = "live"
     /\ entitled' = [entitled EXCEPT ![s] = @ \cup {g}]
     /\ UNCHANGED ledger

\* Mutant: the play first, its revenue later.
PlayFirst(r) ==
  LET s == call[r].session
  IN /\ Step(r, "redeemed", "ok")
     /\ call[r].gate \in PlayGates
     /\ s # NoSession
     /\ session[s] = "live"
     /\ Spawn \in entitled[s]
     /\ UNCHANGED <<entitled, ledger>>

\* Game::play_gacha and play_bell_start on a body within reach.
Play(r) ==
  LET s == call[r].session
  IN /\ Step(r, "persisted", "ok")
     /\ call[r].gate \in PlayGates
     /\ session[s] = "live"
     /\ Spawn \in entitled[s]
     /\ UNCHANGED <<entitled, ledger>>

\* Mutants: the session is refused before its payment is persisted; only plays
\* are refused.
UnboundFirst(r) ==
  /\ Step(r, "redeemed", "unbound")
  /\ call[r].session # NoSession
  /\ session[call[r].session] # "live"
  /\ UNCHANGED <<entitled, ledger>>

UnboundPlay(r) ==
  /\ Step(r, "persisted", "unbound")
  /\ call[r].gate \in PlayGates
  /\ UNCHANGED <<entitled, ledger>>

\* The 409 answers: no live session, or a play without a body in reach.  The
\* value stays in the sink.
Unbound(r) ==
  /\ Step(r, "persisted", "unbound")
  /\ \/ session[call[r].session] # "live"
     \/ call[r].gate \in PlayGates
  /\ UNCHANGED <<entitled, ledger>>

Handler(r) ==
  \/ MissingSession(r)
  \/ PersistRevenue(r)
  \/ SinkFails(r)
  \/ Grant(r)
  \/ Play(r)
  \/ Unbound(r)

------------------------------------------------------------------------------

\* The process dies and comes back: sessions, entitlements and requests in
\* hand are memory, the revenue file and the mint's spent set are not.
Crash ==
  /\ session' = [s \in Sessions |-> IF session[s] = "live" THEN "gone" ELSE session[s]]
  /\ entitled' = [s \in Sessions |-> {}]
  /\ stage' = [r \in Requests |-> IF stage[r] \in InHandler THEN "dropped" ELSE stage[r]]
  /\ UNCHANGED <<call, spent, ledger>>

Next ==
  \/ \E s \in Sessions : Connect(s) \/ Disconnect(s)
  \/ \E r \in Requests : Refuse(r) \/ Handler(r)
  \/ \E r \in Requests, c \in Call : Redeem(r, c)
  \/ Crash

Spec == Init /\ [][Next]_vars

\* tokio runs a request that is ready, and nothing after redemption waits on
\* anything but a lock; no one promises that a request comes, or a socket
\* stays open, or the process lives.
FairSpec == Spec /\ \A r \in Requests : WF_vars(Handler(r))

------------------------------------------------------------------------------
(* Properties *)

Recorded(t) == \E l \in ledger : l.token = t

\* A session holds a gate only over a durable line that names the session
\* and the gate (gates.rs persists "BEFORE granting the entitlement").
GrantIsRecorded ==
  \A s \in Sessions : \A g \in entitled[s] :
    \E l \in ledger : l.session = s /\ l.gate = g

\* No pop is banked twice, each line is the line of a redeemed request, and
\* a request answered 200 or 409, a play included, has its own line: what the
\* keeper counts is what was served or is owed, however requests overlap.
LedgerMatchesAnswers ==
  /\ \A a, b \in ledger : a.token = b.token => a = b
  /\ \A l \in ledger : l.token \in spent /\ l = LineOf(l.req)
  /\ \A r \in Requests :
       stage[r] \in {"ok", "unbound"} => LineOf(r) \in ledger

\* A redeemed pop is on record unless its request is still at the sink, was
\* told that it is not recorded or names no session, or died with the process.
ValueAccounted ==
  \A t \in spent :
    \/ Recorded(t)
    \/ \E r \in Requests :
         /\ stage[r] \in {"redeemed", "missing-session", "revenue-unpersisted", "dropped"}
         /\ call[r].token = t

\* Entitlements die with the session: a grant that was paid for before the
\* socket closed, and runs after, finds nothing to attach to.
EntitledIsLive ==
  \A s \in Sessions : entitled[s] # {} => session[s] = "live"

\* What PaidAccess sees: the ledger without its requests, the entitlements as
\* pairs, the sessions that are over.
Payments == {[token |-> l.token, gate |-> l.gate, session |-> l.session] : l \in ledger}
Held == {o \in Sessions \X EntryGates : o[2] \in entitled[o[1]]}
Ended == {s \in Sessions : session[s] = "gone"}

Access == INSTANCE PaidAccess WITH paid <- Payments, open <- Held, ended <- Ended

\* The gates implement the promise of PaidAccess: every step of a handler, a
\* socket or a crash is a payment, an opening, an ending or nothing to it.
ImplementsPaidAccess == Access!Spec

\* A request whose pop was redeemed is answered, or dies with the process.
RedeemedIsAnswered ==
  \A r \in Requests : stage[r] = "redeemed" ~> stage[r] \in Answers \cup {"dropped"}
==============================================================================
