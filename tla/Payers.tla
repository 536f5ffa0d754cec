-------------------------------- MODULE Payers --------------------------------
(***************************************************************************)
(* The two loops that pay a 402: payGate of the game's client (payer.ts),  *)
(* which walks the retry edges of charge-01 with one token, and            *)
(* fetchWithPop with popPaymentHandler (fetch-with-pop), which pays once   *)
(* and refuses to pay again.  The server may answer anything, with any     *)
(* challenge of Offers, as often as it likes.                              *)
(*                                                                         *)
(* Wallet and stash behind payPopRequest are in ClientWallet, whose names  *)
(* this module leaves free: PaymentProofs is about both.                   *)
(***************************************************************************)
EXTENDS Challenge

CONSTANTS
  Offers,      \* the challenges the server may issue
  Units, Mints,
  Mint, Unit,  \* what the wallet is bound to
  Balance,     \* what it holds
  Caps,        \* the budgets a caller may set
  NoCap,       \* fetchWithPop without maxAmount
  None

ASSUME PayersAssumption ==
  /\ \A c \in Offers : IsChallenge(c, Units, Mints)
  /\ Mint \in Mints /\ Unit \in Units /\ NoUnit \notin Units
  /\ Balance \in Nat /\ Caps \subseteq Nat /\ NoCap \notin Caps /\ None \notin Offers

VARIABLES
  call,     \* the payment under way
  seen,     \* the challenge the server issued last to it
  sent      \* the challenge echo of the credential presented last
payersVars == <<call, seen, sent>>

NoCall == [payer |-> None, cap |-> NoCap, already |-> FALSE, stage |-> "idle",
           agreed |-> None, token |-> 0, paid |-> 0, presented |-> 0,
           unreachable |-> 0, expired |-> 0]
NothingSent == {}

Call == [payer : {"payGate", "fetchWithPop", None}, cap : Caps \cup {NoCap},
         already : BOOLEAN, stage : {"idle", "bare", "challenged", "paid", "presented"},
         agreed : Offers \cup {None}, token : 0 .. Balance, paid : 0 .. Balance,
         presented : 0 .. 3, unreachable : 0 .. 1, expired : 0 .. 1]

PayersTypeOK ==
  /\ call \in Call
  /\ seen \in Offers \cup {None}
  /\ sent \subseteq Known \X Values(Offers)
  /\ call.stage \in {"paid", "presented"} => call.agreed # None /\ seen # None

PayersInit == call = NoCall /\ seen = None /\ sent = NothingSent

\* The bare request goes out.  payGate has a budget; a caller of fetchWithPop
\* may have none, and may come with a payment header of its own.
Start(payer, cap, already) ==
  /\ call.stage = "idle"
  /\ payer = "payGate" => cap # NoCap /\ ~already
  /\ call' = [NoCall EXCEPT !.payer = payer, !.cap = cap, !.already = already,
                            !.stage = "bare"]
  /\ seen' = None /\ sent' = NothingSent

\* The call returns or throws.
Ends == call' = [call EXCEPT !.stage = "idle"] /\ UNCHANGED <<seen, sent>>

\* The bare answer is not a challenge: a 200, another status, no header, or a
\* request that fails.
BareAnswer == call.stage = "bare" /\ Ends

\* It is one.  payGate goes by the status 402; fetchWithPop by the header, on
\* whatever status, and leaves alone what it does not understand.
Challenged(c) ==
  /\ call.stage = "bare"
  /\ \/ call.payer = "payGate" \/ Detects(c)
  /\ call' = [call EXCEPT !.stage = "challenged"]
  /\ seen' = c /\ UNCHANGED sent

\* challengeOf: payGate goes by a challenge that its codec can read.
ChallengeOf(c) == Parses(c)

\* The checks before any pop moves: of payGate, and of popPaymentHandler, whose
\* first loop guard is among them.
Agrees(c) ==
  /\ call.cap # NoCap => c.creqa.amount <= call.cap
  /\ IF call.payer = "payGate"
     THEN ChallengeOf(c) /\ HasRequest(c) /\ Payable(c) /\ Mint \in c.creqa.mints
     ELSE HasCashuRequest(c) /\ Decodes(c.creqa) /\ ~call.already

\* payPopRequest: the wallet has its own checks.
Covers(creqa) ==
  /\ creqa.unit = Unit
  /\ creqa.mints # {} => Mint \in creqa.mints
  /\ creqa.amount <= Balance - call.paid

Refuses == call.stage = "challenged" /\ ~(Agrees(seen) /\ Covers(seen.creqa)) /\ Ends

\* A token of exactly the amount leaves the inventory, or the swap fails.
Pays ==
  /\ call.stage = "challenged" /\ Agrees(seen) /\ Covers(seen.creqa)
  /\ \/ /\ call' = [call EXCEPT !.stage = "paid", !.agreed = seen,
                      !.token = seen.creqa.amount, !.paid = @ + seen.creqa.amount]
        /\ UNCHANGED <<seen, sent>>
     \/ Ends

\* applyPayment, and its place in payGate: the Authorization header.
Authorization ==
  IF call.payer = "payGate" THEN BuildCredential(seen) ELSE BuildPaymentCredential(seen)

\* The token is presented, against the challenge issued last.
Presents ==
  /\ call.stage = "paid"
  /\ sent' = Authorization
  /\ call' = [call EXCEPT !.stage = "presented", !.presented = @ + 1]
  /\ UNCHANGED seen

\* A 503: payGate waits and presents the same token once more.
Unreachable ==
  /\ call.stage = "presented"
  /\ IF call.payer = "payGate" /\ call.unreachable = 0
     THEN /\ call' = [call EXCEPT !.stage = "paid", !.unreachable = 1]
          /\ UNCHANGED <<seen, sent>>
     ELSE Ends

\* Mutant: a fresh challenge is a new one to pay.
ExpiredPaysAgain(c) ==
  /\ call.stage = "presented"
  /\ seen' = c /\ UNCHANGED sent
  /\ IF call.payer = "payGate" /\ call.expired = 0
     THEN call' = [call EXCEPT !.stage = "challenged", !.expired = 1]
     ELSE call' = [call EXCEPT !.stage = "idle"]

\* Mutant: the retry is not counted.
ExpiredUncounted(c) ==
  /\ call.stage = "presented"
  /\ seen' = c /\ UNCHANGED sent
  /\ IF call.payer = "payGate" /\ Parses(c)
     THEN call' = [call EXCEPT !.stage = "paid"]
     ELSE call' = [call EXCEPT !.stage = "idle"]

\* A 402 payment-expired with a fresh challenge: payGate presents the same
\* token against it, once, and asks no more of it than that it parses.
Expired(c) ==
  /\ call.stage = "presented"
  /\ IF call.payer = "payGate" /\ call.expired = 0 /\ ChallengeOf(c)
     THEN /\ call' = [call EXCEPT !.stage = "paid", !.expired = 1]
          /\ seen' = c /\ UNCHANGED sent
     ELSE Ends

\* A 200, any other answer, to fetchWithPop another challenge, or no answer.
Answered == call.stage = "presented" /\ Ends

PayersNext ==
  \/ \E payer \in {"payGate", "fetchWithPop"}, cap \in Caps \cup {NoCap}, already \in BOOLEAN :
       Start(payer, cap, already)
  \/ BareAnswer \/ Refuses \/ Pays \/ Presents \/ Unreachable \/ Answered
  \/ \E c \in Offers : Challenged(c) \/ Expired(c)

PayersSpec == PayersInit /\ [][PayersNext]_payersVars

------------------------------------------------------------------------------
(* Properties *)

\* payer.ts: whatever the server answers, and however often it issues another
\* challenge, a call takes no more out of the wallet than its caller approved,
\* in one token, at a price and in a unit that the challenge asked for and the
\* wallet is bound to.  The challenge names the wallet's mint; to fetchWithPop
\* it may also name none.  payGate presents the token three times at most,
\* fetchWithPop once.
WithinBudget ==
  /\ call.cap # NoCap => call.paid <= call.cap
  /\ call.paid = call.token
  /\ call.token # 0 =>
       LET creqa == call.agreed.creqa
       IN /\ creqa.amount = call.token /\ creqa.unit = Unit
          /\ \/ Mint \in creqa.mints
             \/ call.payer = "fetchWithPop" /\ creqa.mints = {}
  /\ call.presented <= IF call.payer = "payGate" THEN 3 ELSE 1

\* What no echo of the payer can make up for: to payGate, a foreign scheme in
\* front of a parameter; to fetchWithPop, an option it has no field for, an
\* expires that says nothing, and a value with a quote inside.
Unechoed(payer, c) ==
  IF payer = "payGate"
  THEN c.scheme = "other" /\ c.first \in Known
  ELSE \/ Issued(c) \cap {"digest", "opaque", "description"} # {}
       \/ "expires" \in Issued(c) /\ c.params["expires"] = "empty"
       \/ \E p \in Issued(c) : c.params[p] = "escaped"

\* buildCredential (charge01.ts:14-17): what is presented answers the challenge
\* the server issued last, and neither the one that was paid for nor a mix of
\* the two; its seal verifies unless the header is one of Unechoed, and then it
\* never does.
EchoVerifies ==
  call.stage = "presented" =>
    /\ sent \subseteq Known \X Values({seen})
    /\ Verifies(sent, seen) <=> ~Unechoed(call.payer, seen)
==============================================================================
