----------------------------- MODULE ClientWallet -----------------------------
(***************************************************************************)
(* The browser wallet and its payer: the inventory and the stash of        *)
(* pending presentations that all tabs share in localStorage (wallet.ts),  *)
(* the swap to the exact price (fetch-with-pop's wallet.ts), the pay loop  *)
(* with its retries (payer.ts), imports, and the recovery at startup       *)
(* (main.ts).                                                              *)
(*                                                                         *)
(* What a tab runs without waiting is one step.  A proof stands for its    *)
(* secret, its amount, and the form of its keyset id, short or full; its   *)
(* signature follows from the secret.  One mint, one unit, no fees.        *)
(*                                                                         *)
(* The arrays of the code are sets here, and may hold one proof twice:     *)
(* a short and a full copy of a secret are two entries, and stay two when  *)
(* the short one is expanded.  copy tells such entries apart.              *)
(***************************************************************************)
EXTENDS Integers, FiniteSetsExt

CONSTANTS
  Tabs,        \* browser tabs of one origin
  Held,        \* the proofs in the inventory to begin with
  Paper,       \* tokens, as sets of proofs, that the player can paste
  Price,       \* what each payment asks for
  WebLocks,    \* whether the browsers considered have the Web Locks API
  MaxPays,     \* bound: payments begun
  MaxEvents,   \* bound: closings, imports and steps with a failing write, together
  NoTab, NoEntry

\* copy: the payment that made a full proof of a short one, or none.
Proof == [id : {"short", "full"}, copy : 0 .. MaxPays, secret : Nat, amount : Nat \ {0}]
Secrets(S) == {p.secret : p \in S}
\* proofKey
Key(p) == <<p.id, p.secret>>
Keys(S) == {Key(p) : p \in S}
Worth(S) == MapThenSumSet(LAMBDA p : p.amount, S)
FirstSecrets == Secrets(Held \cup UNION Paper)

ASSUME WalletAssumption ==
  /\ Held \cup UNION Paper \subseteq Proof /\ IsFiniteSet(Held \cup UNION Paper)
  /\ \A p \in Held \cup UNION Paper : p.copy = 0
  /\ FirstSecrets = 1 .. Cardinality(FirstSecrets)
  /\ Price \in Nat \ {0}
  /\ MaxPays \in Nat /\ MaxEvents \in Nat
  /\ WebLocks \subseteq BOOLEAN
  /\ NoTab \notin Tabs /\ NoEntry \notin 1 .. MaxPays

VARIABLES
  inventory,   \* bazaar:inventory, the proofs of the slot
  pending,     \* bazaar:pending-presentation, the entries
  tab,         \* how far the payment of each tab has come
  paste,       \* the import each tab has under way
  lock,        \* the tab that holds the inventory's Web Lock
  locks,       \* whether this browser has Web Locks
  spent,       \* the mint: spent secrets
  fresh,       \* the next secret the wallet makes
  orphans,     \* secrets in requests whose sender is gone
  screen,      \* proofs shown to the player as a token to copy
  broken,      \* whether a write to localStorage has failed
  pays, events \* how many payments and other events there were

store == <<inventory, pending>>
counts == <<broken, pays, events>>
vars == <<inventory, pending, tab, paste, lock, locks, spent, fresh, orphans,
          screen, counts>>

Answers == {"ok", "failed", "refused", "expired", "unreachable"}
Stages == {"closed", "idle", "waiting", "swapping", "swapped", "committed", "posted"}
            \cup Answers

Blank(s) == [stage |-> s, no |-> 0, loaded |-> {}, keep |-> {}, send |-> {},
             entry |-> NoEntry, tried |-> {}]
\* A token as a string: which proofs it has, and how often.
Token(S) == [k \in Keys(S) |-> Cardinality({p \in S : Key(p) = k})]
Entries(S) == {e \in pending : Token(e.proofs) = Token(S)}
InPending == UNION {e.proofs : e \in pending}

TypeOK ==
  /\ inventory \subseteq Proof /\ screen \subseteq Proof
  /\ \A e \in pending : e.proofs \subseteq Proof /\ e.eid \in 1 .. MaxPays
  /\ \A d, e \in pending : d.eid = e.eid => d = e
  /\ \A t \in Tabs :
       /\ tab[t].stage \in Stages
       /\ tab[t].loaded \cup tab[t].keep \cup tab[t].send \subseteq Proof
       /\ tab[t].entry \in 1 .. MaxPays \cup {NoEntry}
       /\ tab[t].stage \in {"committed", "posted"} => Worth(tab[t].send) = Price
  /\ lock \in Tabs \cup {NoTab}
  /\ spent \subseteq 1 .. fresh - 1

Init ==
  /\ inventory = Held /\ pending = {}
  /\ tab = [t \in Tabs |-> Blank("closed")]
  /\ paste = [t \in Tabs |-> [stage |-> "none", proofs |-> {}]]
  /\ lock = NoTab /\ locks \in WebLocks
  /\ spent = {} /\ fresh = Cardinality(FirstSecrets) + 1
  /\ orphans = {} /\ screen = {}
  /\ broken = FALSE /\ pays = 0 /\ events = 0

Event == events < MaxEvents /\ events' = events + 1

\* A write to localStorage that works, or one that throws, if the bound allows.
Write(ok) ==
  \/ ok /\ UNCHANGED <<broken, events>>
  \/ ~ok /\ Event /\ broken' = TRUE

\* mergeProofs, by keyset id and secret: what comes in is added once, and only
\* if it is not there.
OneEach(S) == {CHOOSE p \in S : Key(p) = k : k \in Keys(S)}
MergeProofs(existing, incoming) ==
  existing \cup {p \in OneEach(incoming) : Key(p) \notin Keys(existing)}
Merge(S) == MergeProofs(inventory, S)

\* A request to the mint or the server that has a proof twice is refused.
Twinless(S) == \A p, q \in S : p.secret = q.secret => p = q
Request(S) == IF Twinless(S) THEN {Secrets(S)} ELSE {}

\* reclaimPendingPresentations over the entries E: those that could be merged
\* into the inventory go, unless the stash itself cannot be written.  It is not
\* written when nothing goes.
Reclaim(E) ==
  \E done \in SUBSET E, cleared \in BOOLEAN :
    /\ done = {} => cleared
    /\ Write(done = E /\ cleared)
    /\ inventory' = Merge(UNION {e.proofs : e \in done})
    /\ pending' = IF cleared THEN pending \ done ELSE pending

\* onHello: a page opens (or reloads) and takes back whatever is pending.
Open(t) ==
  /\ tab[t].stage = "closed"
  /\ Reclaim(pending)
  /\ tab' = [tab EXCEPT ![t] = Blank("idle")]
  /\ UNCHANGED <<paste, lock, locks, spent, fresh, orphans, screen, pays>>

\* A tab dies: its lock is released, what it holds in memory is gone, and a
\* request it has sent may still arrive.
Close(t) ==
  /\ tab[t].stage # "closed"
  /\ Event
  /\ tab' = [tab EXCEPT ![t] = Blank("closed")]
  /\ paste' = [paste EXCEPT ![t] = [stage |-> "none", proofs |-> {}]]
  /\ lock' = IF lock = t THEN NoTab ELSE lock
  /\ orphans' = orphans \cup
       (IF tab[t].stage \in {"swapping", "posted"} THEN Request(tab[t].send) ELSE {})
  /\ UNCHANGED <<store, locks, spent, fresh, screen, broken, pays>>

\* payGate: the bare request is answered 402; a tab pays one at a time.
PressPay(t) ==
  /\ tab[t].stage = "idle" /\ pays < MaxPays
  /\ pays' = pays + 1
  /\ tab' = [tab EXCEPT ![t] = [Blank("waiting") EXCEPT !.no = pays']]
  /\ UNCHANGED <<store, paste, lock, locks, spent, fresh, orphans, screen, broken, events>>

\* normalizePopProofIds: a short id becomes the full one, whether or not there
\* is an entry of that id and secret.
Expand(S, no) == {IF p.id = "full" THEN p ELSE [p EXCEPT !.id = "full", !.copy = no] : p \in S}

Exact(S) == {X \in SUBSET S : Worth(X) = Price}
\* The inputs cashu-ts takes into a swap: enough, and none too many.
Enough(S) == {X \in SUBSET S : Worth(X) >= Price /\ \A p \in X : Worth(X \ {p}) < Price}

\* wallet.send over what was loaded: the proofs of an exact part change hands
\* as they are; otherwise the inputs go to the mint, and stand in send until
\* it answers.
Sending(t, have) ==
  LET proofs == Expand(have, tab[t].no)
      from(S, s) == \E X \in S :
        tab' = [tab EXCEPT ![t].stage = s, ![t].loaded = have,
                           ![t].send = X, ![t].keep = proofs \ X]
  IN IF Exact(proofs) # {} THEN from(Exact(proofs), "swapped")
                           ELSE from(Enough(proofs), "swapping")

\* Mutant: the lock is never asked for.
LoadUnlocked(t) ==
  /\ tab[t].stage = "waiting" /\ Worth(inventory) >= Price
  /\ Sending(t, inventory)
  /\ UNCHANGED <<store, paste, lock, locks, spent, fresh, orphans, screen, counts>>

\* payPopRequest under withInventoryLock: the inventory is read, and has to do.
Load(t) ==
  /\ tab[t].stage = "waiting"
  /\ locks => lock = NoTab
  /\ IF Worth(inventory) >= Price
       THEN Sending(t, inventory) /\ lock' = IF locks THEN t ELSE lock
       ELSE tab' = [tab EXCEPT ![t] = Blank("idle")] /\ UNCHANGED lock
  /\ UNCHANGED <<store, paste, locks, spent, fresh, orphans, screen, counts>>

\* The mint swaps the inputs for the price and the change, in new secrets.
MintSwaps(t) ==
  LET change == Worth(tab[t].send) - Price
      new(s, a) == [id |-> "full", copy |-> 0, secret |-> s, amount |-> a]
  IN /\ tab[t].stage = "swapping"
     /\ Secrets(tab[t].send) \cap spent = {} /\ Twinless(tab[t].send)
     /\ spent' = spent \cup Secrets(tab[t].send)
     /\ fresh' = fresh + 2
     /\ tab' = [tab EXCEPT ![t].stage = "swapped",
                           ![t].send = {new(fresh, Price)},
                           ![t].keep = @ \cup {new(fresh + 1, change)}]
     /\ UNCHANGED <<store, paste, lock, locks, orphans, screen, counts>>

\* The swap throws: the mint refuses spent or doubled inputs, the request is
\* lost on its way (it may arrive all the same), or the answer is.
SwapThrows(t) ==
  /\ \/ tab[t].stage = "swapping"
        /\ orphans' = orphans \cup Request(tab[t].send)
     \/ tab[t].stage = "swapped" /\ Secrets(tab[t].send) \cap Secrets(tab[t].loaded) = {}
        /\ UNCHANGED orphans
  /\ tab' = [tab EXCEPT ![t] = Blank("idle")]
  /\ lock' = IF lock = t THEN NoTab ELSE lock
  /\ UNCHANGED <<store, paste, locks, spent, fresh, screen, counts>>

\* Mutant: every entry under the first id.
StashSame(S, no) == IF Entries(S) # {} THEN pending ELSE pending \cup {[eid |-> 1, proofs |-> S]}

\* stashPendingPresentation: the same token is stashed once.
Stash(S, no) == IF Entries(S) # {} THEN pending ELSE pending \cup {[eid |-> no, proofs |-> S]}

\* Mutant: the inventory is replaced by what the swap left.
NewInventoryBlind(t) == tab[t].keep

\* What this swap kept, and whatever came in since the inventory was loaded.
NewInventory(t) ==
  MergeProofs(tab[t].keep, {p \in inventory : Key(p) \notin Keys(tab[t].loaded)})

\* localInventory.commit, and the error it throws when a write fails: then the
\* proofs at risk are stashed, if that works, and shown as a token to copy.
Commit(t) ==
  /\ tab[t].stage = "swapped"
  /\ \E saved, stashed \in BOOLEAN :
       LET atRisk == IF saved THEN tab[t].send ELSE tab[t].keep \cup tab[t].send
       IN /\ Write(saved /\ stashed)
          /\ inventory' = IF saved THEN NewInventory(t) ELSE inventory
          /\ pending' = IF stashed THEN Stash(atRisk, tab[t].no) ELSE pending
          /\ IF saved /\ stashed
               THEN tab' = [tab EXCEPT ![t].stage = "committed"] /\ UNCHANGED screen
               ELSE tab' = [tab EXCEPT ![t] = Blank("idle")] /\ screen' = screen \cup atRisk
  /\ lock' = IF lock = t THEN NoTab ELSE lock
  /\ UNCHANGED <<paste, locks, spent, fresh, orphans, pays>>

\* payGate finds the entry of its token and presents the token.
Present(t) ==
  /\ tab[t].stage = "committed"
  /\ tab' = [tab EXCEPT ![t].stage = "posted",
                        ![t].entry = IF Entries(tab[t].send) = {} THEN NoEntry
                                     ELSE (CHOOSE e \in Entries(tab[t].send) : TRUE).eid]
  /\ UNCHANGED <<store, paste, lock, locks, spent, fresh, orphans, screen, counts>>

\* The server redeems the token and grants, or redeems it and then fails: no
\* session, nothing in reach, no revenue sink.
ServerRedeems(t) ==
  /\ tab[t].stage = "posted"
  /\ Secrets(tab[t].send) \cap spent = {} /\ Twinless(tab[t].send)
  /\ spent' = spent \cup Secrets(tab[t].send)
  /\ \E a \in {"ok", "failed"} : tab' = [tab EXCEPT ![t].stage = a]
  /\ UNCHANGED <<store, paste, lock, locks, fresh, orphans, screen, counts>>

\* The server does not redeem it.
ServerRefuses(t) ==
  /\ tab[t].stage = "posted"
  /\ \E a \in {"refused", "expired", "unreachable"} : tab' = [tab EXCEPT ![t].stage = a]
  /\ UNCHANGED <<store, paste, lock, locks, spent, fresh, orphans, screen, counts>>

Own(t) == {e \in pending : e.eid = tab[t].entry}

\* clearPendingPresentation
ClearPending(t) == pending \ Own(t)

\* A 200: the entry goes, if the stash can be written.
Granted(t) ==
  /\ tab[t].stage = "ok"
  /\ \E cleared \in BOOLEAN :
       /\ Own(t) = {} => cleared
       /\ Write(cleared)
       /\ pending' = IF cleared THEN ClearPending(t) ELSE pending
  /\ tab' = [tab EXCEPT ![t] = Blank("idle")]
  /\ UNCHANGED <<inventory, paste, lock, locks, spent, fresh, orphans, screen, pays>>

\* The two answers that are tried again with the same token, once each.
Retry(t) ==
  /\ tab[t].stage \in {"expired", "unreachable"} \ tab[t].tried
  /\ tab' = [tab EXCEPT ![t].stage = "posted", ![t].tried = @ \cup {tab[t].stage}]
  /\ UNCHANGED <<store, paste, lock, locks, spent, fresh, orphans, screen, counts>>

\* Mutant: only the return, without the finally.
ReturnsOnly(t) ==
  /\ tab[t].stage \in {"failed", "refused"} \cup tab[t].tried
  /\ tab' = [tab EXCEPT ![t] = Blank("idle")]
  /\ UNCHANGED <<store, paste, lock, locks, spent, fresh, orphans, screen, counts>>

\* Every other way out of the loop takes the entry back: the remaining answers,
\* and a request that throws, on its way there or on its way back.
GivesUp(t) ==
  /\ tab[t].stage \in {"posted", "failed", "refused"} \cup tab[t].tried
  /\ Reclaim(Own(t))
  /\ orphans' = orphans \cup
       (IF tab[t].stage = "posted" THEN Request(tab[t].send) ELSE {})
  /\ tab' = [tab EXCEPT ![t] = Blank("idle")]
  /\ UNCHANGED <<paste, lock, locks, spent, fresh, screen, pays>>

\* A request without a sender arrives, if its proofs are still good, or not.
OrphanArrives(o) ==
  /\ o \in orphans
  /\ orphans' = orphans \ {o}
  /\ spent' = IF o \cap spent = {} THEN spent \cup o ELSE spent
  /\ UNCHANGED <<store, tab, paste, lock, locks, fresh, screen, counts>>

OrphanLost(o) ==
  /\ o \in orphans
  /\ orphans' = orphans \ {o}
  /\ UNCHANGED <<store, tab, paste, lock, locks, spent, fresh, screen, counts>>

Pastes(t, s, S) == paste' = [paste EXCEPT ![t] = [stage |-> s, proofs |-> S]]

\* importTokenChecked: a token is pasted whose proofs are not all held.
Paste(t, token) ==
  LET new == {p \in token : Key(p) \notin Keys(inventory)}
  IN
  /\ tab[t].stage # "closed" /\ paste[t].stage = "none"
  /\ Event
  /\ new # {}
  /\ Pastes(t, "asked", new)
  /\ UNCHANGED <<store, tab, lock, locks, spent, fresh, orphans, screen, broken, pays>>

\* The mint says which of them are unspent; without it they all count.
Checked(t) ==
  /\ paste[t].stage = "asked"
  /\ \/ Pastes(t, "told", {p \in paste[t].proofs : p.secret \notin spent})
     \/ Pastes(t, "told", paste[t].proofs)
  /\ UNCHANGED <<store, tab, lock, locks, spent, fresh, orphans, screen, counts>>

\* addProofs: merged into the inventory as it is now.
Added(t) ==
  /\ paste[t].stage = "told"
  /\ \E ok \in BOOLEAN :
       Write(ok) /\ inventory' = IF ok THEN Merge(paste[t].proofs) ELSE inventory
  /\ Pastes(t, "none", {})
  /\ UNCHANGED <<pending, tab, lock, locks, spent, fresh, orphans, screen, pays>>

Proceed(t) ==
  \/ Load(t) \/ MintSwaps(t) \/ SwapThrows(t) \/ Commit(t) \/ Present(t)
  \/ ServerRedeems(t) \/ ServerRefuses(t)
  \/ Granted(t) \/ Retry(t) \/ GivesUp(t)

Next ==
  \/ \E t \in Tabs : Open(t) \/ Close(t) \/ PressPay(t) \/ Proceed(t)
                       \/ Checked(t) \/ Added(t)
  \/ \E t \in Tabs, token \in Paper : Paste(t, token)
  \/ \E o \in orphans : OrphanArrives(o) \/ OrphanLost(o)

Spec == Init /\ [][Next]_vars

\* A tab goes on with its payment, each request comes to an answer or an error,
\* and the player comes back to a page that was closed.
FairSpec == Spec /\ \A t \in Tabs : WF_vars(Proceed(t)) /\ WF_vars(Open(t))

------------------------------------------------------------------------------
(* Properties *)

\* What can be found again: in storage, or shown to the player.
Recoverable == Secrets(inventory \cup InPending \cup screen)

\* No tab's import, commit, clearing or recovery makes a proof that can be found
\* again disappear, before the mint has spent it.
NothingLost == [][Recoverable \ spent' \subseteq Recoverable']_vars

\* With Web Locks, what a payment has loaded is in the inventory until it commits.
LoadedStays ==
  locks => \A t \in Tabs :
             tab[t].stage \in {"swapping", "swapped"} => tab[t].loaded \subseteq inventory

\* A token that was produced does not wait in the stash for ever: it is paid
\* out or taken back, as long as storage takes writes.
PendingComesHome ==
  \A n \in 1 .. MaxPays :
    (\E e \in pending : e.eid = n) ~> (broken \/ \A e \in pending : e.eid # n)

\* payer.ts: every terminal exit but a 200 leaves the token unspent, so what is
\* taken back from the stash is unspent.
ReclaimedIsUnspent ==
  [][(InPending \cap (inventory' \ inventory)) \subseteq {p \in InPending : p.secret \notin spent}]_vars
==============================================================================
