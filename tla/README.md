# Night Bazaar in TLA+

Night Bazaar is a small online world whose gates are opened, and whose games
are played, for bearer tokens ("pops") that a mint issues and redeems.  A Rust
server keeps the world, the paid HTTP gates, the revenue file and the vault of
prizes; a TypeScript client keeps a wallet in the browser and plays.  Money and
prizes pass through code where requests overlap, sockets close, files are
written half, processes die and a mint answers late.  These modules say what
that code promises and check it.

## The system

| component | state | operations | talks to |
|---|---|---|---|
| paid gates (`server/src/gates.rs`, session table of `game.rs`) | live sessions and their entitlements | redeem at the mint, find the session, record, then grant or play; connect, disconnect | sink, game, mint, payer |
| revenue sink (`sink.rs`) | an append-only file behind a mutex | `open`, `record` (write, newline, fsync) | gates |
| unit rotation (`mint.rs`, `multiunit.rs`, refresh loop of `main.rs`) | the accepted units with a charge state per gate and unit; the unit lists the clients are told | probe, pick, refresh, advertise; resolve the unit of a request | mint, gates, game configuration |
| game (`game.rs`, `vault.rs`, `booth.rs`) | players, outboxes, claimed chests, riddle index, gacha counter, bell plays, vault file | connect, disconnect, grant, tick, jump, claim, riddle, gacha, bell, pump | gates, world, client |
| world (`world.rs`, the reach check of `game.rs`) | a position, a height and a speed per session | step, jump, reach check | game |
| timing bell (`booths.ts`, `main.ts`; `game.rs`, `booth.rs`) | the session's play at the server; the overlay, its deadline and closing timers on the page | pay and start, press, judge, show the verdict, expire, close | client and game over HTTP |
| client wallet and payer (`wallet.ts`, `payer.ts`, `main.ts`, `fetch-with-pop/src/wallet.ts`) | inventory and pending stash in localStorage, shared by tabs; a Web Lock | pay (load, swap, commit, present, retry, take back), import, recover at startup | mint, gates |
| the page (`main.ts`, `net.ts`, `booths.ts`, `hud.ts`, `world3d.ts`) | session, scene, entitlements, keys, focus, riddle modal, prize panel | connect, dispatch of frames, keys, `[E]`, `[B]`, pay | game over one socket, gates over HTTP |
| payers of a 402 (`payer.ts`; `fetch-with-pop.ts`, `mpp.ts`) | one call: its budget, its token, the challenge it answers | bare request, check, pay, present, retry | any server, wallet |
| charge codecs (`charge01.ts`, `envelope.ts`) | none | parse a challenge, check it, echo it | payers, verifier |
| configuration, proxy, drawing, scripts | see "Not modelled" | | |

Where it is hard:

* **Order and crashes.**  A payment is redeemed, recorded and honoured in three
  steps under three locks, with a crash or a closing socket possible at each.
* **Files.**  A line can be written half; unsynced bytes can be lost; a vault
  is replaced by a rename before the answer leaves.
* **Two reads, one decision.**  The unit of a request is chosen and then looked
  up under two locks, with a refresh in between; a probe is judged by a clock
  that ran on while the answer was under way.
* **Bounds.**  An outbox of fixed size drops what does not fit.
* **Shared storage.**  Tabs rewrite one inventory after waiting for a mint, and
  a request whose sender is gone may still be honoured.
* **A page that is told late.**  Frames wait in an outbox, are dropped, or come
  before the scene is there, while the player walks, types and pays on what the
  page knows; timers and presses of one bell play meet the next.
* **A server that may answer anything.**  A payer meets challenge after
  challenge, in forms that one codec accepts and the other does not.
* **Discrete geometry and time.**  Only the ends of a step are tested against
  walls and stalls; the jump is a handful of ticks; the bell is judged by
  another clock than the one the player sees.

What makes each correct: **gates**: a grant stands on a durable record of its
payment, and everything redeemed is recorded, or is a named exception.
**Sink**: acknowledged means on stable storage, lines do not mix.  **Units**:
only live units enter, clients are told what is accepted unless a unit cannot be
built, and the set follows the mint.  **Game**: a prize is paid once, what is
advertised can be claimed, a prize that left the vault reaches somebody or is
lost in a way that is named, a paid bell play is judged at most once.
**World**: no standing in or walking through stalls, courts hold those who paid,
rooms change in doors, reach is sight.  **Bell**: the verdict is the distance to
a crossing, of the play that was pressed or a newer one; overlays close, and
only an older timer closes a live one.  **Page**: the avatar stops when the keys
are let go, open courts are drawn open, and an open court is paid again only in
ignorance.  **Payers**: a call spends what its caller approved, once, and its
echo can be verified unless its codec lost a part of the header.  **Wallet**:
stored value does not vanish before the mint has spent it, and a produced token
comes home.

## Modules

| module | models | notes |
|---|---|---|
| `PaidAccess` | nothing in the code | the promise of the gates: payments are recorded for ever, a gate is open only over a payment, what ends stays closed |
| `Gates` | `gates.rs`, sessions | implements `PaidAccess` |
| `GatesProofs` | | inductive invariant, safety theorems and the refinement |
| `DurableLog` | nothing in the code | the promise of the sink: what is acknowledged is stored, and stays |
| `RevenueSink` | `sink.rs` | implements `DurableLog` |
| `RevenueSinkProofs` | | contiguous lines, stored acknowledgements, the refinement |
| `Units`, `MCUnits` | `mint.rs`, `multiunit.rs`, refresh loop | `MCUnits`: a rotation of keysets |
| `UnitsProofs` | | for any finite set of units and any keysets |
| `Game`, `MCGame` | `game.rs`, `vault.rs`, `booth.rs` | geometry reduced to places |
| `GameProofs` | | for any world, stock and number of sessions |
| `World`, `MCWorld` | `world.rs`, reach check | `MCWorld`: the default world, in integers |
| `WorldProofs` | | for every layout and every point of the plane |
| `BellTiming` | successive bell plays on both sides | |
| `BellTimingProofs` | | for any period, tolerance and number of plays |
| `Client`, `MCClient` | the page, its socket, its session | `MCClient`: a door, a lantern with a chest, a shrine |
| `ClientProofs` | | for any map and any bounds of the queues |
| `Challenge` | `charge01.ts`, `envelope.ts` | pure; used by `Payers` |
| `Payers`, `MCPayers` | `payGate`, `fetchWithPop`, `popPaymentHandler` | `MCPayers`: honest and stray challenges |
| `ClientWallet`, `MCClientWallet` | wallet and payer | `MCClientWallet`: the tokens of a run |
| `PaymentProofs` | | theorems about `ClientWallet` and `Payers` |

How state and actions correspond to the code:

* **Gates.**  `session` and `entitled` are the players map; `stage` is how far a
  request has come in `gate_paid` or `play_paid`; `ledger` is the file of the
  sink.  `Redeem` and `Refuse` are `require_charge`, which is a library: a pop
  is redeemed once.  `MissingSession`, `PersistRevenue`, `SinkFails`, `Grant`,
  `Play`, `Unbound` are the returns of the handlers in their order.  `Crash`
  ends every session and drops every request under way.  A play appears as
  found in reach or not; what it does is in `Game`.
* **RevenueSink.**  A line is a head and a tail, so that `write_all` can stop
  between them.  `Lock` .. `Sync` are the calls of `record` under its mutex;
  `WriteFails` and `SyncFails` its errors.  `WriteBack`, `Crash` and `PowerLoss`
  are the kernel and the host.
* **Units.**  `rows` is what the mint lists, `registry` is `Inner` (valid units
  and states), `advertised` the configuration.  `PickValid` is
  `pick_valid_units`.  The loop is `Ask`, `Answer` (external), `Refresh`,
  `Advertise` or an error; a request chooses its unit and resolves it in two
  steps, as the code takes the lock twice.  `Unbuildable` are the units whose
  name cashu refuses: `build_states` fails for a set with one of them, the
  registry stays, and the set is advertised all the same.
* **Game.**  Every operation holds the one game lock and is one action; the pump,
  the clock, closing sockets and a crash come in between.  The vault survives a
  crash, memory does not: not the count of the pulls, and not what waits in an
  outbox.  Frames that the server sends again are all alike, prizes are kept
  apart.  `lost` is a history: the prizes that left the vault and reach nobody.
* **World.**  Tenths of a world unit on the plane; heights and vertical speeds in
  the unit in which the code's jump is exact.  `StepLegal`, `Advance` and
  `SegmentIntersects` follow `step_legal`, `step` and
  `segment_intersects_rect`, with divisions cross-multiplied.
* **BellTiming.**  `live` is the session's entry of `bell_plays`; `bell` is
  `BoothUI.bell`; `press` and `closer` are, per play, the request that
  `pressBell` awaits and the `setTimeout` that its verdict or expiry left
  behind.  Clocks are ages and what is left of deadlines; what is due may be
  late, as frames and timers are, and requests and answers take any time.  The
  press names no play, as in the code, so `Judge` looks at whatever is live.
* **Client.**  `srv` is the session's `Player`, `down` its outbox with the wire
  behind it, `up` the messages under way, `page` the variables of `main.ts`
  with the socket of `net.ts`, the riddle modal, the focus and the prize panel.
  `Deliver` is `onmessage` with the handler it calls, each an operator of its
  own.  A place stands for the room, booth, chest and door that the page's
  distance checks find there.  `Pay` is `payAndReport` and `payAndPlay` up to
  their request, `Answered` their end.  `selfPosition` glides behind the
  snapshots, so `ApplySnapshot` leaves it where it was or moves it to where the
  server has the avatar: places tell no more of a glide than its two ends.
  `keys` are the keys the page takes as held; a key let go where it does not
  hear of it stays there.
* **Challenge, Payers.**  A challenge is its scheme, which parameters it has,
  which comes first and how they are written, and what its request decodes to.
  `Read` and `Value` are what a codec makes of it: `charge01.ts` takes a foreign
  scheme for a part of the first parameter's name, `envelope.ts` ends a value at
  the first quote in it.  An echo is the canonical text of an object: the set of
  its members.  `call` has the locals
  of one `payGate` or `fetchWithPop`; `Offers` is all the server may issue, at
  any time and as often as it likes.
* **ClientWallet.**  `inventory` and `pending` are the two localStorage keys,
  `tab` the locals of `payGate` and `payPopRequest` in each tab, `lock` the Web
  Lock, `orphans` requests whose sender is gone.  JavaScript runs to completion:
  what a tab does between two waits is one step.  `Sending` keeps what cashu-ts
  is relied on for: an exact part is handed over without the mint, otherwise
  enough inputs are swapped.  The arrays of the code may hold a secret twice, as
  a short and a full copy of one proof are two entries, also after the short one
  was expanded; `copy` keeps such entries apart, and a request that has both is
  refused (`Twinless`).

## What is checked

`MaxX` constants, `Tours` and `Walks` are bounds; none of them is in the code.

| run | bounds | shows |
|---|---|---|
| `gates` | 2 sessions, 2 requests, 2 pops, 2 entry gates, 1 play | `GrantIsRecorded`, `LedgerMatchesAnswers`, `ValueAccounted`, `EntitledIsLive`; `ImplementsPaidAccess`; `RedeemedIsAnswered` |
| `sink` | 3 records, each written once | `LinesContiguous`, `ImplementsDurableLog` |
| `units` | 5 seconds, 2 pop units, one that cashu refuses, a foreign one, 5 keysets that may appear, 1 request | `NoDeadUnitEnters`, `AdvertisedInStep`, `FollowsMint` |
| `game` | 2 sessions, an outbox of 2, a cycle of 3, 6 pulls, 2 bell plays, 4 tours | `PrizePaidOnce`, `UnclaimedIsStocked`, `PrizeAccounted`, `BellPressIsPaid` |
| `world` | the default world, 3 walks on grids of 0.2 and 0.4 | `StandsClear`, `CourtIsPaid`, `WalksAround`, `SightIsExact` |
| `bell` | 3 plays, a swing of 12 steps, a play of 15, fades of 6 and 5 | `VerdictIsDistance`, `LostOnlyToOlder`, `OverlayCloses` |
| `client` | 3 places, 1 key, an outbox of 2, 2 messages up, 3 payments | `NeverRunsOn`, `OpenIsDrawn`, `PaysAgainOnlyUntold` |
| `payers` | 33 challenges, 2 budgets or none, a wallet of 8 | `WithinBudget`, `EchoVerifies` |
| `wallet` | 2 tabs, pops of 1 and 3 for a price of 2, 2 payments, 1 closing, import or failing write, with and without Web Locks | `NothingLost`, `LoadedStays`, `PendingComesHome` |
| `sink_torn`, `wallet_spent`, `client_charm` | as small as shows it | where the code and its own words part (below) |

Every passing run also checks the type invariant of its module: `TypeOK`, and
`PayersTypeOK` for `Payers`, which leaves the names of `ClientWallet` free so
that `PaymentProofs` can extend both.

Why the bounds are enough to be worth running:

* *gates*: two requests and two sessions are what it takes for a grant to meet
  another's payment, closing or crash; the theorems below lift the safety
  properties to any number.
* *sink*: a call can meet one that failed before it and one that waits behind it.
* *units*: the clock passes the boot unit's end, the end of both its successors
  and the second in which one expires; the foreign and the undated keyset are
  there with them, and a unit that cannot be built comes and goes while another is
  renewed.
* *game*: a cycle of three in six pulls turns over twice; two tokens per
  target give a second winner and a third who finds none; an outbox of two
  fills.  A tour is the set of places a behaviour keeps to: chests, lantern,
  shrine and bell share no state but the sessions, so one at a time loses only
  mixtures.  Sessions are symmetric.
* *world*: a tick's stride is 0.4 and the thinnest stall is 1.6 wide, so a grid
  of 0.2 has every approach to an edge in two phases.  The grids are aligned
  with the spawns, while real positions are doubles and diagonals are scaled by
  the root of two: the run shows the rules, not their rounding.  The theorems
  take the grids away: any layout, any point.
* *wallet*: one event besides the payments (a closing, an import, or a failing
  write) meets two payments in every order.  Two such events in one behaviour
  are beyond the run.  The token to paste has a short copy of the pop of one that
  is in the wallet, next to a pop of five: pasted, the pop of one is there twice,
  and the two copies make the price.
* *bell*: the play outlives a full swing, so crossings come from both sides and
  a press may meet the tolerance, the middle, and the time after the end; a
  fade is half a swing, so the timer of one play, or of two, runs into the next.
  The proportions are the code's as to order, not to scale.
* *client*: three payments are a body, a court, and that court again; an outbox
  of two drops the frame that opens it; two messages up let a key be pressed
  and let go before the server hears of either.
* *payers*: each stray challenge leaves the honest one in one way, so each check
  of either payer is the only one to refuse some offer; prices lie below, at and
  above the budgets and above the wallet.

Deadlock is checked for `world` and `payers`.  Elsewhere the bounds, the end of
all plays, or a closed page stop the model.

Fairness: *gates*: a handler with a redeemed request goes on, as tokio polls a
ready task and nothing but short locks are in its way; nobody promises that
requests come or sockets stay.  *units*: the refresh loop ticks for ever and its
HTTP client has a timeout (weak); a mint that is asked again and again answers
again and again (strong).  *wallet*: a tab that is open goes on, every request
ends in an answer or an error, and the player reopens a closed page; closings
are bounded.  *bell*: time passes, frames are drawn, a timer that is due fires,
and a press is answered or fails (weak); nobody promises that plays are paid for
or pressed.

## What is proved

Every invariant and every safety property of the runs that pass is a theorem,
for all values of the constants that meet the module's assumption, and so are
both refinements.  Each proofs module has an inductive invariant `IInv`
(`PayersIInv` for `Payers`), a lemma for what each action does to it, and one
theorem per property that follows from it.  Bounds such as `MaxPays` are
variables of the theorems like any other constant.

| module | theorems | for any |
|---|---|---|
| `GatesProofs` | `TypeCorrect`, `GrantsAreRecorded`, `EntitledAreLive`, `LedgerMatches`, `ValueIsAccounted`, `Refinement` | sessions, requests, pops, gates |
| `RevenueSinkProofs` | `TypeCorrect`, `LinesAreContiguous`, `AckedAreStored`, `Refinement` | set of records |
| `UnitsProofs` | `TypeCorrect`, `AdvertisesTheRegistry`, `OnlyLiveUnitsEnter` | finite set of units, keysets, requests |
| `GameProofs` | `TypeCorrect`, `PaysOnce`, `ChestsAreStocked`, `BellIsPaid`, `NoPrizeVanishes` | world, stock, sessions, cycle |
| `WorldProofs` | `TypeCorrect`, `AlwaysStandsClear`, `CourtsArePaid`, `WalksAroundWalls`, `SeesExactly` | layout, spawns, jump |
| `BellTimingProofs` | `TypeCorrect`, `JudgesByDistance`, `OnlyOlderClose` | swing, tolerance, fades, plays |
| `ClientProofs` | `TypeCorrect`, `LettingGoStops`, `EntitledIsDrawn`, `ToldNeverPays` | map, queues, payments |
| `PaymentProofs`, wallet | `TypeCorrect`, `LoadedIsThere`, `LosesNothing` | tabs, proofs, tokens, price |
| `PaymentProofs`, payers | `PayersTypeCorrect`, `StaysWithinBudget`, `EchoesVerify` | challenges, budgets, balance |

**Gates**, from `GatesAssumption` (gates of plays and entries are disjoint, spawn
is an entry, "no session" is no session id).  That a line's token is in no other
line follows only from the requests.  `IInv` adds that each line is the line of a
request that has passed the sink (`LineHasRequest`), that each such request has
its line (`RequestHasLine`), that charged requests and spent pops correspond
(`ChargedIsSpent`, `SpentIsCharged`), and that no two requests were charged with
one pop (`TokensApart`).  One lemma, `StepKeepsRequests`, carries these over
every step of a handler; sockets and crashes touch only entitlements and stages.
In the refinement, recording is `Pay`, granting is `Open`, closing and crashing
are `End`, and all else stutters.

**Sink**, from `SinkAssumption` (nobody is no record).  Where a tail lands is
settled by what its call wrote before, so `IInv` says who holds the mutex
(`HolderOwns`) and that the end of the file is what the holder wrote
(`HeadIsLast`, `LineIsLast`); `AckedIsStored` is kept across `PowerLoss`, which
leaves no less of the file than was synced.  In the refinement `Sync` is
`StoreAndAck`, `WriteBack` and `PowerLoss` may store lines of which nobody was
told, and all else stutters.

**Units**, from `UnitsAssumption` (the pop units are finitely many; the server
does not boot without a valid unit, or with one it cannot build).
`PendingIsRegistered` says that between the two writes of a refresh the registry
already has what will be advertised, if that could be built; a registry holds
only units that could be, which makes `AdvertisedInStep` exact.  The
newest unit of a finite set is shown to exist by well-founded induction.
`NoDeadUnitEnters` needs nothing but the order of `Refresh`: the clock is read
after the answer.

**Game**, from `GameAssumption` (the spawns are in the street, each target has
tokens of its own and a stock without repetition, a frame is no token).  A token
is in the file, in an outbox or with a client: `FileIsStock` says the file only
loses tokens, `HeldByOne` that no two sessions have one, and `WonOnce` that a
session without a win at a lantern has none of its tokens, and one with a win
has one at most.  `PrizeAccounted` is inductive by itself: `StillAccounted` has
what a step pops be the client's, in an outbox or lost, and what it drops be
lost.

**World**, from `WorldAssumption` and `SpawnAssumption`.  They ask that stalls
are thicker than one stride (0.4 against 1.6 in the default world), that stride,
jump and range are natural numbers, and that the spawns are clear: what the
code's layout has, and its `step_legal` tests by ends only, relies on.
`TypeOK`, `StandsClear` and `CourtIsPaid` are inductive together; `StepsAround`
follows from them for one tick, since a leg of one stride that enters a stall
ends in it.  `SeesExactly` is about the slab clipping of
`segment_intersects_rect`: `ClipIsExact` shows, with the times at which a segment
enters and leaves each slab as fractions, that clipping finds exactly the
rectangles a line meets.

**Bell**, from `BellAssumption` (times are natural numbers, the swing takes some).
The press names no play, so which one it is judged on was settled when plays were
paid for: `LiveIsLast`, `PaysWhileIdle`, and `PastPlays`, that a press or a timer
belongs to an earlier play, or to the one on the screen once it is pressed.

**Page**, from `ClientAssumption` (the spawns are in the street, doors lead to
courts, booths are no gates).  What the page does depends on frames and messages
still under way, so `IInv` is about both queues: they are of the protocol
(`WireOK`), nothing happens before the socket opens (`Fresh`), the last intent on
the wire is that of the keys unless a grant stopped the avatar
(`IntentIsHeard`), the hello comes first (`HelloFirst`), a court's payment had a
scene (`SceneForCourts`), and an entitlement is known, on its way, or lost
(`Told`).

**Wallet**, from `WalletAssumption` (finitely many proofs are there to begin
with, none of them expanded yet, with secrets numbered from one, and a price is
positive).  `LoadedStays`
holds by the lock, `LockHeld`; that nothing is lost holds without it, because
`LoadedIsKept` has whatever a payment loaded kept, sent, or spent by the swap,
and `OwnIsSent` has the entry a payment clears hold the secrets of its own,
spent token.  `MergeKeeps` and `NewInventoryKeeps` say that merging by keyset id
and secret may add a second copy but drops no secret.
`Made` says that secrets are those made so far and that inventory, stash and
tabs hold finitely many; `NumberedOnce` keeps the stash's entries apart.
`Worth`, a sum over a set, is defined by the community modules through a
recursive function: `SumExists` shows that function to exist for finite sets, by
their subsets of growing size, and `WorthAddsUp` says what it does.  It is the sum the
code makes: a proof that is there in two copies counts twice, so `TypeCorrect`
says that a presented token adds up to the price, not that a mint takes it.

**Payers**, from `PayersAssumption` (offers are challenges, the wallet's mint and
unit are among theirs, budgets are numbers).  Nothing is presented that was not
counted by a retry's flag (`OnePerRetry`), nothing moves before the checks
(`NothingMoved`), and what is echoed was readable when it came (`SeenIsRead`).
`PlainEcho` and `EnvelopeEcho` compare, for each codec, what was issued with what
is echoed: they are the same but for the headers of `Unechoed`, and those never
verify.

What the proofs asked of the models: the assumptions that the pop units and the
wallet's first proofs are finitely many, which each program run meets; and that
choices with several conditions be chains of IF where the code has `else if`,
as a CASE whose arms overlap leaves its value open.

Only model-checked: liveness (`RedeemedIsAnswered`, `FollowsMint`,
`OverlayCloses`, `PendingComesHome`), which rests on fairness and ENABLED.  They
are shown for the instances of the runs.  The three properties that the code
violates are refuted by their runs.

## Where code and words part

Runs that fail on purpose, each against a sentence of the repository:

* `sink_torn` (`sink.rs:158`): after a failed partial write the next record shares
  its line; `sink.rs:91` says each line is atomic.
* `wallet_spent` (`payer.ts:193`): a token redeemed before an answer of 400, 409 or
  500 is taken back as unspent; `payer.ts:144` says such exits leave it unspent.
* `client_charm` (`main.ts:431`): the token of a won charm is in the answer of the
  pull, and nothing shows it; `booths.ts:142` says "claim it from your prize".

Seen while modelling, and not run:

* A request without a session id is redeemed and answered 400 before the sink
  (`gates.rs:238`), while `game.rs:170` has every redeemed proof recorded.
  `ValueAccounted` names the exception.
* A gate that is open for a session is charged again (`gates.rs:231`);
  `payer.ts:99` expects 200 without payment.
* With no valid unit at the mint the refresh loop keeps the old set
  (`main.rs:271`), while `multiunit.rs:32` has a unit drop when it expires.
  `FollowsMint` names the exception.
* A refresh between the two lock reads of a request that declares no unit
  answers it 409 (`multiunit.rs:320`).
* The shrine's card counts to a fixed eight (`booths.ts:143`), the cycle is
  configured (`config.rs:109`).
* A prize pushed to a full outbox is dropped and its token has left the vault
  (`game.rs:500`); `game.rs:126` says what is dropped is sent again.
  `PrizeAccounted` names it, with the prize in the outbox of a socket that
  closes, the one in an answer that nobody reads, and the one popped when the
  process dies.
* One unit that cashu refuses keeps the registry as it was
  (`multiunit.rs:171`), at every probe while the mint lists it, and the new set is
  advertised all the same (`main.rs:268`): clients are told of units that every
  gate answers 409, and the gates accept units past their date.
  `AdvertisedInStep` and `FollowsMint` name the exception.
* The count of the pulls is in memory (`game.rs:144`): a restart sets the cycle
  back, and the position a player was shown is no longer the one that wins.
* The drawn swing is shifted by the seed and swings once per period, the judged
  one is not shifted (`booths.ts:218`); the prompt asks for a press at the
  crossing that is drawn.
* The keyset id is part of a proof's identity, and a payment rewrites it from the
  short form to the full one (`wallet.ts:98`, fetch-with-pop's
  `wallet.ts:218`).  A token pasted in the other form, such as an old one, or
  the one that a failed write gave the player to copy, counts twice;
  `wallet.ts:141` says a re-paste is a no-op.  Both copies may then go out in one
  token, which the mint refuses.  The wallet run has the case: nothing is lost.
* `buildPaymentCredential` of fetch-with-pop (`envelope.ts:211`) echoes `expires`
  but not `digest`, `opaque` or `description`, an empty `expires` is left out, and
  a value with an escaped quote is cut at it (`envelope.ts:180`); its comment says
  it echoes every auth-param.
* `parsePaymentChallenge` takes a foreign scheme for a part of the first
  parameter's name (`charge01.ts:89`): if that parameter is optional, payGate
  pays, and its echo lacks it.  `EchoVerifies` names this exception and those
  above, and says that the seal fails in no other case.
* With a `Request` as input, `fetchWithPop` replaces its headers
  (`fetch-with-pop.ts:79`), and the paid retry of one with a body throws after
  the token was taken from the inventory.
* `PayGateResult.spent` is the price also where the token was taken back
  (`payer.ts:182`).
* What the HUD offers and what `[E]` does are two chains of conditions and part
  three times.  At a looted chest the prompt says so (`main.ts:494`) and `[E]`
  asks the server for it all the same (`main.ts:292`); a ghost at a court's door
  is offered "[E] pay" (`main.ts:508`), which `[E]` refuses (`main.ts:309`); while
  a payment is under way `[E]` does nothing (`main.ts:282`) and the prompt stays.
  The prompt is not modelled.
* A key let go while another window has the focus is not heard, as there is no
  blur handler: the avatar runs on until the key is pressed again.
  `NeverRunsOn` is about the keys the page takes as held.
* The spawn gate is paid again by a page that has not yet been shown its body
  (`main.ts:277`), as long as no payment is under way.
* The page keeps its session id when the socket closes (`main.ts:157`), so a
  payment may go out for a session that has ended; the gates answer it 409.
* A page that opens takes back what another tab is presenting (`main.ts:91`);
  with the token then redeemed, the inventory keeps a spent proof.

## Not modelled

* Configuration and wiring at boot (`config.rs`, the rest of `main.rs`): read
  once.  `mock_router` is the handlers of `Gates` without payment.
* The mint proxy (`proxy.rs`): forwards single requests and keeps nothing.
* Drawing, audio and chat (`scenery.ts`, `textures.ts`, `alien.ts`, most of
  `world3d.ts`, `chatview.ts`, the drawn pendulum): meshes, sounds and lines that
  nothing reads back.  What the page does read back, the avatar's place and the
  marked courts, is in `Client`.
* Names, chat, jumps, the prompt and status lines of the page: they change nothing the
  properties speak of.
* Test vectors (`vectors.rs`) and the scripts under `client/scripts`, which drive
  a server by hand.
* The bytes of base64, JSON and CBOR: a codec is what it refuses and what it
  keeps.
* cashu-ts, the pop charge library, the mint, the browser, the file system
  appear as external actions with what the code relies on.

## Plan

Next, in this order:

1. A composition of `ClientWallet` with `Gates`: client value plus recorded value
   plus named exceptions is what the mint issued.
2. An abstract wallet (value at home, on the way, spent) that `ClientWallet`
   implements, and the proof that it does, from `IInv` of `PaymentProofs`.
3. The vault's writes one by one (temporary file, rename, no sync), to state
   what a power loss may undo.
4. Several units in one wallet.
