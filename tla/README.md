# Trading Panda: TLA+ specifications

A user owns a Panda (an NFT on Sui) and gives it an *Agent Wallet*: a
`TradingPolicy`, the collar of what an agent may do, and a `PandaVault`. The
FastAPI backend runs the Panda as an actor that trades on paper (the Training
Ledger), mirrors the policy in PostgreSQL, and on request has an agent key
prove a paper trade on chain (a Chain Proof). The web client signs its user in
with a wallet or with Google, mints Pandas and registers them, starts and stops
training sessions, and shows market candles and live events that a Durable
Object per user streams to every tab.

These modules model what makes that correct: the collar on chain, the mirror
that follows it, the pipeline that turns a request into one event on chain, the
ledger, the training session from the button to the actor, the chart, the live
feed, the sign-in and the minting.

Every definition is translated from the code. Where a comment, a document or a
test says otherwise, the code wins; two disagreements are kept as runs that end
in a violation (see *Known divergences*).

## Inventory

| Part | State | Operations | What is hard | What makes it correct | Module |
| --- | --- | --- | --- | --- | --- |
| Agent Wallet contracts (`agent_wallet`, `trading_policy`, `panda_vault`, part of `panda`, `panda_coin`) | shared objects policy and vault, the Panda's owner and trading lock, training credit | set up, update/tighten, pause, revoke, pause and close vault, deposit, withdraw, mint, transfer | any sender may name any shared object; long legal sequences | bindings, version pins the collar, revocation and vault pause are final, credit conserved | `AgentWallet` |
| `chain_proof_executor` | the event log | `submit_chain_proof` | stale versions, expiry | no event outside the collar | `AgentWallet` |
| Policy mirror (`agent_wallet.py`, event parser, `safety_service`, `policy_gate`) | `trading_policies`, `panda_vaults` | sync of pause, unpause, revoke, tighten | read, await RPC, write; late digests | a revocation shuts the gate; versions and caps catch up when nothing overlaps | `PolicyMirror` |
| Chain proof pipeline (`proof_selector`, `async_job_queue`, `queue_dispatcher`, `job_runner`, `chain_execution_worker`, `chain_proof_service`, `agent_signer`) | `trade_facts`, `async_jobs`, `chain_execution_logs` | request, enqueue, poll, dispatch, validate, submit, record, retry, cancel | sessions without locks, crashes, lost replies | rows agree with the chain; the queue drains | `ChainProofPipeline` |
| Training ledger (`ledger_service`, `trade_fact_writer`, budget in `agent_wallet.py`) | `panda_accounts`, `panda_positions`, budget | BUY, SELL, budget change | read early, written late; partial sells | what is in was put in; account tells the positions | `TrainingLedger` |
| Training session (`panda_simulation.py`, `actor_manager`, `useSimulationSession`) | actors and tasks in memory, `simulations` rows, `is_trading`, the page's phase | start, stop, status, reconcile, recover, poll | `stop` outside the lock, select then insert, a recovery in the background of a process that serves, lost replies | one task, one running row, page and actor agree | `TrainingSession` |
| Market candles (`useMarketCandles`, `candleStore`, `candles_page.py`) | one array of bars, requests in flight | load, older page, tail, tick, change of view | nothing is cancelled; ticks are lost, late or repeated; pages are cut by a time window; a memory cap | the chart is a window of the market, true after a tail | `MarketCandles`, `CandleWindow` |
| WebSocket hub (`user-hub.ts`) | subscriptions, sockets, Redis subscriber | connect, command, close, evict, hibernate, restart | awaited stops, state lost in memory | one stream of exactly what is subscribed | `UserHub` |
| Live feed of a tab (`useWebSocket`, `WebSocketProvider`, `useSimulationWs`) | socket, timers, subscriptions of the pages | connect, reconnect, sign out, subscribe | late `onclose`, drops, several tabs | one socket, each event once, reconnects | `LiveFeed` |
| Sign-in of a tab (`authStore`, `WalletAuthSync`, `walletLoginSession`, zkLogin) | session, login lock, suppress flags | wallet login, account switch, Google, check, sign-out, reload | effects that run late, or not, as only a render brings them about; answers that come late | the session is the account's; signed out stays out | `ClientAuth` |
| Minting and registration (`useMintPanda`, `pendingMint`, `panda_mint.py`, `mint.move`) | page status, one slot of sessionStorage, rows | mint, register, retry, leave, reload | the mint is final, all after it may fail; the Panda may change hands | registered to its minter; not forgotten before | `MintFlow` |
| Panda actor, decision engine | tick queue of 64, pending delay, counters in memory | enqueue, tick, execute | full queue, stale delayed decision, restart | bounded staleness, no lost batch | not modelled |
| Review, skill, digest, Merkle, Walrus jobs | their rows, `async_jobs` | process, retry | half-committed jobs, redelivery | versions unique, no job forgotten | not modelled |
| Other contracts (registry, market, trust proof, check-in, achievement, strategy, experience) | counters, kiosk listings, roots | mint, list, buy, submit root | counters at their limit | supply bounded | not modelled |
| Strategy feed | strategies, versions | save, activate | two activations at once | one active strategy | not modelled |
| Backend auth, check-in, achievements, leaderboard | nonces, rows under unique indexes | short handlers | select then insert | one row | not modelled |
| Market monitor, market consumer | pool cursors, caches | poll, publish | reconnects | ticks of the newest bar, new or updated | its pages and ticks only, in `MarketCandles` |
| Presentation, asset scripts, prototype | none two actors share | render, generate | | | not modelled |

The parts interact by shared rows, by the chain and by messages. The owner signs
on chain and the page sends the digest; the sync handler writes the mirror; the
gate and the eligibility check read it; the signer compares it again and
submits; the chain judges by its own policy. The actor writes the ledger alone,
except that the owner's budget change writes the account too. The session page
learns of the actor by polling; the hub pushes ticks and events to every tab of
a user. The token the sign-in holds is what the feed connects with and what a
minted Panda is registered under.

`PROJECT.json` lists the hazards at their lines, with the properties that would
catch them.

## Modules

**`AgentWallet`** models the Move modules. A Move call aborts and changes
nothing or takes effect whole, so an entry function is an action and each
`assert!` a guard. `policy` and `vault` are the shared objects that exist, by the
id of the wallet whose setup created them; the sender and all arguments are
quantified in `Next`, since any address may call with any object. `proofs` is
the sequence of `ChainProofRecorded` events, `credit` the training tokens of
each address. `TransferPanda` leaves the wallet with the owner who set it up, as
the code does. `MaxVersion`, `MaxProofs`, `MaxTime` and `MaxCredit` bound the
counters. Amounts are naturals: no sum in the modelled code comes near 2^64,
and the two subtractions are guarded by the balance.

**`PolicyMirror`** models `sync_owner_action_from_tx`. `chain` is the policy as
`AgentWallet` leaves it after the owner's calls, with one `cap` for its caps.
`ownerTx` is the history of the owner's transactions and `requests` the digests
not yet delivered. A handler reads the rows (`SyncRead`), awaits the RPC node,
and commits (`SyncCommit`) or gives up (`SyncFail`, after which the owner may
send the digest again). The ORM updates only the columns whose value differs
from what was read: `Flushed`. `serial` and `orderly` are history variables:
whether any two syncs overlapped, and whether each transaction was offered by
the page after the sync of the one before. The two rows are read by two
selects; they are one step here.

**`ChainProofPipeline`** extends `PolicyMirror` and composes with it: eligibility
and the signer read `mirror`, the submission is judged by `chain`, and a pause or
a revoke cancels the pending jobs in the transaction that writes the mirror. A
`session` is a database session with its code: one per background poller, one
per API call. What a session has written is invisible until it commits, and from
the flush of `dispatch_job` on it holds the job's row lock: `Locked`. Its place
(`at`) names the await it stands at: checked, queued, polled, claimed, valid,
sent, refused. `Claim` overwrites the row whatever it has become since the poll.
`Crash` rolls back the session; the chain keeps what it executed. `LostReplies`
lets the RPC node execute a transaction whose caller sees an error. `tangled` is
a history variable: facts whose job two sessions held at once, or whose
execution no session learned of. The trade is within the caps and made at
version 1, so only pause, revocation and version can refuse it.

**`TrainingLedger`** models the account row as two writers share it. `tick` and
`call` are the rows that the open `commit_tick` and the open budget call have
read. `Buy` and `Sell` are `apply_execution` with the sizing of `commit_tick`, the
refresh of the equity and the commit; a trade is offered when quantity and cost
come out whole, so no rounding enters. `apart` is a history variable: no budget
call and tick were ever open together.

**`TrainingSession`** models the backend's one process and the tabs open on a
Panda. `row` and `trading` are committed data; `actor`, `task`, `alive` and `lock`
are the memory of `ActorManager`, which a crash loses. `call` has the toggle and the
status poll of each tab, with the await each stands at, and one more, `Boot`: the
recovery. A start is `ClickStart` (the Panda is loaded, with its flag),
`QueryRunning`, `InsertRow` (its commit), `BeginStart` (the lock), then `FinishStart`, or
a hydration that fails: `FailStart` with `StopRow` for a `RuntimeError`, `BreakStart` for
any other exception, which leaves the row as it is. A stop is `ClickStop`, `CancelTask`,
`TaskEnds`, `CommitStop`; a status call is `AskStatus` (the Panda) and `ReadStatus` (the
row and the memory, and a start if a running row has no actor). `Crash` only loses the
memory and the calls: what comes up serves at once, and `QueryRows`, a start per row,
`FailRow` for each that cannot start and `CommitRecovery` at the end run beside whatever
is called; `FailRecovery` is the recovery raising as a whole, which `main.py` logs.
`raced`, `crossing`, `overlapped` and `abandoned` are history: two starts between query
and insert; a stop that meets the actor of a task another stop waits for; an actor
being started beside a stop, a race of starts or a start that fails; a start or the
recovery that broke off, with no actor since. Each property names the one that the
code does not exclude.

**`CandleWindow`** is the abstract chart: a set of bars the market really had, one
per time, replaced by a load that leaves out no trade between two bars, or learnt
from, where only the cap drops a bar and drops the oldest. **`MarketCandles`** is the
hook and the store: requests in flight with the page the market monitor answered, the
ticks on the wire, the effect on the last tick, the timer of the tail. It implements
the abstract one: `Window == INSTANCE CandleWindow WITH shown <- ToSet(bars)`, checked as
`IsCandleWindow`.

The market may be sparse: `Traded` says for each view at which times it has a bar.
What is assumed of it is that a bar without a trade does not exist (both sources of
the monitor build bars from fills) and that a bar's first trade counts as made when
the bar opens. `ReadPage` is `get_candles_page` with `compute_indexer_window`: the newest
bars among the last `2 * limit` times (`InWindow`, `Newest`), perhaps with the bar that
the window's start cuts in two, whose value is then partial (`AtEdge`), or no bars at
all when the market cannot be read, which the page is not told. `PageOf` computes
`has_more` as the code does. `PublishTick` publishes the newest bar, new or updated, as
often as it likes. `synced`, `missed`, `late`, `crossed` and `clipped` are history:
whether this bar's tail was applied, how many bars opened without one and whether a
tail still reaches that far back, whether a load overlapped with what was in flight,
whether a page held a bar cut in two.

**`UserHub`** is the Durable Object: `subs` the stored subscriptions, `conns` its
sockets by age, `current` the topics of its subscriber, `pending` the stops it
awaits with what each subscribes to afterwards, `strays` the streams that run and
that nobody holds. **`LiveFeed`** extends it with one tab: the socket it refers to
and those it has left behind, the two timers, the ordered commands on their way,
the market subscription of the chart and the simulation subscription of the
Panda page. Other tabs of the user appear as what they do to the hub. `tangled`,
`unheard`, `crossed` and `taken` are history: stops that overlapped, a command
that met a hub without its state, a socket left behind, a topic that another
tab's command changed.

**`ClientAuth`** is one tab's session. `WalletAuthSync` has two effects, on a session of
another account and on signing in; `shown` is the token its last render saw and `due`
the effects whose dependencies that render found changed: `Render`, with which every
action ends that changes what the component subscribes to. `Sync` runs the effects.
`TokenExpires` ends with no `Render`: nothing in the client watches the clock, and no
answer of the backend clears the session. A login is one call that ends well or
not, whatever happened to account, session and lock meanwhile; the onboarding check
stores the token it asked with, which may have expired or been replaced (`asked`).
The connect modal is opened by the navigation bar, which lifts what blocks signing
in, and by the mint page, which does not. `Reload` drops the memory and keeps what
is persisted. `drops`, `out`, `left` and `hushed` are history: how often the lock was
taken from a login that runs; that the user has signed out and not asked to come
back, and whose calls were under way when they did; that the login effect ran while
a dialogue silenced it, or had no cause to.

**`MintFlow`** is the mint page, its hook, the one slot of sessionStorage, the
mint on chain and `register_mint`, whose query and insert are apart. On chain a Panda
has who minted it (`owner`, as the event of its digest says) and who holds it (`holder`),
which any `Transfer` changes: `register_mint` compares both, and skips the second when
the Panda is kept in an object. The object and the digest of a request come from one
transaction and are stored together, and the Move event always names its minter; so
the branches of `mint_event_parser.py` and `panda_mint.py` for another object's digest
or an event without minter do not apply to what this page sends. A `flow` is
one call of `executeMint` or `retryRegistration`; it belongs to the page that
began it, goes on without it, and after a reload nobody hears its reply (`deaf`).
`kept` are the Pandas that have been stored, `doubled` says that a mint began, or
an error was reset, while another flow or stored Panda was there.

`MCx.tla` extends `x` with symmetry sets and model values; `xProofs.tla` holds the
theorems of `x`. Where two parts need the same lemmas their proofs are one module:
`ChainProofPipelineProofs` begins with the mirror's, `LiveFeedProofs` with the hub's, and
`ConservationProofs` has the sums: the wallet's credit and the ledger. Definitions that begin with a comment `MUTANT of` are used by no
specification: each is a plausible bug that makes one property fail, listed in
`PROJECT.json`.

## Runs

| Run | Properties | Instance | Distinct states |
| --- | --- | --- | --- |
| `wallet_life` | `VersionPinsCollar`, `NoProofAfterExpiry`, `RevocationIsFinal`, `CollarNeverLoosens` | one wallet, two updates deep, two pair hashes, an expiry inside the horizon, two proofs | 93,000 |
| `wallet_mix` | `TypeOK`, `WalletsStayBound`, `CreditConserved`, `VaultPauseIsFinal` | two wallets of a Panda that changes hands, credit in and out | 161,000 |
| `mirror_race` | `RevokeShutsGate`, `MirrorAgrees` | two handlers, four transactions, two caps, any order of delivery | 1.18 million |
| `proof_race` | `ProofTypeOK`, `RowsAgree`, `OncePerKey`, `QueueDrains` | three sessions, one fact, two attempts, a crash, lost replies, an owner transaction | 240,000 |
| `ledger_budget` | `LedgerTypeOK`, `Conserved`, `RowConsistent`, `CashCovered` | three trades, two pairs, two prices, budgets 4 and 16 | 139,000 |
| `market_candles` | `CandlesTypeOK`, `SyncedIsTrue`, `IsCandleWindow` | two views, one with ticks, two requests at once, pages of 2, tails of 3, a cap of 3, trades at 1, 3, 4 and 6, clock 4 to 6, one change of view or reload | 826,000 |
| `training_session` | `SessionTypeOK`, `OneActor`, `OneRunning`, `RestAgrees`, `PageMeetsActor` | two tabs, one in the foreground, two rows, two clicks, one failure, a row left by an earlier process, shown by any of the tabs, or none | 325,000 |
| `live_feed` | `FeedTypeOK`, `OneStream`, `OneSocket`, `OneCopy`, `Reconnects` | two pairs and a Panda, two sockets of the tab beside another tab's, a hub that takes two, four moves, one fault | 1.21 million |
| `client_auth` | `AuthTypeOK`, `SessionMatches`, `SignedOutStays`, `OneLogin`, `AccountSignedIn` | two wallet accounts and a Google user, five moves | 1.15 million |
| `mint_flow` | `RegisteredToMinter`, `KeptUntilRegistered`, `SuccessIsFinal` | two users, two Pandas, three flows, four moves, two faults | 2.19 million |
| `mirror_pause`, `proof_twice` | `PauseShutsGate`, `OneEventPerKey` | a violation, see below | |

Why the bounds are enough. Two wallets are what it takes to mix objects, and two
updates what it takes to be stale twice. A stale read needs two handlers; four
transactions allow pause, unpause, revoke and tighten in one history. Three
sessions allow two to race while a third polls what they leave; two attempts
make every retry either not the last or the last; one crash and one lost reply
each suffice for a second submission. Three trades are a purchase, a partial
sale and a closing sale, with a budget change between any two; a cut from 16 to
4 is affordable or not, according to what the purchases before it have left in
cash. With trades at 1, 3, 4 and 6 the bar that opens at 5 has none, a page of 2 read at
4 is full, one before 3 is short, a window of 4 times begins inside a bar, and a cap
of 3 cuts; a tail of 3 may miss one bar and, when two opened, no longer reach; two
requests let any two replies change places, across a change of view. Two rows
and two tabs, which may already show the session an earlier process left, let a start
race a start, a stop a stop, and a poll either; two clicks are what it takes; one
failure puts a crash, a lost reply, a failed hydration or a failed recovery between any
two of their steps, and the recovery of the first process runs beside all of them. (The
run was also made with two failures, 892,000 states, a crash whose recovery fails among
them; and without liveness with three clicks, 2.79 million: nothing was violated.)
A hub that takes two sockets evicts when the tab reconnects beside
another one or beside its own old socket; four moves are a sign-in, a view, a
sign-out and another sign-in, or a change of view between two drops. Two
accounts let an answer come late for the other one; five moves are sign-in,
switch, Google, sign-out and reload in one history, or an expiry among them. Three
flows let one visit's mint, a later visit's mint and a retry be under way together;
four moves are a transfer, another user, and a way back to the page.

Deadlock is not checked where a bound on the owner (`MaxTx`), on attempts, moves or
the clock lets a run come to its end, or where an idle page may stay idle: the
program then waits for a request.

Symmetry is used over handlers, pair hashes, wallets, users, pairs and requests,
and in no run that checks a liveness property. The action properties of
`wallet_*` and `ledger_budget` and the refinement of `market_candles` hold of each
step alone and have no liveness part.

Fairness is stated where the code or its platform runs a step without being
asked, and nowhere else: no user, owner, wallet switch or new request is fair.

* `ChainProofPipeline`: weak fairness on each session's `Work`. `job_runner._loop`
  comes round again after each poll, whatever was raised; an RPC call returns or
  raises; a lock PostgreSQL released is granted. A session that only waits for a
  row lock is not enabled and is owed nothing.
* `TrainingSession`: a start that was received goes on (`Serve`), a foreground page that
  shows a running session or whose query is invalidated polls (`AskStatus`), and its
  answer comes (`ReadStatus`, `StatusAnswer`). Nothing is asked of the toggles, of the
  recovery or of hydrations that fail.
* `LiveFeed`: an armed timer fires (`Connect`), and what is on a socket arrives or
  the socket closes (`Carry`).
* `ClientAuth`: React runs the effects of a render (`Sync`). Nothing else: a wallet may
  never answer a login, a dialogue may stay open, an expiry may go unnoticed.
* `MintFlow`, `MarketCandles`: none; all is safety.

## Known divergences

Two are kept as runs, each with a line of the documentation it contradicts
(quoted above the property):

* `mirror_pause`: after every sync was delivered, a paused policy may have an open
  gate in the mirror. Digests are applied in the order they arrive, and a
  tightening clears the pause.
* `proof_twice`: poller and requesting call both submit one job. Two events on chain
  bear one proof key.

Others were met and are not runs of their own; the properties exclude the
histories in which they happen, by the history variables named above or by a
premise that says so.

Backend:

* A refused precondition leaves the fact `requested` for ever
  (`chain_execution_worker.py:52`; `docs/architecture.md:609` has it fail).
* A SELL sized by a negative equity enlarges the position
  (`ledger_service.py:201`; compare `docs/PRD.md:683`).
* The daily cap and cooldown are compared at the request and not at the submission
  (`proof_selector.py:122`). A cancelled job that a session had polled goes on
  (`safety_service.py:66`). A fact whose log is failed may not be requested again
  (`proof_selector.py:282`); two calls that check one fact may leave it `requested`
  beside a confirmed log.
* A late tightening restores looser caps under the newer version
  (`agent_wallet.py:514`). `max_proofs_per_day` and `proof_key_hash` are stored or
  emitted on chain and compared by no Move code.
* A budget change that overlaps a tick loses one of the two updates; that is why
  `Conserved`, `RowConsistent` and `CashCovered` speak of runs where they were `apart`.
* Two stops that overlap drop an actor registered meanwhile, whose task runs on. A
  status poll during a stop starts the actor again, and so does the recovery: a stop
  beside it leaves an actor over a stopped row. A hydration that fails stops the
  row of whoever asked, though another start has brought its actor meanwhile; one
  that fails with anything but a `RuntimeError` leaves a running row without actor
  until a poll. Two starts that race leave two running rows, on which the status call
  then answers 500.
* The market monitor answers a page it could not read like an empty one, with
  `has_more` false (`monitor.py:209`). In a sparse market the time window of
  `candles_page.py:50` shortens a page, and `has_more` is false although older bars
  exist (`candles_page.py:77`): the chart then offers no more of them. No property
  says that the history can be reached, because it cannot. Read from fills, the
  window's first bar may be made of part of its trades, and overwrite the whole one.

Client:

* A page whose session ended before its first poll shows it as running: the answer
  it gets is the one it holds, so its effect never runs.
* A load of the old view is not cancelled: its failure empties the new view's
  chart; a tick is merged whatever pool it is of; the second of two ticks before
  the effect replaces the first; a tail answered late overwrites newer bars. At the
  cap an older page changes nothing.
* A late `onclose` clears the reference to a newer socket, and two live sockets
  remain (`WebSocketProvider.tsx:28` speaks of one). Signing out does not close a
  socket that is still connecting. A hub that slept ignores commands until a socket
  joins. Two stops awaited at once leak a stream. The market selection is one per
  user, so a second tab takes the first one's.
* The lock of `walletLoginSession.ts` refuses a second login of the same address
  only, and is dropped when the session is cleared under a login, by the buttons and
  by a login of another address; the login it is taken from goes on. A login, a check
  or a Google sign-in under way at a sign-out brings a session back. Signing out is
  forgotten by a reload.
* A session whose token has expired is over only where something renders: the account
  stays connected and without a session, and nothing signs it in, until then. The
  onboarding check may store an expired token again (`OnboardingGuard.tsx:30`).
* Effects that ran while the connect dialogue was open are not run again when it closes,
  nor when the same account is picked, nor when `startGoogleLogin` fails
  (`ConnectWalletModal.tsx:45` says that "WalletAuthSync auto-triggers wallet login").
  The flag that `zkLogin.ts:68` says survives the OAuth redirect is lifted at each page
  load by the effect that finds no account.
* A mint whose signature's answer, or whose `waitForTransaction`, is lost leaves
  nothing to register. After a reload the page offers to mint although one is
  pending, and the second overwrites the first; a registration that succeeds clears
  the slot whatever it holds.

## Proofs

Eight modules are checked by TLAPS for every value of the constants, from the named
assumptions on them: amounts, caps and bounds are naturals; the zero address signs
nothing; the names of different sorts differ; addresses, wallets and pairs are finitely
many, as they are on any chain or market at any time; the tail fetches more than one
bar (the code's constant is 3) and the market is not past its bound at the start. Every
invariant, action property and refinement of a passing run is proved; what remains
for TLC alone is liveness. Where a property speaks of the histories a history
variable admits (see *Modules*), so does its theorem.

`AgentWalletProofs`:

* `TypeCorrect`: the type invariant, inductive as it stands. That balances stay
  natural rests on the guards of withdraw and deposit.
* `BindingsHold`: `WalletsStayBound` is inductive with `TypeOK`; policies are never
  removed, and `assert_bindings` gives the event the vault's own policy.
* `VersionsPinCollars`: inductive with `TypeOK` and `WalletsStayBound`, which gives
  each event a policy. An update makes the recorded version smaller than the
  current one; all else leaves the collar alone.
* `ExpiryHolds`: no operation writes `expires`, and a new event has passed
  `AssertActive`.
* `RevocationHolds`, `VaultPauseHolds`, `CollarHolds`: action properties, from the type
  invariant and one lemma per family of actions.

`ConservationProofs` begins with sums over a finite set: that the library's recursive
definition has a solution, and what one argument more or less adds to it, each by
the smallest subset for which it would fail. Then:

* `CreditHolds`: `CreditConserved` is inductive with `TypeOK` and `WalletsStayBound`: a
  setup puts an empty vault where there was none, because a wallet without a policy
  has no vault; what is closed is empty; a deposit or withdrawal moves one amount.
* `LedgerTypeCorrect`: with the fact that a tick is open only while trades are left. A
  partial sale of a whole cost leaves a cost that is a natural, and zero when nothing
  is held.
* `BudgetConserved`, `RowAlwaysConsistent`: neither is inductive. `LedgerHolds` is: while
  `apart`, whoever is open has read the row that is still there, one of them at a
  time, so that a flush of changed columns writes the row it computed.
* `CashAlwaysCovered`: an action property, from the same invariant.

`ChainProofPipelineProofs`, the mirror first:

* `MirrorTypeCorrect`: `MirrorTypeOK`, which is proved rather than run.
* `RevocationShutsGate`: `RevokeShutsGate` is not inductive: it says nothing of syncs
  under way. The invariant `RevocationTold` adds that a revoked policy has a
  revocation in its history, that each of them is under way or has cleared the
  agent in the mirror, and that a handler which read the agent as gone read what
  still holds. The last part is what makes a flush of changed columns harmless.
* `MirrorFollowsChain`: `MirrorAgrees` by two invariants, one for each history.
  `SerialTold`: while `serial`, an open sync has read the rows that are still there,
  and every tightening not under way has left its version in the mirror. `OrderlyTold`:
  while `orderly`, one transaction at most is under way, and the mirror after it is the
  chain's policy.

Then the pipeline:

* `ProofTypeCorrect`: `ProofTypeOK` with `GoodSessions`, what a session knows at each
  place: the fact it works on, attempts within the maximum, and a batch in which
  no job comes twice.
* `RowsTellOneStory`: `RowsAgree` is not inductive: a session writes fact and log from
  what it read. `RowsInv` adds that no two sessions hold the lock of one job, that what
  a holder has read still holds or is `requested` by now, that what it sent has an
  event, and that a job in hand or in a batch exists.
* `KeyProvedOnce`: `OncePerKey` by `OnceInv`: for a fact that is not tangled at most one
  session holds or has selected its job, and the chain has an event exactly if the
  log is confirmed or that session has sent; a confirmed log leaves no pending job
  and no holder. Every way to break it is a step that tangles the fact.

`TrainingSessionProofs`:

* `SessionTypeCorrect`: the type invariant, with what a call carries at each place.
* `OneRunningRow`: `OneRunning` by `ClearedHolds`: while a start that found no running
  row has not inserted its own, none is running and no other start is there, unless
  `raced`. That the latest running row is one of them rests on finite sets of
  numbers having a greatest one.
* `OneActorTask`: `OneActor`, with the recovery beside every call and failing where it
  may, by `LockHeld` (a call that hydrates holds the lock, and no
  actor is registered) and `MemoryAgrees` (unless `crossing`, one stop at a time, the
  one task alive is the registered actor's, and a stop that waits for it has taken
  the task and left the actor).
* `RestingSessionAgrees`: `RestAgrees` speaks of states in which no call is open and the
  recovery is over. `RowsAgree` says what holds in between, unless `overlapped`: how far
  each place of a start, of a stop and of the recovery has come with row, flag, actor
  and task; that a session which will write the row has read the flag that stands or
  one that another is about to make stand; that the recovery's failed rows are written
  next; and that a running row without actor is one being brought it, or is `abandoned`.

`MarketCandlesProofs`. The array is a sorted sequence built by choosing from a set of
bars; the lemmas on sorting, merging, capping and on what a page read from any sparse
market holds come first, and the invariants speak of the array's set of times. Their
conjunction, `CandlesHold`, is inductive.

* `CandlesTypeCorrect`: with what a request holds of the page it was answered with.
* `SyncedIsAlwaysTrue`: `SyncedIsTrue` speaks of charts whose tail was applied. `TruthHeld`
  says for all others how far the chart is true: to the last bar that is not among
  the `missed`, which a tail reaches unless `late`. `OneView` (unless `crossed`, all that
  is in flight is of this view and no older page is under way beside a load) and
  `PagesMeet` (an older page asked for ends where the array begins, or the array is
  full) keep a hole from opening between page and array.
* `BarsAreWindow`: the refinement, step by step. A bar that opens is `Open`; a load that is
  applied, and one that fails and empties the chart, are `Load`; a tick, a tail and an
  older page are `Learn`, whose cap drops the oldest bars because the array is
  sorted; all else is a stutter of `CandleWindow`.

`LiveFeedProofs`:

* `FeedTypeCorrect`: hub and tab together, with no socket in the hub twice.
* `OneHubStream`: `OneStream` holds of each hub action that does not tangle the stops,
  and of whatever the tab and the other tabs send it.
* `OneTabSocket`: `OneSocket` by `SocketTold` (an open socket was accepted by the hub, one
  that is not open yet carries nothing) and `OneLine` (unless `crossed`, the only socket
  ever used and not ended is the one the tab refers to).
* `CopiedToTab`: `OneCopy` by `Covered`: what a connected tab shows is in the hub's
  subscriptions or in a command on its way that no later command takes back. With
  `OneStream` and `OneSocket`, one stream to one socket carries it once.

`ClientAuthProofs`:

* `AuthTypeCorrect`: flags and values, each half inductive.
* `SessionIsAccounts`: `SessionMatches` by `SessionHolds`: a token that counts is the one the
  last render saw, and a wallet session it saw is the account's unless the effect is
  `due`. An expiry keeps it, since it only takes a token away.
* `SignedOutHolds`: `SignedOutStays` by `OutHolds`: while a user is out, no session is left,
  not even an expired one, signing in is suppressed, so that the effects begin
  nothing, and the calls under way are among those that were at the sign-out.
* `OneLoginHolds`: `OneLogin` by `LoginHolds`: the lock is held by a login that runs, and the
  other logins of an address are no more than the times the lock was taken from one.

`MintFlowProofs`:

* `MintTypeCorrect`: `MintTypeOK`, proved rather than run: a page that waits has a
  flow of its own that will be heard.
* `RegisteredForMinter`: with `RequestsKnown`: a request that was checked is for a
  Panda its user minted, whoever holds it now.
* `StoredIsKept`: by `SettledInv`: as long as nothing was `doubled`, a mint under way
  is alone, every request is for the stored Panda or a registered one, and so is
  what the page shows as pending; so a success clears only what is registered.
* `SuccessStays`: from the same invariant and `ShownRegistered`.

Only model-checked: liveness (`QueueDrains`, `PageMeetsActor`, `Reconnects`,
`AccountSignedIn`), for fairness and ENABLED are out of the prover's reach.
`PauseShutsGate` and `OneEventPerKey` are false and end in a counterexample.

## Not modelled

* The presentation (layouts, animations, the artwork and its data, the rig
  editor), the asset scripts and the prototype. They are most of the TypeScript
  and JavaScript of the repository. They keep no state that outlives a component
  or that two actors share: a model of them would name their markup line by line
  and say nothing.
* The decision engine's scores are arithmetic on market data, where a model would
  repeat the formulas. The tick queue and the delayed decision run inside one task.
* The handlers of the review, skill, digest, Merkle and Walrus jobs; the pipeline
  models the dispatcher they share. Batches of more than one fact are not run: with
  liveness they are beyond a run's time.
* Strategy feed, registry, market and other contracts, backend authentication,
  check-in and achievements, the polling of the market monitor.
* HTTP, the parsers of transactions beyond what they let through, the dry run of a
  server without a signer key, `deposit_panda_coin`, whose coin cannot exist.
  Database errors other than a unique index and a lost connection. One budget call
  at a time; the training budget that a tightening may carry (it is the same
  change). Several tabs on one localStorage, the networks a wallet may be on. The
  onboarding page, whose survey stores the session after two awaits as the check
  does after one. Requests to `register_mint` from other clients than the mint page.

## Plan

Modelled so far, in this order: the wallet, its mirror, the proof pipeline on top
of it, the ledger, the session, the chart with its abstract window, the hub with
the tab's feed, the sign-in, the minting. Proved: every safety property of these, and
the refinement. Next:

1. `TickQueue`: the bounded queue, the delayed decision, the trade count and the
   Merkle batches keyed by it, composed with `TrainingSession`.
2. `ReviewSkill` on the job queue: half-committed jobs, redelivery, skill versions.
3. Contracts: registry with mint and market, trust proof. `StrategyFeed`.
