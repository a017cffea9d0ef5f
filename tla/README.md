# propAMM router: TLA+ models, checks and proofs

The repository is a swap router over proprietary market makers ("propAMMs") with a
Uniswap V3 fallback, the governance around it, and SDKs in Rust, Python and TypeScript.
This directory models its stateful parts in TLA+, checks them with TLC on small
instances, and proves the main safety properties with TLAPS for all values of the
constants. `PROJECT.json` lists components, runs, mutants, findings, hazards, theorems,
and the source lines behind every definition.

    tlc -workers 2 -config MCRouterSwap.cfg MCRouterSwap.tla        # any run below
    tlapm RouterSwapProofs.tla                                      # any *Proofs module

## 1. The system

### Router contract (`src/src/PropAMMRouter.sol`)

*State.* The venue whitelist (an enumerable set: order matters, it is the order of quotes
and of ties), the Uniswap `SwapRouter` and quoter, fee tiers per pair, the pause flag,
and the ERC-20, WETH and ETH balances it moves. Between calls it should hold nothing but
dust.

*Operations.*

| operation | what it does |
|---|---|
| `swapV1`, `swapViaSelectedVenuesV1` | quote venues, take the best, dispatch, fall back |
| `swapViaVenueV1` | dispatch to a named venue, fall back |
| `swapSplitV1` | pull, probe, rank, waterfall, run the legs, fall back with the rest |
| the four `...WithFeeV1` | the same with a frontend fee skimmed from the output |
| `addVenue` ... `upgradeToAndCall` | restricted settings, pause, rescue, upgrade |

*What is hard.* The router calls contracts it does not trust while a call is half-way:
a venue is paid first and measured after; a quote in the split runs venue code when the
router already holds the input. A dispatch is a frame of its own (`this.call`) that may
be undone while the rest of the call goes on; a failed split leg has to give its input to
the fallback exactly once. Outputs are measured as balance deltas of a receiver that is
sometimes the router itself, which may own standing tokens. Fees are grossed up (rounding
up) before the swap and taken (rounding down) after it.

*Correct means.* The recipient gets the minimum, measured; nobody but the venue in use
loses anything but the sender's `amountIn`; a failed attempt leaves no trace; the router's
own tokens and its approvals are what they were before; a split places the input exactly
once, never beyond what a venue quoted; a call ends.

### Access policy (`src/src/RouterAccessManager.sol`, `src/scripts/Deploy.s.sol`)

*State.* Holders of five roles with their execution delays, the role every router function
is mapped to and the delay before that may be changed (the target admin delay), the queue
of scheduled calls. OpenZeppelin's `AccessManager` (not in the
repository's sources) schedules, executes, cancels and expires.

*What is hard.* Long sequences of legal steps over many days: schedule, cancel, expire,
schedule again, change the delays meanwhile, hand off, renounce. `ADMIN_DELAY` takes five
days to phase in, and the delay that guards the gates does not guard itself. No test deploys `RouterAccessManager`: the tests use a plain
`AccessManager`.

*Correct means.* Nothing about the router changes without the notice of its role, pausing
waits for nothing, re-gating and handing out power are announced, and no sequence of
settings leaves the fallback without a fee tier.

### WebSocket connection (`src/sdk/rust/src/ws.rs`)

*State.* A mutex over `{snapshot, has_frame, closed, last_use, task}`, an atomic counter
of waiting calls, a `Notify`; one read loop at a time as a tokio task.

*What is hard.* `get_snapshot`, the loop and `close()` interleave on worker threads: the
loop is spawned lazily, tears itself down when idle, is aborted by `close()`; a call's
future may be dropped at any await; the counter and the mutex are not read together.

*Correct means.* One loop at most, no missed wake-up, no frame of a dead loop handed out,
and an unused source lets its connection go.

### WebSocket source of the TypeScript SDK (`src/sdk/typescript/src/ws-source.ts`)

*State.* The socket in use and those dropped before it, two timers (reconnect, idle), the
queue of calls that wait for the first frame, `hasFrame`, `closed`. One event loop: tasks
(socket events, timers) and the continuations of promises, which run between tasks.

*What is hard.* Everything is a callback. A dropped socket still delivers its `close`;
calls overlap, and each arms the idle timer when it ends; `close()` may run between a
rejected promise and the `finally` that follows it.

*Correct means.* No socket is leaked; a source that is up has somebody to tear it down;
nothing revives a closed one; no call is torn down while it waits, nor answered from
before a teardown; every call is answered.

### WebSocket sources of the Python SDK (`propamm/overrides/__init__.py`, `propamm/prices/__init__.py`)

*State.* An `asyncio.Event` for the first frame, the handle of one listener task,
`_has_frame`, `_closed`, `_last_use`. `OverridesWsSource` and `PriceLevelsWsSource` are
the same program but for what a frame does to the snapshot.

*What is hard.* The listener counts no waiting calls: only the order of two timeouts keeps
it from going idle under one. It may end, be cancelled, or be closing its connection
while a call decides whether to start another.

*Correct means.* As for TypeScript, with one listener at most.

### Overrides and quotes of the Python SDK (`propamm/overrides/__init__.py`, `propamm/router/bindings.py`, `propamm/client.py`)

*State.* The snapshot an `OverridesWsSource` accumulates: per market maker the latest
storage diff, in the order of a dict, and one block context. `quote` and `get_quotes` keep
none beyond a call.

*Operations.* A frame is parsed and merged; `to_state_override` makes the map an `eth_call`
is given; `get_quotes` lists the venues, resolves one snapshot and makes a call per venue.

*What is hard.* Frames come in at every await of a quote. An entry outlives frames that do
not mention its maker, lost connections and listeners, while the block context is replaced;
venues revert when they are simulated at a block older than their state. The node answers
with amounts, with reverts, with other errors, or not at all, one venue at a time.

*Correct means.* No call carries state newer than its block; all amounts of one list come
from the same state; no venue disappears from it for another reason than its own answer.

### Swaps of the Python SDK (the same bindings, `ContractClient.send`)

*State.* None of its own: the nonce is the node's, its mempool and chain are the state.

*What is hard.* The nonce is read two awaits before it is used. A send whose answer is lost
may have gone through; a wait that timed out says nothing of the transaction.

*Correct means.* A send that ran alone is not refused for its nonce, what is sent after a
hash was returned is mined after it, and what is sent has the value and the fee the
contract accepts.

### Price books of the Python SDK (`propamm/prices/__init__.py`)

*What is hard.* Human decimals become integers with the decimals of two tokens, which the
caller may override; one venue publishes under two quote addresses; payloads have holes.

*Correct means.* Each direction of a pair has the levels of one book, the first with any;
a level is what its maker sent but for rounding, and never a free fill.

### Gas scripts (`src/scripts/gas/*.py`)

*State.* `split_gas.py` drives an anvil fork: its chain, its snapshots and which of them is
the base. `router_overhead.py` keeps windows, findings and rows. Both it and
`router_gas_compare.py` walk call trees.

*What is hard.* A measurement must not see what ran before, though requests fail, or are
repeated after they have taken effect, and a revert gives up the snapshot it goes back to.
A survey searches for a block by its time, reads logs in windows and cuts what is too much.
Frames contain each other, and proxies repeat the call of the frame above.

*Correct means.* Each shape is measured on equal footing; each swap in the time asked for
has one row; the shares of a trace overlap no more than calls beneath a transfer make them.

### The rest

Execution and upgrade scripts, quote sweeps and plots are one-off or stateless. The Rust and
TypeScript SDKs merge frames, read books and make quotes as the Python one does, written
again. `docs/` is prose.

How the parts meet: SDKs call the contract's entrypoints and view functions over RPC and
feed the overrides they receive over WebSocket into those views; governance changes
settings that a call reads; scripts measure the contract. So the swap modules compose with
settings through `RouterState`, and quotes with overrides in `RouterQuotes`, which extends
`OverrideFeed`. The three SDKs' connections share no state; two of them are shown to keep one
promise, `SnapshotSource`.

## 2. Modules

| module | models | extends |
|---|---|---|
| `RouterState` | ledgers, approvals, whitelist, fallback, pause; the restricted entrypoints on them | |
| `FrontendFees` | `_grossUp`, `_feeAmount` | |
| `SwapCall` | begin, delivery, fee, settle and revert, shared by all swaps | `RouterState`, `FrontendFees` |
| `RouterSwap` | the single-venue entrypoints and `UniV3Router.swapExactIn` | `SwapCall` |
| `SplitPlanner` | `SplitPlanner.sol` and the probe of one venue | |
| `HonestVenue` | the planner's arithmetic against a venue with a linear price and a capacity | `SplitPlanner` |
| `SplitSwap` | the split entrypoints | `SwapCall`, `SplitPlanner` |
| `SwapPromise` | the abstract specification: a swap is one atomic step | |
| `RouterGovernance` | roles, delays, queue, every restricted entrypoint, the deployment's handoff | `RouterState` |
| `WsConnection` | `ws.rs` | |
| `SnapshotSource` | the abstract specification of a streaming source: what its callers may rely on | |
| `WsSource` | `ws-source.ts` | |
| `WsListener` | the streaming sources of the Python SDK | |
| `OverrideFeed` | what frames of overrides do to a snapshot, and the map made of it | |
| `RouterQuotes` | `quote`, `get_quotes` and their `eth_call`s | `OverrideFeed` |
| `SwapClient` | `swap`, `approve`, `send`, `wait_for_swap` over a mempool and a chain | |
| `Lists` | the elements of a list at some places, as a function that can be proved about | |
| `PriceBooks` | how a price payload becomes order books | `Lists` |
| `GasRig` | `titan_overrides.py`, `split_gas.py` over an anvil fork | `Lists` |
| `GasSurvey` | what `router_overhead.py` finds and writes | `Lists` |
| `GasTrace` | how it and `router_gas_compare.py` split a trace | |
| `SwapCallProofs` | fee arithmetic, transfers, wrapping and approvals, for both kinds of swap | `SwapCall`, `TLAPS` |
| `RouterSwapProofs`, `SplitSwapProofs` | theorems about swaps; the second about the planner too | their module and `SwapCallProofs`; the second `HonestVenue` |
| `GovernanceProofs`, `WsConnectionProofs`, `WsSourceProofs`, `WsListenerProofs` | theorems | their module and `TLAPS` |
| `PythonProofs` | theorems about quotes, swaps, order books, the rig, the survey and traces | their modules and `TLAPS` |
| `MC*` | instances; `MCPython` one of six modules at once | their modules |

### State and steps

*Ledgers.* `bal[t][a]` has every balance of every token, ETH included; `allow` what the
router lets a SwapRouter pull. A transfer credits its receiver less `TransferTax[t]`, so
fee-on-transfer ERC-20s are covered, bought and sold; WETH and ETH credit exactly. What the
token sold keeps of `amountIn` on its way to the router is `Withheld`. `committed` holds the
ledgers a revert of the call restores and `frame` those a revert of the dispatch restores.

*A swap.* `pc` walks a call through `enter`, `select`, `take`, `dispatch`, `venue`,
`fallback`, `uniswap`, `uniReturn`, `deliver`, `disburse`, `done`; each step is the
straight-line code between two calls of a contract outside the router. At `venue` the
market maker makes any number of transfers of its own tokens (`VenuePays`), to the router
and to the sender too, and then returns or reverts; at `uniswap` the SwapRouter pulls any
part of the approval and pays anything. Quotes of single-venue swaps are answers only: at
that time the call holds nothing. Any modifier or check that fails is a step that undoes
the call (`EnterFails`, `TakeFails`, `FallbackPullFails`, ...).

*A split.* `probe` asks one venue at a time; while it answers it may shift the router's
input balance (`Drifts`), the hazard rule R1 of the code is about. `place` is one turn of
the waterfall. `bracket` is the check before execution. `legs` runs them one by one. What
venues may answer, shift and pay while a call runs is given per call (`Market`), so that
one run can give planning all the answers there are and execution a few.

*Governance.* A request is a caller, a function and its arguments, `readyAt` when it may
run. `Execute` takes the whole effect of the function. What is assumed of `AccessManager`
(external to the repository) is in the model, condition by condition: a scheduled call is
ready after the caller's delay and expires a week later; a lower delay takes effect after
the difference has passed, a target admin delay after five days at the least (`Updated`). What an
admin may call waits for the admin's own delay; `setTargetFunctionRole`, `setTargetClosed`
and `updateAuthority` (`RegatingFns`) for the target admin delay of the router, if that is
longer; `setTargetAdminDelay` and `setRoleAdmin` do not; `grantRole` and `revokeRole` are for
the admin role of the role. A closed router takes no restricted call; one whose authority is another
contract answers to that, and its settings no longer change in the model. `labelRole`,
`setRoleGuardian` and `setGrantDelay` are left out, and so is the manager as a target of
its own calls. `setPairFees` takes its two arrays zipped, so their length check is not there.

*WebSocket.* What runs under the mutex is one step, each access of the counter another,
each `notify_waiters` another. Three things about tokio matter and are in the model: a
`Notified` future is woken by `notify_waiters` from the moment it is created; an aborted
task stops at its next await, not at once; a task whose function has returned is not
`is_finished()` yet (`returning`). Deadlines may pass at any time the code waits for
them. Panics are not modelled, and neither is what frames say.

*TypeScript source.* Socket events and timers are steps that need all continuations to
have run (`Settled`), as on an event loop; `Resume` and `Rethrow` are the continuations of
`getSnapshot`, with its `finally`. Calls and `close()` may come between two of them, since
user code runs there. A timer that is set may fire at any time: the properties hold
whatever the timeouts are, and `Infinity` is `finite = FALSE`. A socket that was told to
close is `closing` until its `close` event comes, and its name is then free again. An
`Infinity` for `firstFrameTimeoutMs` is not possible (`setTimeout` would fire at once).

*Python sources.* A step is what runs between two awaits. Time does matter here, so it is
counted: `sinceUse` since `_last_use`, `waited` since a call began, each up to the timeout
it is compared with. `Tick` does not pass the end of a call's patience before the call
was told (`asyncio` runs timers in the order of their deadlines). `leaving` is the closing
handshake of `async with`. When an event is set and a `wait_for` expires at once, which of
the two wins depends on the version of Python: both happen in the model.

*The promise.* `SnapshotSource` has a source that is up or not, a frame that is fresh or
not, and calls that wait, see a frame, are served or fail. Its mapping is `up` = a
connection or a reconnection is there (`~TornDown`; `Running`), `fresh` = `hasFrame` of an
open source.

*Overrides and quotes.* The block at which an entry was generated stands for its value, so
that "newer than its block" can be said of a cell. `place` is where a dict has its key:
writing it again does not move it. A payload has entries that lag by a block, and blank
ones. `Hear` is `_handle_frame`; `Ends` is the end of the listener, which clears `has_frame`
and leaves the snapshot. A caller goes through `listing`, `resolving` and `calling` to
`quoted` or `failed`; frames and other answers come between any two of its steps, and
those between two calls of one `gather` too.

*Swaps.* Sends are numbered as they begin, and a transaction is known by the number of its
send. `counting`, `building` and `sending` end at the three awaits of `send`; the mempool is
a function of nonces, mined in their order. The node may refuse a nonce that is taken or
let it be replaced. `crossed` has the sends that ran while another did: what the
properties promise is for those that did not.

*Price books.* A decimal number is a count of steps of `RADIX^-FRACTION`, a product of two
of them a count of steps of its square; `HalfUp` is the rounding of `Decimal`. A step reads
one more book, so that every state is a whole payload and its prefixes are checked as well.

*Gas scripts.* A request to anvil is a step that succeeds, fails, or takes effect and is
repeated or given up. A transaction that `Anvil.call` repeats is performed again, up to
`ATTEMPTS` times (`Resent`), each time in a block of its own, and `mined` counts the blocks
since the base, those of `addVenue` included. What a measurement ran on (`row.on`) is the fork
before the transaction its receipt is of. The survey is a search, a scan and a row at a time, over
any timestamps, any blocks of the transactions and any failure. A call tree comes into
being as it is walked, and any tree does in which frames use no more gas than the frame
above has left. `beneath` adds up what calls beneath a transfer used, where the walks still count.

### Assumptions of the models

- One call at a time: transactions are serial and swaps are `nonReentrant`. Officers are
  not called from inside a swap (`rescueTokens` is not `nonReentrant`): administration
  happens between calls.
- Venues do not pay ETH to the router: its `receive` takes ETH from WETH only. In the
  split venues pay no ETH at all.
- Integers are mathematical; the places where the code relies on a width are guards
  (`MAX_UINT`, `MAX_UINT128`).
- `quoteV1`, `quoteVenueV1` and `quoteSelectedVenuesV1` called from outside change nothing.
- Titan sends nothing older about a maker than it has sent before, and payloads of the
  current or the next block only (`OverrideFeed!Frame`); a full snapshot over HTTP has all
  of what was published (`RouterQuotes!Full`).
- One account sends from one `ContractClient`, and nothing else sends for it; the chain does
  not reorganize; the node counts what it has queued (`SwapClient!NextNonce`).

## 3. What is checked

| run | question | bounds |
|---|---|---|
| `swap` | Slippage, custody, rollback and approvals at every step of a call; do whole calls implement `SwapPromise`, with administration between them? | two agendas: one call out of 84 (four pairs, with and without fee, router as recipient and as fee recipient, eight inadmissible ones, tokens that tax transfers bought or sold), one maker, payments of 1 or 2 to the user or the router in any number; and two calls that choose their venue, two makers, two SwapRouters, any whitelist order, quotes 0 to 2, rescues |
| `split` | Is every plan sound, and does every way of running a plan implement `SwapPromise`? | planning: three venues, the fallback among them, every probe answer for orders of 3 and 4, quotes past `MAX_UINT128` = 4, two legs at most; execution: two makers and the fallback, balance drifts of -1 to 1, payments 0 to 2, fees, ETH both ways, input tokens that tax transfers, of which the router has some of its own or none, inadmissible calls |
| `split_planner` | Does the arithmetic find what it is meant to find? | orders to 40, capacities to 60, prices to 3, quotes hold 50 (`MAX_UINT128`) |
| `governance_days` | Does anything change without the notice of its role, can the delays be got around by amending the policy, is there always a fee tier? | five agendas, each a set of requests, officers and time steps: nine days of calls on the router, seventeen days of handoff, renouncing, re-gating and grants, fourteen of resets of the admin delay by the bootstrap admin, fourteen of governance alone, and all settings before the policy is wired |
| `ws_connection` | Do calls, loop, teardown and close() get along? | two callers (each any number of calls), two loop identities used again and again, one closer, one dropped future |
| `ws_source` | Does the TypeScript source keep the promise, tear down, leak nothing? | three callers, three sockets at a time (used, or closing) |
| `ws_listener` | Do the Python sources? | two callers, two listeners at a time, patience 2, idle timeout 3 |
| `python` | Are quotes sound over streamed overrides, swaps over a mempool, order books, measurements, surveys and traces? | one caller, three makers (two write one cell), two blocks of overrides, five kinds of frames and of orders; two senders of three transactions; payloads of two books; two venues and two trades on the rig; three transactions, one a split, in four blocks; call trees of three units of gas, three deep; one repeat of a request |

Four more runs show a disagreement between the code and what is said of it (section 5).

*Why these bounds.* A call touches one venue at a time and one fallback, so one maker
shows every interference in one call, and the second call of the second agenda of `swap` is
enough for what outlives one (receipts, whitelist, approvals). Amounts of 0 to 4 separate nothing,
less than the minimum, the minimum and more; `BPS_DENOMINATOR` = 4 makes rounding matter
at those amounts. Two legs with `MAX_LEGS` = 2 and three venues meet the leg limit, an
exhausted remainder, ties and the fallback's own listing. The governance clocks let
calls become ready, expire and be scheduled again; their steps add up to the days at which
something becomes possible (one, three, five and seven, and the week a ready call is good for).
An agenda (`MCRouterGovernance!DailyAgendas`, and likewise `MCRouterSwap!Agenda`) keeps one
question to one set of requests: together they exceed what TLC can search. In `ws_connection` two tasks suffice because a third loop could
only be spawned next to two others, which is what `AtMostOneLoop` excludes (and the theorem
covers any number). In `ws_source` three sockets are one in use, one being closed and one more; three calls are one that waits, one
that resumes and one that begins. In `ws_listener` a cancelled listener and its successor
are two, and 2 against 3 leaves room between the timeouts for a call that comes late.

The six scenes of `python` share a run because they share no state: each is the behaviour of
one module while the others stand still. Two blocks and a lag of one make entries of two
ages meet; three makers are one that is rewritten, one that shares its cell, and Bebop. One
caller has two calls under way at once, and further callers read the same snapshot and
nothing of each other (the theorems cover any number). Three sends of two senders are two
that cross and one that comes before or after. Two books of one venue and pair are enough to
dispute a key. Two trades and two venues change the whitelist between measurements in both
directions. The survey meets timestamps on the edge of the time asked for, gaps, more
transactions than `MAX_TXS` and a block shared by several. Three levels
are a router, a token or a venue, and what either calls.

Type invariants of the router, of its split entrypoints and its governance, of the Rust and
TypeScript sources and of the Python listener are not run apart: they are theorems.

*Every property is broken by a plausible bug.* The operators marked "Mutant of" in the
modules are such bugs: the deltas replaced by whole balances, the minimum not grossed
up, a frame that is not undone, a sort that only appends, a nonce that forgets the mempool, a wiring with one role
wrong, a listener that keeps its frame, and so on. Replacing the definition by
the mutant makes TLC report the property listed with it.

*Deadlock* is checked in the swap, split and planner runs and in those of the TypeScript
and Python sources. The governance one ends when `MaxTime` is reached, `python` when its
bounds are, and a closed Rust source that nobody calls stops.

### Fairness

- `WsConnection`: weak fairness for tasks that can run, for `close()` and for time; strong
  fairness for `DeadlinePasses`, because `select!` picks among its ready branches at
  random and a busy stream cannot starve the deadline for ever, and for `Stop`, because an
  aborted task is stopped whenever it yields. Nothing is assumed of the server: frames,
  refusals and disconnections may or may not come. `connect_async` has no timeout, so
  `IdleTearsDown` assumes that no attempt to connect hangs (`ConnectsEnd`); it says so.
- `WsSource`: weak fairness for continuations; strong fairness for `FirstFrameTimeout` and
  `IdleFires`, because a timer that is set fires between other tasks of the loop, which
  may disable it for a moment (`Settled`). `IdleFires` helps only when calls cease, for
  each call sets the timer anew.
- `WsListener`: weak fairness for tasks that can run and for `Tick`; `websockets` bounds
  connecting and closing by timeouts of its own, so `connecting` and `leaving` end.

## 4. What is proved

TLAPS proves these for every value of the constants: any number of users, makers, tokens and
SwapRouters, any transfer tax, any fee denominator, any leg limit, whitelist and answers of
venues; any orders, prices and capacities; any officers, delays and requests; any number of
callers, loops and closers; any makers, payloads, blocks and senders; books of any length; any
venues, trades, timestamps, windows and call trees.

| theorem | says | if |
|---|---|---|
| `SwapCallProofs!GrossUpSuffices` | a gross output that covers the grossed-up minimum leaves the net minimum | |
| `RouterSwapProofs!Invariance` | `IInv` is invariant, hence the next six | |
| `TypeCorrect`, `MinimumIsDelivered`, `InputIsSpentOnce`, `ApprovalsAreReset`, `FallbackIsClean`, `FeeLeavesTheMinimum` | the safety invariants of single-venue swaps | |
| `StandingTokensAreKept` | no swap spends what was standing on the router, but for the tax of the transfer that pulls its input | |
| `SwapsKeepTheirPromise` | single-venue swaps implement `SwapPromise` | |
| `SplitSwapProofs!RankingSorts` | the insertion sort permutes the candidates and ranks them | |
| `FloorAlwaysMet`, `FloorsMet` | the pro-rata floor of a leg is within what a linear venue delivers | |
| `ProbesFit` | the probe of an honest venue finds a size it fills in full, or the whole order but for the tolerance | |
| `Invariance` | `IInv` is invariant, hence the next six | |
| `TypeCorrect`, `PlansCoverTheInput`, `PlansHonourTheQuotes`, `CustodyIsKept`, `MinimumIsDelivered`, `ApprovalsAreReset` | the safety invariants of plans and of the execution of splits | |
| `SplitsComeToAnEnd` | every step of a split call decreases a number that is zero when none runs | the payments of a running venue are not counted |
| `SplitsKeepTheirPromise` | splits implement `SwapPromise` | |
| `GovernanceProofs!Invariance` | `IInv` is invariant, hence the next five | |
| `TypeCorrect`, `FallbackIsPriced` | types, and there is always a fee tier | |
| `NoticeIsGiven` | delays are kept | `HandoffCovers` |
| `RegatingIsAnnounced` | once `ADMIN_DELAY` has phased in the gates of the router change after a sign on the chain only | |
| `PowerIsAnnounced` | after the bootstrap admin has renounced, power over the policy changes in the open | `ADMIN_EXEC_DELAY > 0` |
| `WsConnectionProofs!ConnectionInvariance` | `IInv` is invariant, hence the next five | |
| `ConnectionTypes`, `OneLoop`, `WakeupsArrive`, `FramesStayCurrent`, `WaitersAreCounted` | the safety invariants of the connection | |
| `WsSourceProofs!SourceInvariance` | `IInv` is invariant, hence the next four | |
| `SourceTypes`, `NoSocketLeaks`, `ConnectionsAreTended`, `ClosingIsFinal` | the safety invariants of the TypeScript source | |
| `SourceKeepsPromise` | it implements `SnapshotSource` | |
| `WsListenerProofs!ListenerInvariance` | `IInv` is invariant, hence the next three | |
| `ListenerTypes`, `ListenersAreSingle`, `EventsMeanFrames` | the safety invariants of the Python sources | |
| `WaitsAreHeard` | a call that waits has a listener | `FIRST_FRAME_TIMEOUT < IDLE_TIMEOUT` |
| `ListenerKeepsItsPromise` | the Python sources implement `SnapshotSource` | the same |
| `PythonProofs!AccumulationIsCovered` | what a source of overrides accumulates is covered by its block context | |
| `QuotesAreSound` | `QuotesInv` is invariant, hence the next three | |
| `BoardsAreComparable`, `BoardsAreComplete`, `EveryCallIsCovered` | the safety invariants of quotes | |
| `SwapsKeepOrder` | `SwapsInv` is invariant, hence the next three | |
| `LoneSendsAreAccepted`, `OrderIsKept`, `MessagesAreTaken` | the safety invariants of `ContractClient` | |
| `FirstBooksAreKept` | each filed order book is that of the first book with levels, and none is missing | |
| `LevelsAreKeptSound` | no level of it is free, overflows, or strays from its rung by more than rounding | |
| `RigIsSound`, `FootingIsEqual` | every measurement ran on the fork as it was set up, with its own venues listed and after no other swap | |
| `SurveysAreSound`, `SwapsAreSurveyedOnce` | a survey that ends has one row for every swap in the time asked for | |
| `WalksAreSound`, `GasIsCountedOnce` | gas of a trace is counted twice only for calls beneath a transfer | |

*Single-venue swaps.* `MinimumDelivered` is not inductive: what the recipient has gained
at the end follows from how the output was measured. `IInv` adds that the arguments were
checked (`ArgumentsChecked`: in particular `TokenIn # TokenOut`), that the saved ledgers
are those of the beginning, with the ETH wrapped, whenever control can return to them
(`SavedLedgers`, from which `FallbackStartsClean` is immediate), that `prev` is the
receiver's balance of the beginning and `got` the delta (`Measured`), that the router's
ETH is not spent (`EtherKept`), and that only the SwapRouter in use is approved
(`FallbackInUse`). One lemma per action, one step per conjunct it can disturb.
`FeeLeavesMinimum` combines `Measured` with `GrossUpSuffices`.

*Standing tokens* need one fact more: at `uniswap` the approval is exactly `amountIn`, which
was just pulled, and what arrived of it is `amountIn` less the tax (`StandingKept`). So
whatever Uniswap takes, what was on the router before remains, `Withheld` excepted. The code
approves `amountIn` and not what arrived: the exception is real (section 5), and of a token
that does not tax its transfers it is zero.

*The promise of swaps.* Seen through `committed.bal` and `receipt`, every step within a call is
a stutter, and `Finish` is the one step of `SwapPromise`. What it asks for is what `IInv`,
`StandingKept` and `FeeInv` say at `done`. The fee in the event is the nominal one
(FrontendFees.sol:56-60): of an output token that taxes transfers its recipient gets the fee
less the tax, and so `SwapPromise` has it.

*Splits.* `IInv` has four parts. `PlanInv` is about planning: candidates are venues that were
asked, each once (`QuotesIntact`), leg k is carved from the quote of candidate k and is the
exact share of it (`WaterfallIntact`, `Follows`), legs add up to what is placed so far;
with `RankingSorts` that gives both properties of plans. `LedgerInv` is about what was
collected: nobody but the sender parts with anything, and the receiver holds `got` on top
(`OutputKept`), in the frame of a leg as well, so that undoing one keeps it. `InputHeld` is
about what was not spent: the router holds the input of the legs to come, those failed
included, on top of what it had, `Withheld` excepted; in `venue` it says so of the frame too. `ApprovalsIntact`
has the approval of the one Uniswap call. `OthersKept` and `FeeInv` are what the refinement
adds. Sums over legs (`InputOf`) and the sort are folds: a fold is a chain of values, one per
element (`IsFold`, `Chain`, `FoldExists`), and what holds along a chain is proved by
`NatSetInduction`.

That a call ends is a matter of numbers: `StepsLeft` counts, from the end, what is yet to be
probed, placed and run; a turn of the waterfall that adds no leg is the one that refines, and
that happens once. Each step of a call decreases it (`RunsDown`).

*Planner.* An honest venue quotes `size * price` until that is what it has. `HalvesShrink`:
`_probeDownToFillable` comes to no size above the one it begins with. `ProbeDownIsBelow`: the
size it ends at quotes below the ceiling, so that the venue's price is still linear there. If
the order is not taken to be saturated, it quotes about twice what its half does, and
`WholeIsAlmostFilled` turns that into what the venue keeps at most. An order of one, and quotes
beyond `MAX_UINT128`, are cases of `ProbeIsHonest`.

*Governance.* Whoever acts, an effect on the policy keeps `Settled`: members and delays are
those of the deployment until governance amends the roles (`RolesIntact`), and functions are
mapped as configured until it amends anything (`GatesIntact`). A call that waits was given
its notice when it was scheduled (`QueueIntact`), and nothing since could shorten it: a
lower delay takes its setback to phase in, and an execution checks the time that was
written down. What could get around this is the moment of `configureRouter`, when calls of
governance may be waiting that were scheduled under another role. `HandoffCovers` says that
the delay it was granted with is no shorter than those the wiring brings. The deployment
script grants it with seven days unless its environment says otherwise (Deploy.s.sol:75), the longest of
RouterAccessManager.sol:40-52, and `governance_days` meets it; without it a call could be
waiting that gave less notice than it needs once the functions are mapped. Only `NoticeIsGiven`
rests on it.

The gates of the router rest on `DelayIntact`: as long as nobody called `setTargetAdminDelay`
the delay is `ADMIN_DELAY`, in force at the latest five days after `configureRouter`; and
from the first call of it on, whatever follows, the day a lower delay comes into force and
that delay add up to no less than `ADMIN_DELAY` after that call. So what a call to
`RegatingFns` has to wait for ends no sooner, in whatever steps the delay goes down
(`RegatingSetback`). Resets in the phase-in are excluded by `PhasedIn`, and have to be: the
delay in force is zero then.

*Connection.* The strengthening is `LoopOwned`: the handle is that of the live loop unless
the source is closed, only `close()` takes it away, and only `close()` aborts. Then a
call that sees no running loop can spawn one without making two.

*TypeScript source.* The invariants are nearly inductive together; `FrameIsOfSession` (a
buffered frame belongs to a connection that is up or being replaced) is what the
refinement adds. Each action is then a step of `SnapshotSource` or a stutter.

*Python sources.* `ListenerOwned` plays the part of `LoopOwned`. `EventMeansFrame` and
`FrameIsOfListener` tie the event and the buffer to the listener; `RousedByClose` says
who woke a call; `WaitIsUse`, `sinceUse <= waited` of a call that waits, is why a call
whose patience is shorter than the idle timeout is never left alone. That order of the
constants (5 s and 30 s by default) is a hypothesis of the two theorems that need it, not
of the model, and `ws_listener_zero` shows what happens without it.

*Quotes.* `FeedInv` says of the accumulated snapshot that its block context is not behind any
entry: a payload with entries has its own block for context (`FeedPayloads`: the newest
entry of a payload is of its block), and blocks do not go back. `QuotesInv` adds that what a
caller holds is such a snapshot (`HoldsCovered`), that every call of his was made with what
he holds (`CallsAlike`), and that a caller who is done heard from every target
(`RepliesHeard`). That the map carries nothing newer follows from `LastWriter`: of the makers
that write a cell one has the last place, and it is its block that counts.

*Swaps of an account.* What a lone send needs is that its nonce stays free until it is used.
`NoGaps` says that the mempool is contiguous, so that the next nonce is the one behind it;
`Together` that two sends at a time are both in `crossed`; `Fits` that the nonce of a lone send
is not taken in between, whatever is mined. `Placed` and `Ordered` carry the order: a lone
transaction whose hash was returned keeps its nonce, and whoever counts later counts beyond.

*Order books.* `FirstBookIsKept` speaks of all prefixes of a payload and is inductive once the
type of the payload is added (`BooksInv`); the case that needs care is a book of a token with
itself, which is filed in one place for both directions. `LevelsAreSound` follows from it: a
filed book is what some book offers (`KeptBooksAreSound`), what a book offers are rungs of one
of its sides (`LevelsComeFromRungs`), and of one rung the division bounds say how far rounding
went (`RungsAreSound`).

*The rig.* Each measurement reverts to a snapshot. `Anchored` says that the snapshot the
script remembers is one of the fork as it was set up. After a revert that took effect, and
whose answer was lost, there is none; but then the fork is as it was set up (`Clean`), only
its clock may run, and the revert that is repeated does nothing. `Ready` says that listed and still
to be listed are the venues of the job, and that as many blocks were mined as venues are listed
and transactions repeated.

*The survey.* The search has excluded only blocks before the target (`Narrowed`); what the
windows so far have listed is every swap of their blocks, once; what is analyzed is a beginning
of all swaps sorted, and the rows go along it (`Progress`). The windows pick by `ElementsAt`,
whose `Comprehension` lemma gives a list of places; the sorted list exists (`InOrder` is chosen,
not computed), by induction over the number of its elements, and there is one place in it for
each swap, so that who is cut has `MAX_TXS` others before him.

*Traces.* Each open frame has a room (`Rooms`): what the outermost frame used, less what is left
to the frames down to this one. What is counted fits into the room of the innermost frame
(`HasRoom`). A frame is `Shut` when nothing beneath it is counted any more, and its gas is
not taken off. A transfer is not shut: what calls beneath it use is counted again, and `beneath` has at
least as much. So what is counted never exceeds what the outermost frame used by more than
that, however frames nest.

*Lists.* The provers have no induction over data. `NatSetInduction` (every set of numbers that
has 0 and successors has all numbers) follows from the well-foundedness of `<` and is a
statement about sets, which they can use; `Recursion` gives from it the values of a recursive
function. That is why `Lists!ElementsAt` is a function of positions and not `SelectSeq`, and
why `PriceBooks!Power` takes the place of `^`, of which nothing is known to them. (The survey
is stated with `CHOOSE` instead of `SortSeq` for the same reason.)

*Assumptions used* are the named ones of the modules: distinct names; only ERC-20s tax; calls
and bounds of the right type; `MAX_FEE_BPS < BPS_DENOMINATOR`; a whitelist lists a venue once
(`VenueListsAreSets`: the contract keeps it in an `EnumerableSet`); `Callers` finite; timeouts
natural numbers; finitely many makers; payloads as Titan sends them (`FeedPayloads`,
`BooksOfTitan`: sides are lists of rungs of numbers, or not to be parsed); the
arguments of the scripts are lists (`RigInputs`); blocks are timed in their order, transactions
have hashes of their own and finitely many venues are named (`SurveyInputs`); orders, prices and
denominators are positive (`HonestInputs`). TLC evaluates them on every run.

*Only model-checked:* liveness (`IdleTearsDown` of the three sources, `CallsAnswered`), because
fairness and ENABLED are out of the prover's reach. Every safety property of the passing runs, and every refinement, is a theorem. The four properties that the
other runs violate are of course not.

## 5. Findings and notes

Shown by a run, each with the quoted statement in `PROJECT.json`:

- `admin_delay`: RouterAccessManager.sol:50-51 and docs/access-manager.md:40 and :157 say that
  `setTargetAdminDelay` goes through `ADMIN_DELAY` as `setTargetFunctionRole` does. OpenZeppelin's
  `AccessManager` applies a target admin delay to `setTargetFunctionRole`, `setTargetClosed` and
  `updateAuthority` only. The bootstrap admin, who has no delay, can call it at once: during
  the phase-in that calls the delay off, and the router can be re-gated with nothing queued;
  later a lower delay takes effect after the difference, so that re-gating comes seven days
  after that first call at the earliest, without a schedule of its own. `RegatingAnnounced` says
  just this much. Governance, whose own delay is seven days, announces either.
- `ws_dropped`: a dropped future leaves the counter of waiting calls above zero for good,
  and the source never tears down.
- `ws_listener_zero`: with `idle_timeout=0`, documented to close right after each call, the
  Python listener ends before it connects, and every call times out.
- `quotes_refused`: bindings.py:235-237 says that only a revert leaves a venue out of the list
  of `get_quotes`; any JSON-RPC error does, a rate limit or an unknown header too, for
  client.py:115-116 makes a `RevertError` of each.

Met on the way, with no run of their own:

- `RESUME_DELAY` is one day (RouterAccessManager.sol:43); README.md:190 and :308 and
  docs/access-manager.md:29 and :95 say two hours.
- `Errors.sol:10-14` says `InsufficientOutput` rejects a swap before funds move when the
  best quote is under the minimum; the code sends it to the fallback
  (PropAMMRouter.sol:141).
- IPropAMMRouter.sol:284-285 gives the net of a split fee call as the sum of `Swapped`
  less the fee; for a token that taxes transfers the net returned is less.
- docs/access-manager.md:52 says the bootstrap admin can call anything directly; after
  `configureRouter` it has to grant itself the role first.
- A Rust call that finds a loop past `idle_expired` but not yet finished takes it for a live
  one, spawns none and waits in vain until its timeout (ws.rs:82; the model has it:
  `Running` holds in `returning`).
- An `unpause` scheduled before a pause lifts it as soon as it is ready.
- With a taxed *input* token the fallback and the legs are sized by `amountIn`, more than
  arrived, and draw the difference from standing tokens of the router, if it has them.
  `RouterKeepsItsOwn`, `CustodyKept` and `SwapPromise` let the router lose the tax of that one
  transfer and no more; the theorems say that this is the most. It happens: without that
  allowance `swap` and `split` fail.
- A Python listener that something other than `close()` cancels (the end of `asyncio.run`)
  skips the reset of `_has_frame` (overrides/__init__.py:422), and a source used again from
  another event loop serves the old frame as fresh. In the model only `close()` cancels.

- The base block of `get_quotes` is `latest` in each of its calls (client.py:103), with overrides
  or without: a block mined between two of them changes whatever the overrides leave alone for
  one and not for the other. What `BoardIsComparable` says is that the override map and the
  block context are the same.
- client.py:162-163 says that transport failures become a `ClientError`; only
  `Web3Exception` is caught, and `TimeExhausted` of `wait_for_transaction` is not.
- overrides/__init__.py:420-421 asks for a fresh frame after a respawn; makers absent from
  it keep the entries of before. `ContextCovers` says what still holds of them.
- The parser of price levels of version 1 keeps rungs with a zero amount in, which that of
  version 2 drops for reading as free fills.
- router_overhead.py reads quotes of the constant `ROUTER` (506, 518, 613) whatever `--router`
  says; and it counts a split by its first leg only, so that a venue that just filled second
  legs, or swaps beyond `--max-txs`, gets an "[idle]" row.
- split_gas.py:357-358 promises "same block, same clock" for every shape. The clock holds;
  each `addVenue` mines a block (364-366), so a shape that lists k venues is measured k
  blocks on, and shapes are in the same block if they list as many. The model counts blocks, and
  `EqualFooting` says which one it is.
- Candidates that tie in output and in fill rank in whitelist order (SplitPlanner.sol:59 compares
  strictly). The model inserts them as the code does, but `PlanHonoursQuotes` only speaks of
  venues that quoted better, and no property fixes the order of full ties.
- `Anvil.call` repeats an `eth_sendTransaction` after an internal error (split_gas.py:184-195,
  227). If the first one was performed, the swap runs twice and the receipt is that of
  the second, which ran after the first; the row does not tell. In the model `row.again` does,
  and `EqualFooting` is about what else came before: nothing.
- router_overhead.py:301-314 and router_gas_compare.py:220-234 go on below a transfer without a
  flag. A proxy that calls its token (not by DELEGATECALL) or a hook that transfers is
  counted in its own bucket and in that of the transfer above, so a bucket is not all
  "Router-level" (:302) and a negative overhead is not only the refund artifact that :391-395
  takes it for. `GasAddsUp` says that this is the only overlap.

## 6. Plan

Order: the money first (single-venue swaps, then the split), then who may change the
rules, then the SDKs' connections, what they carry and send, and the scripts that measure.

1. Done: all modules of section 2.
2. Next, models: that `WsConnection` implements `SnapshotSource`, and where it does not; price
   levels of version 1; the attempts of the Rust and TypeScript bindings, where they differ
   from the Python ones.
3. Proofs: done for every safety property of the passing runs (section 4). Next, with the
   models of 2: their invariants and refinements.

## 7. Not modelled

- The Rust and TypeScript bindings, their merging of frames and parsing of books: the same
  shape as the Python ones, which are modelled.
- Price levels of version 1 and Titan's own quotes: passed through, no state.
- Conversion of units, address tables, ABI encoding, retries inside `web3`.
- `quote_sweep.py`, `direct_sim.py`, `uniswap_sim.py` and `gas_flamegraph.py`: one request, one
  row, or a plot of them.
- The execution and upgrade scripts: single calls of what is modelled.
- `swapExactOut` of `UniV3Router.sol` (no caller); storage layout across upgrades (compared by
  a script of the repository).
