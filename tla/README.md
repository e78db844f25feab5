# A formal model of the TAOP protocol

This directory holds TLA+ modules for the parts of TAOP that decide who is paid,
who is punished and what the public record says, the TLC configurations that
check them on small instances, and TLAPS proofs of the central theorems for
every value of the constants. `PROJECT.json` lists the components, the runs, the
source lines each definition stands for, the hazards and the theorems.

    tlc -workers 2 -config RulingOracle.cfg MCRulingOracle
    tlapm RulingOracleProofs.tla

## 1. The system

| Part | State it keeps | Operations that change it | Talks to |
|---|---|---|---|
| **Ruling oracle** `contracts/RulingOracle.sol` | a case per marketplace id; operator bond, challenge bonds, held fees, fee pool, per-case fee; exposure and number of live cases; loss records; request id → case | deposit/withdraw bond, set treasury, withdraw fees, publish, pay, cancel, challenge, escalate, finalize, default overturn, resolve | USDC (transfers), the appeal layer (calls `escalate`, is called back) |
| **Reviewer panel** `contracts/ReviewerPanelAdapter.sol` | the oracle it serves, three reviewers, a nonce, one request per escalation | set oracle, set reviewers, escalate, resolve, timeout | the oracle, in both directions inside one transaction |
| **Reputation oracle** `contracts/ReputationOracleNetwork.sol` | completions, receipts, challenges, per-agent counters, stakes, refunds, slashed pool, pause | attest, receipt, revoke, challenge, contest, resolve, finalize, cancel, stake, withdraw, owner acts | ETH balance; read by indexer and SDK |
| **Capability registry** `contracts/CapabilityRegistry.sol` | ERC-721 tokens, bond and flags per capability, index by type, certifier, slashed pool, pause | register, transfer, certify, slash, withdraw bond, owner acts | ETH balance; read by indexer and SDK |
| **Indexer** `packages/backend/src/indexer.ts`, `index_db.ts` | cursor and last block hash, idempotency markers, aggregates per agent, capability rows, alerts | one poll loop: reorg check, paged `getLogs`, apply, mark, advance | the RPC node, SQLite |
| **Webhooks** `packages/backend/src/webhooks.ts` | delivery cursor, failure streak, time of the next attempt; the configuration it was started with | a delivery loop over the alerts, in order, up to the first failure; backoff; start and stop | the indexer's alerts, one HTTP subscriber; retention reads its cursor |
| **Backend** `packages/backend/src/server.ts`, `contracts.ts`, `db.ts`, `demo.ts` | a cache of capabilities and completions (the tables the indexer writes too), the last registry, an audit log | come up (`ensureCapability`), demo, challenge, resolve (direct or through a timelock), finalize, discovery | both contracts, the timelock, SQLite |
| **Deployment scripts** `scripts/deploy-*.ts`, `lib/security.ts`, `timelock-tx.mjs`, `verify-deployment.mjs` | `.env` and its backups, `deployments.json`, the Safe batch, the files of the ruling oracle and its panel | deploy, hand over to a timelock, keep the agent's key, describe, build a batch, verify, wire a panel, deposit the bond | the chain, the file system, a Safe |
| **Demo page** `apps/demo/src/App.tsx`, `api.ts` | the completion on show, its flags, the listing, what is under way | one handler per button | the backend's routes |
| **SDKs, MCP server, static demo, agent B, benchmark** | request-local only | one contract call or one read per request | contracts, backend |

What makes it hard:

* **Money in one pot.** The ruling oracle keeps four ledgers in one USDC balance
  and pays each settlement out of whatever other settlements left. The bond floor
  is read once, when a case goes live, and payouts are silently cut to what is there.
* **Two contracts, one dispute.** Panel and oracle each keep a record of the
  same dispute. Answer, timeout, default overturn and a replaced panel race.
* **Windows that meet at an instant.** Challenge, finalization, escalation,
  default, eligibility and stake lock all compare `block.timestamp` with a
  deadline, some with `<`, some with `<=`.
* **Counters kept beside the data they count** in every contract, with checked
  subtractions: one that drifts blocks a later exit for ever.
* **Calls nobody has to make.** Operator, owner, reviewers and agents may stay
  silent; a paid case, a bond and a request must end all the same.
* **An index that follows a chain** over an RPC that fails, through overlapping
  polls, crashes and reorganisations, and computes scores of its own.
* **Delivery at least once and in order** from a table that retention prunes and
  a rebuild deletes and replays, by polls that overlap.
* **A cache with two writers and a process that may die at any call**, over
  contracts that others use and that may be redeployed under it.
* **One-shot scripts over money and keys** that can die between any two steps and
  are then run again.

What makes each part correct is stated in section 4 for the parts modelled and in
section 7 for the others. The hazards, each at its line, are in `PROJECT.json`.

## 2. Modules

| Module | Models |
|---|---|
| `RulingOracle` | every state-changing function of `RulingOracle.sol`; the appeal layer is left open: it may answer any request it was given, either way, late, twice or never |
| `Adjudication` | the abstract promise to a marketplace: an offer can be withdrawn until it is paid, a bounded number of paid cases is open, each gets one verdict, reversed only after a contest, never changed |
| `ReviewerPanel` | the panel's half of each transaction, with the oracle's outcome as a parameter |
| `Appeal` | oracle and panel composed: `escalateRuling`, `resolve` and `timeout` are one step of both contracts |
| `ReputationOracle` | every function of `ReputationOracleNetwork.sol` but `registerAgent` |
| `CapabilityRegistry` | every state-changing function of `CapabilityRegistry.sol`, ERC-721 transfers included |
| `EventLog` | the chain as the backend sees it: blocks, hashes, the logs the two contracts can have emitted and their state after each |
| `IndexDb` | `index_db.ts`: the tables and every write to them, and what `indexer.ts` does with each kind of log |
| `IndexedDiscovery` | what `/discover` answers from those tables: the rows listed, the count that ranks, the decay |
| `Indexer` | `indexer.ts` from `startIndexer` on, over a chain that grows, forks and reorganises, with failing calls, missing blocks, lost processes and overlapping polls |
| `Webhooks` | `webhooks.ts`, with the three things that happen to the alerts under it: the indexer records, retention prunes, a rebuild deletes and replays |
| `BackendDb` | `db.ts` with the indexer's writes to the same two tables |
| `Bootstrap` | `ensureCapability` and the clearing of the caches after a redeployment, call by call, while other wallets use the registry |
| `Backend` | `Bootstrap`, then the routes that write to the contracts and to the cache, the timelock, and `/discover` |
| `Deployment` | the scripts that deploy, hand over, keep the key, describe, build batches and verify; the chain and the files they work on |
| `RulingDeployment` | `Deployment` with the scripts of the reviewer panel and the ruling oracle |
| `DemoApp` | the page and its handlers against the routes it calls |
| `MC*` | small instances for TLC: accounts, offers, reviewer lists, scenarios |
| `SumTheorems` | sums and counts over finite sets: changing one entry changes the sum by as much |
| `RulingOracleProofs` | type correctness, the inductive invariant, solvency, payment in full, the ledgers and losses; the oracle implements `Adjudication`; oracle and panel: one verdict, matching links, windows, no challenge lost without review |
| `ReputationOracleProofs` | counters, ETH, receipts of fraud, the stake at risk and the scores |
| `CapabilityRegistryProofs` | the type lists and the ETH |
| `WebhooksProofs` | delivery: at least once, in order, none lost to retention |
| `BackendProofs` | the cache against the chain, for any number of routes; the page that calls them |
| `IndexerProofs` | alerts, cursor, counters and listing of the index, each with the faults it withstands |
| `DeploymentProofs` | the scripts: keys kept, what is verified or accepted handed over, what is described wired |

**Reading them beside the code.** A variable has the name of the storage variable
(`cases` is `_cases`, `losses` is `_losses`) and an action the name of the
function; `now` is `block.timestamp`; `balance` is USDC's, `eth` the contract's
own ETH. A transaction is one step: a `require`, a revert, a failed checked
subtraction or a refused transfer is a step that is not enabled. This is what the
EVM gives; where a call leaves the contract (`safeTransfer`, `escalate`,
`_safeMint`, the ETH refund) the contracts carry `nonReentrant`, so no other
handler runs in between. The one re-entry this permits, the ERC-721 receiver
moving a token it has just been minted, is modelled in `registerCapability`.

The backend is different: Node runs a poll without interruption from one `await`
to the next, and other code may run at each `await`. In `Indexer` a step is the
answer to one RPC call with the code up to the next call; `polls[p].pc` names the
call a poll waits for and the other fields are its local variables. Applying a log
and marking it are two steps that nothing separates but the death of the process.
`Webhooks` (`polls`), `Bootstrap` (`boot`), `Backend` (`requests`), `DemoApp`
(`calls`) and the scripts (`run`, `job`) are built the same way: a step ends at the
next `await`, at a file write, or where the process can die with a difference.
`Webhooks` counts time in poll intervals and keeps the next attempt as time left.

**What the data is reduced to.** URIs, hashes, agent ids, task types and metadata
are left out: nothing modelled branches on them. A loss record is its case id. A
signature is the address it recovers to, since the EIP-712 digest binds it to the
request, case and direction. The panel's request ids are 1, 2, ... in nonce order
instead of a hash of the nonce. `Receipt`s are the counterparty written into the
completion. Some fields are observations, not storage: `signers`
of a request (the panel's event carries them), `received` in `Webhooks`
(what the subscriber has accepted), `registry` of a cached row (the deployment it
describes), `forgotten` of the indexer's tables (markers that retention deleted),
and `seen` in `Deployment` and `DemoApp`.

For the indexer a block carries one log at most, its timestamp is its height (the
server's clock, where the code falls back on it, is that of the newest block) and its hash a number never used before; rows of zeros and missing rows are one value,
as the queries read them; columns that are copied and never branched on are left
out. A key in the scripts is a number that stands for its wallet; an address in a list of
`.env` is written with its checksum or in lower case (`LowerCase`), since the scripts
compare strings where the timelock compares addresses; a transaction of the
hand-over is in `mempool` between being sent and being mined. An RPC answer is taken at the moment its continuation runs. `settled` and the
contract state kept with each block are observations.

**Mistaken variants.** A definition whose name starts with `Faulty` is not used
by any specification. It is the definition after it with one plausible mistake (a
dropped guard, an off-by-one, a counter not released); `PROJECT.json` names, for
each property of each run, the variant under which that property fails.

## 3. Assumptions on the constants

`AddressAssumption`, `ParameterAssumption`: addresses are distinct, amounts and
windows are natural numbers. `FloorAssumption`:

    BOND_FLOOR >= MAX_LIVE_CASES * (CASE_CAP + challengeBondFor(CASE_CAP))

holds as deployed: 3000 USDC >= 5 * (300 + 30). No function of the contract
checks it, and everything said of the operator's bond rests on it. TLC evaluates
every assumption in the runs. `RequestAssumption`: request ids are numbered, and who sits
on a panel or signs is one of `Signers`. `BoundAssumption`, `NoOneAssumption` and
`OwnersAssumption`, for the scripts: runs and time are counted, an absent value is none of
the others, and the multisig (a contract) is not the deployer (a hot key).
`IndexerAssumption`: at least one poll, and a chunk has a block.
`TimelockAssumption`: the page meets no timelock, one without delay or one with. Amounts
never come near 2^256 (USDC's supply bounds them), so integers are unbounded.

## 4. What the runs check

Of the type invariants only the ruling oracle's is a property of a run: elsewhere the
other invariants imply what matters of it (no ledger and no counter below zero).

All times are ticks; windows are as short as keeps their order and their
boundary instants (before, at, after) apart.

### `ruling_oracle` (pass)
Three cases of which two may be live; five accounts, one request id, six offers of
which three must be refused; values at the cap; the floor tight, so that one dollar
less left in the bond would show. The operator can fund the floor exactly once,
hence cannot top up during an overturn. The clock stops unless a live case waits
for a deadline (`Tick`): every instant at which two functions compete is reached.

* `Solvent`: the USDC balance is exactly operator bond + challenge bonds + fee
  pool + held fees.
* `LedgersMatchCases`: each ledger is the sum over the cases of what it stands
  for, so the checked subtractions of a settlement never revert.
* `BondCoversLiveCases`: the bond covers the overturn of all live cases at once,
  although it is compared with the floor only when a case goes live.
* `SettlementPaysInFull`: each settlement moves exactly what was promised; the
  cuts in `_overturn` never bite.
* `LossesMatchOutcomes`: a provider's loss record is exactly its final refunds.
* `ImplementsAdjudication`: refinement of the abstract promise.

### `appeal` (pass)
Two cases on the composed contracts; one provider is frozen by USDC, so some
settlements of the first case revert; two panels that share one seat pair, two
lists `setReviewers` must refuse, signature lists that are valid, doubled, too
short or from two different panels.

* `PanelAgreesWithOracle`: a resolved request belongs to a final case and says
  what the oracle says, also when the oracle decided first.
* `RequestsMatchCases`: the links the two contracts keep match.
* `ChallengeFailsOnlyByReview`: a challenger loses only by two different reviewers
  of the panel copied at escalation, inside the window.
* `WindowsRespected`: nobody loses any of the time the windows give. A ruling was open
  to challenge for its whole window, escalations and challenges came inside theirs, a case
  never escalated was overturned only after the operator's window, and an escalated one
  only by the panel (its verdict or its own timeout) or after the whole of
  `ESCALATION_RESOLUTION_TIMEOUT`. It needs both
  contracts: only the panel's record tells its verdict from a default.
* `EveryLiveCaseSettles`: every paid case ends, whatever the operator and the
  appeal layer fail to do, unless USDC refuses a payment to its own parties; one
  frozen case never holds up another.
* `EveryRequestCloses`: if somebody times requests out, none stays open.

Fairness (`AppealFairness`) is weak and on three things only: time passes, and
`finalizeUnchallenged` and `defaultOverturn` are eventually called once they stay
possible. Both are open to anyone and the waiting party gains from them. Nothing
is assumed of operator, owner, reviewers or challengers; `EveryRequestCloses` has
fairness of `timeout` as its own hypothesis.

### `reputation` (pass)
One agent, two counterparties (one also challenges), two completions, deposits of
6 units against a slash of 5 (a unit is 0.01 ETH), so that one slash leaves a rest
that the second slash exceeds; the owner may turn the cooldown on. The clock stops at 1
unless something waits for a deadline.

* `EthAccounted`: ETH = stakes + unresolved bonds + refunds + pool, none below zero.
* `CountersMatchCompletions`: six counters equal what the completions say through
  any order of receipts, revocations and disputes.
* `FraudNeverConfirmed`: a completion found fraudulent carries no receipt.
* `StakeStaysAtRisk`: short of a slash, stake falls only when no challenge is pending
  and none can come any more, but for one instant. At exactly `timestamp + 7 days` both
  `withdrawStake` and `challengeCompletion` are accepted, so a challenge after the
  withdrawal in that block finds nothing to slash. The comments of the contract
  (`ReputationOracleNetwork.sol:53-54`, `:209-210`, `:419-420`) know no such instant; the
  property names it and says that it is the only one.
* `ScoresRiseByActivity`: decay is one-way; only an attestation, a receipt or more
  stake raises a score. The two score formulas are modelled as computed.
* `BondsAndStakesExit`: nothing is locked for ever. Every challenge ends, and the stake of
  an agent that has stopped attesting comes out, however often others challenge it (each
  completion only once), though the owner never rules and the protocol stays paused.

Fairness (`ExitFairness`) is a hypothesis of `BondsAndStakesExit` alone: time passes, and
`cancelChallenge` by a challenger and `withdrawStake` by an agent are made once they stay
possible. Both belong to the party that gets its money back; nothing is assumed of the
owner.

### `capability` (pass)
Two accounts (one is owner and possible certifier), two types, three tokens, so a
removal can hit the only, first, middle and last entry; bonds of 2 units or none.

* `EthAccounted`, `CreatorCanExit`: bonds are paid out once, and always can be.
* `IndexListsLiveCapabilities`: list and positions agree after any order of
  swap-and-pop removals.

### `indexer` (pass)
One agent, one counterparty, two completions, one capability; chains of 3 to 5
blocks under one confirmation, chunks of two blocks, two chunks a poll. The chains
of the two contracts are separate scenarios (their logs write to different tables),
but for those (`Ranking`) in which an agent registers itself or a capability, attests and
gets a receipt, so that discovery has a score to show. Each scenario says which faults
it has; polls do not overlap.

| Fault | What may happen |
|---|---|
| `rpc` | a call fails: the head at start, `getLogs`, a block's timestamp, `getCapability` |
| `hash` | a call for a block's hash fails, which is caught |
| `null` | the node has no block for a timestamp: the server's clock is taken (`indexer.ts:203`) |
| `restart` | the process is lost at an awaited call |
| `crash` | it is lost there or between applying a log and marking it |
| `fork` | blocks are replaced that never had the confirmations, also during a poll |
| `reorg` | any blocks are replaced, between two polls |

`NodeFails` has the first three (and a fork), `ProcessIsLost` lost processes, alone and
with failing calls, `ChainIsReorganised` deep reorganisations with rulings, failing calls,
missing blocks and crashes, `GuardsAreLost` all three ways to lose a rebuild (below). In
three scenarios retention deletes the markers of all but the last block. Failing calls,
receipts and a deep reorganisation are not combined: a rebuild that a failing call cuts
off begins again, and adds to the per-counterparty counts each time, without end.

* `ScoresMatchChain`: no log is missing from the counters per agent, and unless a process
  died between applying and marking none is counted twice: they are what a count over the
  contract's completions gives. The last activity is the contract's, or later if the node
  lacked a block.
* `DiscoveryMatchesChain`: what discovery lists was certified, and in the registry,
  at some block no older than the last applied one; its profile likewise. Its score
  is the contract's before the cap by stake, whichever count it ranks by and whenever it
  is asked, from the last activity to the end of the decay; higher only by a missing
  block. Not where something is counted again (`CountedOnce`): a crash, a deep
  reorganisation, and, ranking by counterparties, a restart.
* `CursorCoversLogs`: what the cursor has passed is applied, but for skipped
  registrations, as long as the stored hash does not belie the cursor.
* `AlertsMatchLogs`: each applied log that calls for an alert has exactly one, however
  often it was applied; for anything else none is raised, but for orphaned blocks.
* `EventuallyIndexed`: the cursor catches up although calls fail again and again, unless
  the server stays one whose indexer was rejected at start.

These hold while the applied logs are all on the chain (`Canonical`): between a
reorganisation and the poll that notices it the index follows the old branch. Their other
premises are disagreements of the code with its documentation, each at its line:

* **A rebuild can be lost** (`LostGuardsAreAlone`). `indexer.ts:424-426` and
  `OPERATIONS.md:66-69` promise that a changed hash rebuilds the index. Three things can
  disarm that: a hash call that fails (an empty hash is stored, or nothing is compared), a
  process lost between the two writes of the cursor or in a rebuild, and a chain replaced
  meanwhile. One alone is harmless. Any two can leave a cursor that nothing belies and
  nothing covers, and the logs below it are never asked for again. TLC shows it with
  a failing hash and a reorganisation, with a lost process and a reorganisation
  (11 states), and with all three (9 states); the counters then fall short for good.
* **Counted twice** (`Without({"crash"})`). `index_db.ts:12` says that a re-poll never
  double-counts; a process that dies between the two commits does.
* **The wrong agent's dispute** (`RowsAgree`). Completions survive a rebuild and are written
  with `INSERT OR IGNORE` (`index_db.ts:367`), although `:189` says that they are
  "re-upserted". If an id changes hands in a deep reorganisation, receipts and disputes
  are booked on the agent of the dead fork. One agent cannot meet that; with two agents and
  six blocks TLC does.
* **Orphaned alerts** stay below the cursor (`index_db.ts:195`), contrary to
  `OPERATIONS.md:80-81` and `HARDENING.md:100-101`: the last conjunct of `AlertsMatchLogs`
  excludes `reorg`, the other two do not.
* **A start that is lost**. `startIndexer` awaits the head uncaught (`indexer.ts:511`), and
  `server.ts:838-843` only logs the rejection: one failing call leaves a server that never
  polls. `indexer = "failed"` is that state, and only somebody's restart ends it.
* **A clock that is not the chain's** (`Without({"null"})`), contrary to "matches on-chain
  exactly" (`indexer.ts:176`).
* **Overlapping polls** count twice (`indexer_double_count`) and move the cursor back under
  one another: with two polls `CursorCoversLogs` fails in 18 states though nothing else
  fails. `AlertsMatchLogs` holds of any number of polls.

`Fairness`: blocks keep coming and a starting process gets an answer (weak), the timer
keeps starting polls and answers arrive (weak, per poll), and the two calls whose failure
ends a poll, `getLogs` and the block timestamp, succeed at some time if made again and
again (strong). Without the last an RPC node that never answers stalls any index.
`getCapability` and the calls for hashes may fail for ever, and nobody need restart a
server that was rejected.

### `webhooks` (pass)
Two polls that may overlap, two blocks with an alert each, one rebuild that replays
a block with its old or a new transaction, one restart with the same or another
configuration (valid, none, or one the dispatcher refuses), a backoff of at most two
intervals, retention of one alert. A delivery may fail, or succeed with its answer
lost. Time has no end, so the deadlock check is off for the last state of a stopped
process. Three blocks with a backoff of three (4.5 million states) are clean too.

* `CursorMeansReceived`: every alert at or below the cursor was accepted, although
  the slower of two polls moves the cursor back and a rebuild deletes alerts under it.
* `FirstDeliveriesInOrder`: alerts reach the subscriber for the first time in the
  order of the table.
* `RetentionKeepsUndelivered`: with a valid configuration retention deletes only
  alerts that were accepted.
* `EventuallyDelivered`: an alert that stays in the table reaches the subscriber.

Fairness: the server is started, time passes (the interval fires), polls go on
(weak); a subscriber that is asked for ever accepts one day, and its answer arrives
(strong). Without that no delivery can be promised.

### `backend` (pass)
Six scenarios: other wallets register, certify, slash and burn; calls fail; the
contracts are redeployed; completions are disputed by others beside two routes under
way, with no timelock, one without and one with a delay. The process may die at every
call. The caches start with any content an earlier process can have left.

* `RowsOfThisRegistry`: past its check of the registry the server has no row of
  another deployment, although the clearing commits in three statements.
* `ServesOwnCertified`: what it presents as Agent A's capability is one Agent A
  created on this registry, of the demo type, and certified.
* `CachedFactsAreReal`: no row, no line of the audit log and nothing discovery lists
  claims what the chain does not say, through racing routes, a keeper, the indexer
  as second writer and operations that are only scheduled.
* `EventuallyServes`: unless it is killed again and again, or others mint and burn again
  and again, the server comes up: no content of the caches, no failing call that is caught
  and no change of the registry before the start makes every start fail. Wallets that go on
  for ever can: `contracts.ts:302-304` reads `totalSupply` once, and a `tokenByIndex` past
  the end is not caught. The model bounds what others mint (`MaxCapabilities`,
  `RoomForOthers`), so here they stop by themselves; the second alternative says so.

Fairness is weak and on the start-up alone: somebody starts the server, and a call is
answered.

### `deployment` (pass)
Networks (local node, testnet, mainnet, a fork of it) and settings (delay, multisig,
proposers, reused or fresh agent, staged or overwriting descriptor, what is ignored
by git) as listed in `MCDeployment`, a deployer listed in lower case among them; two runs, so that the second finds what the
first left; the process may die before any call and any write, and what was sent is
mined all the same, on a node that estimates on the pending or the latest block. The
scripts of the ruling oracle work on other files and have scenarios of their own,
with an appeal layer of their own, a mock, or somebody else's. No fairness; the scripts
end, so the deadlock check is off.

* `AgentKeysSurvive`: no key `.env` has held is ever lost, and no description names
  an agent whose key was never stored.
* `DescribedIsHandedOver`: what `verify-deployment.mjs` has passed is its timelock's
  already; what a script has called accepted is its timelock's once the queue is mined;
  what a `deployments.json` names is by then its timelock's or offered to it. A set that is
  only offered stays under the deployer's control (`Ownable2Step`) until somebody executes
  `acceptOwnership`, and no script sees to that: see below.
* `DescribedRulingIsWired`: a ruling oracle file appears only when the panel it names
  obeys that oracle, has its reviewers, and a requested bond is deposited.

### `demo_app` (pass)
The page with two completions, four clicks and three handlers under way, with no
timelock, one without and one with a delay; a request fails before or after its
effect. Clicks are bounded, so the deadlock check is off; no fairness.

* `AcknowledgedNotRepeated`: whatever overlaps and fails, nothing that was
  acknowledged for a completion is asked for again.
* `PageTellsTruth`: whatever overlaps and fails, what the page says of the completion it
  shows is so on the chain: confirmed, contested, challenged, ruled on. "Challenge resolved
  via Timelock" stands for a ruling that was made or, with a delay, only scheduled. The one
  exemption is a handler that was under way when a newer completion appeared (`overtaken`):
  see below.

The listing is not a subject of the page's model: `/discover` answers from an index behind
the chain by the poll interval and the confirmations (`server.ts:734-760`,
`indexer.ts:417-431`), and what that index may say is the question of `indexer` and
`backend`. Here an answer to `/discover` only moves the handler on.

Fairness is used by `appeal`, `reputation`, `indexer`, `webhooks` and `backend`, the runs
with liveness properties. The deadlock check is on but in `webhooks`, `deployment` and
`demo_app`.

### Disagreements with the documentation (violation)
* `indexer_slashed_listed`: one failing `getCapability` makes `indexRange` skip a
  registration but mark the slash after it; when the poll fails later in the range and
  is repeated, the registration alone is applied and discovery lists the slashed
  capability as certified. The litepaper promises "certified, non-slashed agents".
* `indexer_double_count`: `setInterval` lets polls overlap; both see a log as not
  indexed before either marks it, and the agent gets its completion twice.
* `indexer_rebuild`: a restart between the two writes of the cursor
  (`indexer.ts:461-464`) looks like a reorganisation to the next poll. The rebuild
  replays every log on top of the per-counterparty counts it forgot to clear, and
  the distinct count stays too high after a revocation. Each rebuild adds another
  layer.

### Met on the way, without a run of their own
Contracts and panel:
* The comments of `ReviewerPanelAdapter.sol` say 24 hours, `RESOLUTION_WINDOW` is 48.
* A pause stops `contestChallenge` but not its deadline (`ReputationOracleNetwork.sol:300`):
  a challenge can be finalized that the agent never had time to contest. At exactly
  `timestamp + 7 days` the stake can be withdrawn and the completion still challenged.
* `docs/ruling-oracle.md:178` states the solvency invariant without the two fee
  ledgers; `:20` counts the challenge window from publication, the code from payment;
  `:22` says an escalated case defaults 30 days after escalation, the code counts from
  the escalation deadline; `:73-74` lists a `CANCELLED` status that is never set.
* `CapabilityRegistry.sol:214`: `offset + limit` is a checked addition, so a page with
  a limit near 2^256 reverts.

Indexer and webhooks:
* A skipped registration behind the cursor is never asked for again (`indexer.ts:230`
  says "retry on next poll").
* The index does not know the stake: `computeIndexedScore` (`indexer.ts:137`) has no
  counterpart of `_capByStake`, so discovery ranks an unstaked agent by a score that
  `getCreditScore` gives as 0 (`indexer.ts:176`: "matches on-chain exactly"); and
  `scoreType` (`:588`) says "two-sided" of a credit score.
* Completions, capabilities and the counts per counterparty are not cleared by a rebuild
  (`index_db.ts:194`); profiles are. The premises of the properties of `indexer` above tell
  what follows.
* One event may have two alert ids after retention and a rebuild (`HARDENING.md:101-102`);
  two challenges resolved in one transaction raise one alert (`index_db.ts:72`).
* A poll that overlaps and succeeds resets the backoff (`webhooks.ts:275-276`); with an
  invalid configuration retention prunes undelivered alerts (`OPERATIONS.md:166`).

Backend:
* A start with a failing call takes the capability for missing and registers a second
  one (`contracts.ts:315`); a redeployment to the same address is not noticed; a
  read-only instance skips the invalidation.
* `recordCapability` resets `slashed` and stores the label where the indexer stores the
  hash; `recordCompletion` resets `challenged` and `disputed` (`db.ts:113`); verdicts of
  keepers and other wallets reach the cache only by the indexer, which does not set them.

Scripts:
* `assertHardenedMainnet` takes any well-formed `MULTISIG_ADDRESS`, the deployer's own
  included (`docs/hardened-timelock.md:23-25`); one padded with blanks passes and is then
  ignored by `deploy-base-sepolia.ts:112`.
* `timelock-tx.mjs` does not read `.env`, so its default delay of 3600 is below 86400
  and `schedule` reverts; a second batch overwrites the files of the first
  (`docs/hardened-timelock.md:43-44`), whose operation can then not be executed from them.
* A crash between funding a fresh agent (`deploy-base-sepolia.ts:236`) and storing its key
  (`:274`) loses the key of a funded wallet, which no deployment uses yet.
* "re-run" (`deploy-ruling-oracle.ts:198`) cannot succeed with a panel that is wired;
  `depositBond` is `onlyOwner`, so with another owner and `RULING_BOND_USDC` the run fails
  after the panel is wired and leaves no file.
* `verify-deployment.mjs` counts a failing `paused()` of the reputation oracle (`:117-120`),
  but not a failing `registry.paused()` (`:135-140`).
* The scripts look for the deployer in `PROPOSERS` and `EXECUTORS` with a case-sensitive
  `includes` (`deploy-base-sepolia.ts:189-190`, `deploy-local.ts:94-95`). Listed in lower case
  the deployer has both roles, but the script only prints what is left to do, and the
  ownership stays offered, contrary to `deploy-base-sepolia.ts:182-185`.

Page:
* An answer for the old completion that arrives after a new run sets the flags of the new
  one (`App.tsx:149`, `:171`, `:187`): why `PageTellsTruth` says nothing of a page whose
  handlers were overtaken.
* "Challenge resolved via Timelock. Score adjusted" (`App.tsx:154`, `:227`) is also shown of
  a ruling that is only scheduled and may never be executed.
* Without a timelock the answer has no `executed`, so an executed ruling is shown as
  "Scheduled", and so is the placeholder `{}` of one that failed; after a failure the
  status stays at "challenging"; an older `refresh` may overwrite a newer one.

SDK and MCP server: `getRankingScore` falls back on any error; the MCP server's default
bond of 0.01 is below `MIN_BOND`.

## 5. What is proved

For every value of the constants that meets section 3: any set of cases, accounts,
capabilities, completions, reviewers, blocks, deployments and requests, and no bound on
time, amounts, restarts or runs of a script. Each row states `Spec => []P` (`AppealSpec`
for the panel), but for the refinement and for `SettlementsPayInFull`, `StakeIsHeld`,
`ScoresOnlyEarned`, `WiredWhenDescribed` and `PageNotRepeating`, which state an action
property. The rows of the indexer have the hypothesis given with them:
"polls start alone" is `[][StartsAlone]_vars`, so whichever poll starts finds no other under
way, as when a poll takes less than the interval; nothing in `indexer.ts` sees to it, and
without it the properties are false. The premises of the properties themselves (section 4)
are part of what is proved.

| Theorem | Property |
|---|---|
| `RulingOracleProofs!TypeCorrect` | `TypeOK`: no ledger ever goes below zero |
| `...!BooksKept` | `Bookkeeping`, the inductive invariant |
| `...!BondAlwaysCovers`, `AlwaysSolvent` | `BondCoversLiveCases`, `Solvent` |
| `...!SettlementsPayInFull` | `SettlementPaysInFull` |
| `...!LedgersAreExact` | `LedgersMatchCases` |
| `...!LossesAreExact` | `LossesMatchOutcomes` |
| `...!OracleImplementsAdjudication` | `Spec => Marketplace!Spec` |
| `...!RecordsTied` | `Tied`, the inductive invariant of the pair |
| `...!LinksMatch`, `OneVerdict` | `RequestsMatchCases`, `PanelAgreesWithOracle` |
| `...!WindowsAreKept` | `WindowsRespected`, the default of an escalated case included |
| `...!OnlyReviewersUphold` | `ChallengeFailsOnlyByReview` |
| `ReputationOracleProofs!OracleKept` | `IInv`, the inductive invariant |
| `...!CountersAreExact`, `EthIsAccounted` | `CountersMatchCompletions`, `EthAccounted` |
| `...!FraudStaysBare`, `StakeIsHeld` | `FraudNeverConfirmed`, `StakeStaysAtRisk` |
| `...!ScoresOnlyEarned` | `ScoresRiseByActivity` |
| `CapabilityRegistryProofs!RegistryKept` | `IInv`, the inductive invariant |
| `...!IndexIsExact`, `EthIsAccounted` | `IndexListsLiveCapabilities`, `EthAccounted` |
| `WebhooksProofs!DeliveryKept` | the inductive invariant of the dispatcher |
| `...!AtLeastOnce`, `Ordered`, `RetentionSafe` | `CursorMeansReceived`, `FirstDeliveriesInOrder`, `RetentionKeepsUndelivered` |
| `BackendProofs!BackendKept` | the inductive invariant of start-up and routes |
| `...!RowsAreCurrent`, `ServedIsOwn`, `CacheIsReal` | `RowsOfThisRegistry`, `ServesOwnCertified`, `CachedFactsAreReal` |
| `...!PageNotRepeating`, `PageIsTruthful` | `AcknowledgedNotRepeated`, `PageTellsTruth` of the page (`DemoSpec`) |
| `IndexerProofs!IndexerTypeCorrect` | `TypeOK` of chain, tables and polls |
| `...!AlertsAreExact` | `AlertsMatchLogs`: any polls, failures and reorganisations |
| `...!IndexFollowsChain` | `Canonical`: any polls and failures, no settled block replaced |
| `...!CursorIsSafe` | `CursorCoversLogs`: polls start alone |
| `...!ScoresAreExact` | `ScoresMatchChain`: polls start alone, no settled block replaced |
| `...!DiscoveryIsExact` | `DiscoveryMatchesChain`: polls start alone, no settled block replaced |
| `...!DiversityIsExact` | `DiversityMatchesChain`: polls start alone, no process lost, no settled block replaced |
| `DeploymentProofs!TypesKept` | `TypeOK` of scripts, files, mempool and chain |
| `...!KeysKept` | `AgentKeysSurvive` |
| `...!HandoverKept` | `DescribedIsHandedOver` |
| `...!WiredWhenDescribed` | `DescribedRulingIsWired` |

**Sums and counts** (`SumTheorems`). A ledger kept beside the data it sums is exact if
each step changes one entry and the ledger by as much (`TotalChange`), and a counter if
each step moves one element in or out of the set it counts (`CountChange`). The sums are
those of `MapThenSumSet`. Induction over the subsets of a finite set is stated with a set
of the subsets for which a fact holds, since an induction theorem over an operator
cannot be instantiated here.

**Ruling oracle.** `BondCoversLiveCases` is not inductive alone: an overturn takes at
most one `WorstCase` from the bond and frees one slot only if the counter is exact and
above zero, the case value is within the cap, and the challenger's bounty is that of the
value. So `Bookkeeping` adds that every case is well formed, that `caseFee` is the fee for
live cases and 0 for the others, that `liveCases` is exactly the number of live cases and
at most `MAX_LIVE_CASES`, and solvency. `LiveSetStep` computes how the number of live
cases changes when one case does; `OverturnKeepsBooks` and `FinalizeKeepsBooks` do the
arithmetic of the two settlements. Payment in full follows: with `Bookkeeping` neither
cut in `_overturn` applies. For the ledgers and the losses every step is
brought to one form (`EveryStep`): nothing changes, or one case becomes another record
whose bond, fee and exposure enter the ledgers, and which is either not final yet or
final for good with its loss booked. `RecordKept` says what a case records of its windows;
a case is in no loss list before it is final, so none is booked twice. The refinement
maps each action to the abstract step of its case or to a stutter; a second answer of the
appeal layer, ticks and all money moves stutter.

**Oracle and panel.** A step of the pair is a step of the oracle (`StepOfOracle`), so the
oracle's theorems hold of it. `Tied` relates the two records: a request belongs to a
challenged or decided case that names it and has its ruling; when it is resolved the case
is final and the verdicts agree; a case finalized after a challenge has a request that two
members of its panel upheld in time. An overturned one was
flipped by the panel, or is past its default deadline; with what `RecordKept` says of the
oracle's deadlines this is `WindowsRespected`. On its own the oracle can only overturn an escalated
case, and an unresolved request of a final case can only take over what was decided.

**Reputation oracle.** The entries are sound (a disputed one has no receipt, a challenged
one is not disputed), and the eligibility of every attestation ends no later than
`stakeUnlockAt`, which with `pendingChallenges` exact gives `StakeIsHeld`. Each counter is
the size of a set of completions; one entry changes in a step, so each set moves by that
entry (`EntryCounts`, `CountersFollow`). The number of distinct counterparties moves only
with the first receipt gained or the last one lost (`PartnerGained`, `PartnerLost`).
For the scores, every step brings an agent an attestation, a receipt or stake (`Gains`), or
leaves its time of activity and moves its counts and stake no way but down and its disputes
no way but up (`Loses`, `ActivityMoves`); the scores, with their integer division, are
monotone in all of these and fall with time (`DecayFalls`, `DecayedFalls`, `ScoresFall`).

**Registry.** The positions and the lists are inverse to one another; swap-and-pop keeps
that whichever entry goes, also the only or the last one. A bond is there exactly while
its capability is.

**Dispatcher.** What the cursor or any poll has passed was accepted, and the batch of a
poll is closed under older alerts: so a slower poll that moves the cursor back, or a
rebuild that deletes under it, cannot claim what the subscriber has not seen.

**Backend.** The chain of one deployment only moves forward (`ChainKept`): what was read
of it once and cannot be undone is still so when the route that read it writes. Rows are
of the deployment last noted, because it is noted only after all three are cleared.

**Page.** An acknowledged request is of a completion no newer than the one the page shows,
and if it is that one the page says so (`AcksShown`). The completion shown is replaced
only by one with a greater id than any call under way has (`CallOK`), which holds because
a running `run` keeps every button closed until its answer is there. `TruthOK` adds that
what any handler was told is so (`AnswerTrue`), since a completion is only ever challenged
further (`Later`), and, unless a handler was overtaken, that the handlers which set a flag
were clicked on the completion shown (`Current`).

**Indexer.** `Base` holds whatever fails: types, blocks numbered by height, hashes below
`mined` and never repeated, and what a poll's local variables can be at each call
(`ShapeOK`). Every step of a poll either leaves tables and hashes alone or is one of a few
forms, so each further invariant is proved of the forms and not of the actions.
* `ToldOK`: no two alerts are the same, and each applied block that calls for one has one.
  It survives everything: an alert is recorded once whoever records it, and a rebuild
  deletes every marker with whatever alerts it deletes. `MarksOK`, `AlertsOK`: without a deep reorganisation every marker is that of a
  settled block and every alert that of a block that calls for it.
* `CursorOK`, of a poll that no other is under way with (`Lone`): while the stored hash is
  that of the block at the cursor every log owed up to it is marked; so is every log behind
  the range a poll has in hand. It needs that two guards of a rebuild are not lost together
  (`OneGuardLost`, which is `LostGuardsAreAlone`). `StartsAlone` makes every poll lone
  (`AtMostOne`, `LoneCases`), through any number of restarts.
* `KnownOK` and `Lags`: a completion the database knows is one the settled chain has, and
  nothing that was counted up to an applied block is missing, whatever dies. `ScoreOK` adds
  the upper half where no process dies between applying and marking: the applied blocks are
  closed under older logs (`PrefixOK`), a block about to be applied never was (`FreshOK`),
  each counter is the size of the set of completions it stands for (`CountsMatch`), and the
  last activity is the contract's, or no older if the node lacks blocks (`ActivityMatches`).
  A rebuild starts again from the genesis (`GenesisCounts`).
* `ListingOK`: each row and each profile is that of *some* block no older than the last
  applied one (`RowsStand`, `ProfilesStand`). "Of the last applied one" is not inductive: a
  rebuild, or a process lost before it marks a log, moves that block back and leaves the
  rows. A log applied again keeps a row true of the later block it was true of
  (`RowAfterOldLog`), because ids are registered once and a certification is never taken
  back; a log applied for the first time comes after nothing but registrations
  (`IndexReaches`). A profile set again needs `MarksInOrder`: what is owed before a marked
  block is marked.
* `PairsMatch`: the receipts per counterparty and the distinct counterparties are those of
  the last applied block. A rebuild does not clear them (`indexer_rebuild`), so this is
  under `Calm`, where nothing is ever rebuilt (`NoRebuild`).
* `DecayAgrees` shows that the server's decay, which returns early where the contract
  multiplies, gives the contract's number for all inputs, and `DecayRises` that a later last
  activity never lowers it; `ListedTruly` and `ListedScore` put the parts together.

**Scripts.** `KeysOK` adds the two points between copy and rewriting where `.env` holds no
key. A set that is described is offered (`Offered`): both transfers are mined or
queued; of one that a script has called accepted so are the acceptances. `HandoverOK` is an induction over the transactions: before the
first is sent nobody has touched the set; after `s` of its `Steps` those mined are done and
the others wait in the mempool in order (`Queued`); transactions of other sets, Safe
operations and repeated executions leave that alone (`Aside`, `Untouched`). `ReadyMined`
follows the mempool to its end by recursion on its length (`Climb`). `WiredOK` says what
the script of the ruling oracle has found or done at each point after reading it, and that
whatever the owners of other panels do in between takes none of it back.

**Not proved.** Liveness (`EveryLiveCaseSettles`, `EveryRequestCloses`,
`BondsAndStakesExit`, `EventuallyIndexed`, `EventuallyDelivered`, `EventuallyServes`), and
what needs `ENABLED` (`CreatorCanExit`), is out of reach of the prover. Of the indexer under
deep reorganisations only the alerts and the cursor are proved; what the counters and the
listing are then is checked by TLC.

## 6. Bounds

`MaxTime`, `Amounts`, `Offers`, `Treasuries`, `EscalationIds` (ruling oracle),
`SignatureLists`, `Panels` (appeal), `Deposits`, `MaxStake`, `MaxCompletions`,
`Cooldowns` (reputation), `MaxTokens`, `Bonds`, `Penalties` (registry) bound what
TLC explores and are marked *(bound)* where they are declared. Two live cases is
where one case's settlement can hurt another; a third tests the slot limit. Two
completions are the fewest where "newest" differs from "any" and one counterparty
can sign twice. Three tokens are the fewest with a middle.

In the indexer `Scenarios` (faults, kinds of log, height, what retention keeps),
`MaxMined`, `MaxRestarts`, `Polls`, `MaxCompletions` and `MaxCapabilities` are the bounds;
the run has 262,466 distinct states. Five blocks hold an attestation, its receipt, its
challenge and the ruling, with one block on top; two chunks a poll make a poll end on the chunk limit, on the safe
head, and in the middle of the chain.

In the dispatcher `Polls`, `MaxBlocks`, `MaxRebuilds`, `MaxRestarts` and `MAX_BACKOFF`:
two polls are the fewest that overlap, two blocks the fewest with an order. In the
backend `Scenarios`, `MaxCapabilities`, `MaxCompletions`, `MaxRegistries` and
`Requests`: two routes race, one redeployment makes rows old, and two capabilities
change places when a burn reorders the enumeration. In the scripts `Scenarios`,
`MaxRuns`, `MaxTime` and `ReviewerLists`: the second run finds what the first left. In
the page `Timelocks`, `MaxDemos`, `MaxClicks` and `MaxInFlight`: the second completion is
where left-over flags show, and three handlers are one of each kind.

The proofs remove these bounds for the ruling oracle, the panel, the reputation oracle,
the registry, the dispatcher, the backend, the indexer, the scripts and the page.

## 7. Not modelled, and the plan

Not modelled:
* Contracts: `registerAgent` of the reputation oracle (stores a URI), ownership transfer,
  views other than the scores and `outcome`, EIP-712 encoding, metadata.
* Indexer: counters that are only reported, the paging of a listing, a reorganisation in
  the middle of a poll deeper than the confirmations.
* Backend: the read-only mode, the stake and the nonces, the routes that pass one call on
  and keep nothing (receipts, identity, scores, pause and the other owner calls), the
  checking of requests, metrics, IPFS, the model call, OpenAPI.
* SDKs and MCP server: one call per function and no state; discovery on the chain, a scan
  of several calls over a type index that may be reordered in between, is the part of them
  that a model would say something about.
* Front ends: the static demo (no backend), layout, theme, the API key.
* Scripts: the end-to-end, smoke and repository-checking ones, which call and compare.
* Agent B, the benchmark and the escrow example, which are clients of the system.

The plan; 1 to 11 are done:

1. `RulingOracle`, `Adjudication`, their proofs and the refinement.
2. `ReviewerPanel`, `Appeal`.
3. `ReputationOracle`, `CapabilityRegistry`.
4. `EventLog`, `IndexDb`, `Indexer`, `IndexedDiscovery`.
5. `Webhooks` with its proofs.
6. `BackendDb`, `Bootstrap`, `Backend` with their proofs.
7. `Deployment`, `RulingDeployment`.
8. `DemoApp`.
9. `SumTheorems` and the proofs of the ledgers, the panel, the reputation oracle and the
   registry.
10. `IndexerProofs`.
11. `DeploymentProofs`, and the page in `BackendProofs`.
12. Open: the SDK's scan over a changing index; the counters of the indexer under deep
    reorganisations as a theorem.
