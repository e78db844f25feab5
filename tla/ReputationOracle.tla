-------------------------- MODULE ReputationOracle --------------------------
(***************************************************************************)
(* contracts/ReputationOracleNetwork.sol: agents attest completions,       *)
(* counterparties countersign them, anyone may challenge one with a bond,  *)
(* and scores are read from the counters this leaves behind.  A step is a  *)
(* transaction.  URIs and task types are left out; so is receiptTimestamp, *)
(* which nothing reads, and registerAgent, which touches nothing else.     *)
(*                                                                         *)
(* As in RulingOracle, a definition whose name starts with Faulty is the   *)
(* definition after it with one mistake.                                   *)
(***************************************************************************)
EXTENDS Integers, FiniteSets, FiniteSetsExt

CONSTANTS
    Accounts,           \* addresses other than the owner
    Attesters,          \* those of them that attest completions and stake (bound)
    Requesters,         \* those that countersign (bound)
    Challengers,        \* those that challenge (bound)
    Zero,               \* address(0)
    MaxCompletions,     \* completions attested in all (bound)
    Deposits,           \* stake amounts moved at once (bound)
    MaxStake,           \* stake an agent locks at most (bound)
    Cooldowns,          \* cooldowns the owner sets (bound)
    MaxTime             \* the clock stops here unless a bond or a stake is locked (bound)

CONSTANTS
    CHALLENGE_BOND, SLASH_PER_DISPUTE, STAKE_PER_POINT, CHALLENGE_ELIGIBILITY,
    CHALLENGE_WINDOW, CHALLENGE_TIMEOUT, DECAY_GRACE, DECAY_HORIZON

FREE_POINTS == 0
BPS_DENOMINATOR == 10000

ASSUME AccountAssumption ==
    /\ Zero \notin Accounts
    /\ Attesters \cup Requesters \cup Challengers \subseteq Accounts
    /\ IsFiniteSet(Accounts)

ASSUME AmountAssumption ==
    /\ MaxCompletions \in Nat /\ Deposits \subseteq Nat \ {0} /\ MaxStake \in Nat
    /\ Cooldowns \subseteq Nat /\ MaxTime \in Nat
    /\ CHALLENGE_BOND \in Nat /\ SLASH_PER_DISPUTE \in Nat
    /\ STAKE_PER_POINT \in Nat \ {0} /\ DECAY_HORIZON \in Nat \ {0} /\ DECAY_GRACE \in Nat
    /\ CHALLENGE_ELIGIBILITY \in Nat /\ CHALLENGE_WINDOW \in Nat /\ CHALLENGE_TIMEOUT \in Nat

Ids == 1..MaxCompletions

VARIABLES
    now,                \* block.timestamp
    eth,                \* the contract's own balance
    paused,
    attestCooldown,
    nextCompletionId,
    completions,
    challenges,
    completionCount, confirmedCount, disputeCount, lastActivity, lastAttestation,
    counterpartyConfirmations, distinctCounterparties,
    stake, stakeUnlockAt, pendingChallenges, pendingWithdrawals,
    slashedEthPool

receipts == <<confirmedCount, counterpartyConfirmations, distinctCounterparties>>
activity == <<completionCount, lastActivity, lastAttestation, stakeUnlockAt>>
control == <<paused, attestCooldown>>
vars == <<now, eth, control, nextCompletionId, completions, challenges, activity, receipts,
          disputeCount, stake, pendingChallenges, pendingWithdrawals, slashedEthPool>>

NoCompletion ==
    [agent |-> Zero, timestamp |-> 0, challenged |-> FALSE, disputed |-> FALSE,
     counterparty |-> Zero]

NoChallenge ==
    [challenger |-> Zero, timestamp |-> 0, resolved |-> FALSE, deadline |-> 0,
     contested |-> FALSE]

\* A block's timestamp is never 0.
Init ==
    /\ now = 1 /\ eth = 0
    /\ paused = FALSE /\ attestCooldown = 0
    /\ nextCompletionId = 0
    /\ completions = [id \in Ids |-> NoCompletion]
    /\ challenges = [id \in Ids |-> NoChallenge]
    /\ completionCount = [a \in Accounts |-> 0]
    /\ confirmedCount = [a \in Accounts |-> 0]
    /\ disputeCount = [a \in Accounts |-> 0]
    /\ lastActivity = [a \in Accounts |-> 0]
    /\ lastAttestation = [a \in Accounts |-> 0]
    /\ counterpartyConfirmations = [a \in Accounts |-> [r \in Accounts |-> 0]]
    /\ distinctCounterparties = [a \in Accounts |-> 0]
    /\ stake = [a \in Accounts |-> 0]
    /\ stakeUnlockAt = [a \in Accounts |-> 0]
    /\ pendingChallenges = [a \in Accounts |-> 0]
    /\ pendingWithdrawals = [a \in Accounts |-> 0]
    /\ slashedEthPool = 0

Exists(id) == completions[id].agent # Zero
Pending(id) == completions[id].challenged /\ ~challenges[id].resolved
Agent(id) == completions[id].agent

-----------------------------------------------------------------------------
(* The owner's switches *)

Pause == ~paused /\ paused' = TRUE
Unpause == paused /\ paused' = FALSE

setPaused ==
    /\ Pause \/ Unpause
    /\ UNCHANGED <<now, eth, attestCooldown, nextCompletionId, completions, challenges,
                   activity, receipts, disputeCount, stake, pendingChallenges,
                   pendingWithdrawals, slashedEthPool>>

setAttestCooldown(cooldown) ==
    /\ attestCooldown' = cooldown
    /\ UNCHANGED <<now, eth, paused, nextCompletionId, completions, challenges, activity,
                   receipts, disputeCount, stake, pendingChallenges, pendingWithdrawals,
                   slashedEthPool>>

-----------------------------------------------------------------------------
(* Completions and receipts *)

attestCompletion(sender) ==
    /\ nextCompletionId < MaxCompletions
    /\ ~paused
    /\ attestCooldown # 0 => now >= lastAttestation[sender] + attestCooldown
    /\ lastAttestation' = [lastAttestation EXCEPT ![sender] = now]
    /\ nextCompletionId' = nextCompletionId + 1
    /\ completions' = [completions EXCEPT ![nextCompletionId + 1] =
                         [NoCompletion EXCEPT !.agent = sender, !.timestamp = now]]
    /\ completionCount' = [completionCount EXCEPT ![sender] = @ + 1]
    /\ lastActivity' = [lastActivity EXCEPT ![sender] = now]
    /\ stakeUnlockAt' = [stakeUnlockAt EXCEPT ![sender] = now + CHALLENGE_ELIGIBILITY]
    /\ UNCHANGED <<now, eth, control, challenges, receipts, disputeCount, stake,
                   pendingChallenges, pendingWithdrawals, slashedEthPool>>

\* Countersigns a completion that was found fraudulent.
FaultyAttestReceipt(id, sender) ==
    /\ ~paused
    /\ Exists(id) /\ sender # Agent(id)
    /\ completions[id].counterparty = Zero
    /\ ~Pending(id)
    /\ completions' = [completions EXCEPT ![id].counterparty = sender]
    /\ confirmedCount' = [confirmedCount EXCEPT ![Agent(id)] = @ + 1]
    /\ distinctCounterparties' =
          IF counterpartyConfirmations[Agent(id)][sender] = 0
          THEN [distinctCounterparties EXCEPT ![Agent(id)] = @ + 1]
          ELSE distinctCounterparties
    /\ counterpartyConfirmations' =
          [counterpartyConfirmations EXCEPT ![Agent(id)][sender] = @ + 1]
    /\ lastActivity' = [lastActivity EXCEPT ![Agent(id)] = now]
    /\ UNCHANGED <<now, eth, control, nextCompletionId, challenges, completionCount,
                   lastAttestation, stakeUnlockAt, disputeCount, stake, pendingChallenges,
                   pendingWithdrawals, slashedEthPool>>

attestReceipt(id, sender) ==
    /\ ~paused
    /\ Exists(id) /\ sender # Agent(id)
    /\ completions[id].counterparty = Zero
    /\ ~completions[id].disputed
    /\ ~Pending(id)
    /\ completions' = [completions EXCEPT ![id].counterparty = sender]
    /\ confirmedCount' = [confirmedCount EXCEPT ![Agent(id)] = @ + 1]
    /\ distinctCounterparties' =
          IF counterpartyConfirmations[Agent(id)][sender] = 0
          THEN [distinctCounterparties EXCEPT ![Agent(id)] = @ + 1]
          ELSE distinctCounterparties
    /\ counterpartyConfirmations' =
          [counterpartyConfirmations EXCEPT ![Agent(id)][sender] = @ + 1]
    /\ lastActivity' = [lastActivity EXCEPT ![Agent(id)] = now]
    /\ UNCHANGED <<now, eth, control, nextCompletionId, challenges, completionCount,
                   lastAttestation, stakeUnlockAt, disputeCount, stake, pendingChallenges,
                   pendingWithdrawals, slashedEthPool>>

\* Drops the counterparty from the count although other receipts of its remain.
FaultyDecrementCounterparty(agent, counterparty) ==
    /\ counterpartyConfirmations' =
          [counterpartyConfirmations EXCEPT ![agent][counterparty] = @ - 1]
    /\ distinctCounterparties' = [distinctCounterparties EXCEPT ![agent] = @ - 1]

_decrementCounterparty(agent, counterparty) ==
    LET n == counterpartyConfirmations[agent][counterparty]
    IN  /\ counterpartyConfirmations' =
              [counterpartyConfirmations EXCEPT ![agent][counterparty] = IF n <= 1 THEN 0 ELSE n - 1]
        /\ distinctCounterparties' =
              IF n = 1 /\ distinctCounterparties[agent] > 0
              THEN [distinctCounterparties EXCEPT ![agent] = @ - 1]
              ELSE distinctCounterparties

\* Takes a revocation for activity of the agent.
FaultyLivelyRevoke(id, sender) ==
    /\ Exists(id)
    /\ completions[id].counterparty = sender
    /\ ~completions[id].disputed
    /\ completions' = [completions EXCEPT ![id].counterparty = Zero]
    /\ confirmedCount' = [confirmedCount EXCEPT ![Agent(id)] = @ - 1]
    /\ _decrementCounterparty(Agent(id), sender)
    /\ lastActivity' = [lastActivity EXCEPT ![Agent(id)] = now]
    /\ UNCHANGED <<now, eth, control, nextCompletionId, challenges, completionCount,
                   lastAttestation, stakeUnlockAt, disputeCount, stake, pendingChallenges,
                   pendingWithdrawals, slashedEthPool>>

\* Not pausable, and open while a challenge is pending.
revokeReceipt(id, sender) ==
    /\ Exists(id)
    /\ completions[id].counterparty = sender
    /\ ~completions[id].disputed
    /\ completions' = [completions EXCEPT ![id].counterparty = Zero]
    /\ confirmedCount' = [confirmedCount EXCEPT ![Agent(id)] = @ - 1]
    /\ _decrementCounterparty(Agent(id), sender)
    /\ UNCHANGED <<now, eth, control, nextCompletionId, challenges, activity, disputeCount,
                   stake, pendingChallenges, pendingWithdrawals, slashedEthPool>>

-----------------------------------------------------------------------------
(* Challenges *)

\* The bond is the call's value.  The agent may challenge itself.
challengeCompletion(id, sender) ==
    /\ ~paused
    /\ Exists(id)
    /\ ~completions[id].challenged
    /\ now <= completions[id].timestamp + CHALLENGE_ELIGIBILITY
    /\ eth' = eth + CHALLENGE_BOND
    /\ completions' = [completions EXCEPT ![id].challenged = TRUE]
    /\ pendingChallenges' = [pendingChallenges EXCEPT ![Agent(id)] = @ + 1]
    /\ challenges' = [challenges EXCEPT ![id] =
                        [NoChallenge EXCEPT !.challenger = sender, !.timestamp = now,
                                            !.deadline = now + CHALLENGE_WINDOW]]
    /\ UNCHANGED <<now, control, nextCompletionId, activity, receipts, disputeCount, stake,
                   pendingWithdrawals, slashedEthPool>>

contestChallenge(id) ==
    /\ ~paused
    /\ Pending(id)
    /\ ~challenges[id].contested
    /\ now <= challenges[id].deadline
    /\ challenges' = [challenges EXCEPT ![id].contested = TRUE]
    /\ UNCHANGED <<now, eth, control, nextCompletionId, completions, activity, receipts,
                   disputeCount, stake, pendingChallenges, pendingWithdrawals,
                   slashedEthPool>>

\* The agent's stake pays for an upheld challenge as far as it goes.
Slash(id) == Min({SLASH_PER_DISPUTE, stake[Agent(id)]})

_uphold(id) ==
    LET receipt == completions[id].counterparty
    IN  /\ challenges' = [challenges EXCEPT ![id].resolved = TRUE]
        /\ completions' = [completions EXCEPT ![id].disputed = TRUE, ![id].counterparty = Zero]
        /\ disputeCount' = [disputeCount EXCEPT ![Agent(id)] = @ + 1]
        /\ pendingChallenges' = [pendingChallenges EXCEPT ![Agent(id)] = @ - 1]
        /\ stake' = [stake EXCEPT ![Agent(id)] = @ - Slash(id)]
        /\ pendingWithdrawals' = [pendingWithdrawals EXCEPT ![challenges[id].challenger] =
                                    @ + CHALLENGE_BOND + Slash(id)]
        /\ IF receipt = Zero
           THEN UNCHANGED receipts
           ELSE /\ confirmedCount' = [confirmedCount EXCEPT ![Agent(id)] = @ - 1]
                /\ _decrementCounterparty(Agent(id), receipt)
        /\ UNCHANGED <<now, eth, control, nextCompletionId, activity, slashedEthPool>>

finalizeChallenge(id) ==
    /\ ~paused
    /\ Pending(id)
    /\ ~challenges[id].contested
    /\ now >= challenges[id].deadline
    /\ _uphold(id)

\* The owner, through the timelock, whether the challenge is contested or not.
resolveChallenge(id, upheld) ==
    /\ Pending(id)
    /\ \/ upheld /\ _uphold(id)
       \/ /\ ~upheld
          /\ challenges' = [challenges EXCEPT ![id].resolved = TRUE]
          /\ pendingChallenges' = [pendingChallenges EXCEPT ![Agent(id)] = @ - 1]
          /\ slashedEthPool' = slashedEthPool + CHALLENGE_BOND
          /\ UNCHANGED <<now, eth, control, nextCompletionId, completions, activity, receipts,
                         disputeCount, stake, pendingWithdrawals>>

\* The exit of a bond stops with the rest of the protocol.
FaultyCancelChallenge(id, sender) ==
    /\ ~paused
    /\ Pending(id)
    /\ sender = challenges[id].challenger
    /\ now >= challenges[id].timestamp + CHALLENGE_TIMEOUT
    /\ challenges' = [challenges EXCEPT ![id].resolved = TRUE]
    /\ pendingChallenges' = [pendingChallenges EXCEPT ![Agent(id)] = @ - 1]
    /\ pendingWithdrawals' = [pendingWithdrawals EXCEPT ![sender] = @ + CHALLENGE_BOND]
    /\ UNCHANGED <<now, eth, control, nextCompletionId, completions, activity, receipts,
                   disputeCount, stake, slashedEthPool>>

\* Not pausable.
cancelChallenge(id, sender) ==
    /\ Pending(id)
    /\ sender = challenges[id].challenger
    /\ now >= challenges[id].timestamp + CHALLENGE_TIMEOUT
    /\ challenges' = [challenges EXCEPT ![id].resolved = TRUE]
    /\ pendingChallenges' = [pendingChallenges EXCEPT ![Agent(id)] = @ - 1]
    /\ pendingWithdrawals' = [pendingWithdrawals EXCEPT ![sender] = @ + CHALLENGE_BOND]
    /\ UNCHANGED <<now, eth, control, nextCompletionId, completions, activity, receipts,
                   disputeCount, stake, slashedEthPool>>

-----------------------------------------------------------------------------
(* Stake and refunds.  A receiver that refuses ETH makes its own withdrawal    *)
(* revert, which is the same as never withdrawing.                             *)

Send(amount) ==
    /\ amount <= eth
    /\ eth' = eth - amount

\* Keeps the refund on the books.
FaultyWithdrawRefund(sender) ==
    /\ pendingWithdrawals[sender] # 0
    /\ Send(pendingWithdrawals[sender])
    /\ UNCHANGED <<now, control, nextCompletionId, completions, challenges, activity,
                   receipts, disputeCount, stake, pendingChallenges, pendingWithdrawals,
                   slashedEthPool>>

withdrawRefund(sender) ==
    /\ pendingWithdrawals[sender] # 0
    /\ Send(pendingWithdrawals[sender])
    /\ pendingWithdrawals' = [pendingWithdrawals EXCEPT ![sender] = 0]
    /\ UNCHANGED <<now, control, nextCompletionId, completions, challenges, activity,
                   receipts, disputeCount, stake, pendingChallenges, slashedEthPool>>

depositStake(sender, amount) ==
    /\ stake[sender] + amount <= MaxStake
    /\ eth' = eth + amount
    /\ stake' = [stake EXCEPT ![sender] = @ + amount]
    /\ UNCHANGED <<now, control, nextCompletionId, completions, challenges, activity,
                   receipts, disputeCount, pendingChallenges, pendingWithdrawals,
                   slashedEthPool>>

\* Looks at the newest attestation only, not at what is pending.
FaultyWithdrawStake(sender, amount) ==
    /\ amount # 0 /\ amount <= stake[sender]
    /\ now >= stakeUnlockAt[sender]
    /\ Send(amount)
    /\ stake' = [stake EXCEPT ![sender] = @ - amount]
    /\ UNCHANGED <<now, control, nextCompletionId, completions, challenges, activity,
                   receipts, disputeCount, pendingChallenges, pendingWithdrawals,
                   slashedEthPool>>

withdrawStake(sender, amount) ==
    /\ amount # 0 /\ amount <= stake[sender]
    /\ now >= stakeUnlockAt[sender]
    /\ pendingChallenges[sender] = 0
    /\ Send(amount)
    /\ stake' = [stake EXCEPT ![sender] = @ - amount]
    /\ UNCHANGED <<now, control, nextCompletionId, completions, challenges, activity,
                   receipts, disputeCount, pendingChallenges, pendingWithdrawals,
                   slashedEthPool>>

\* To any address the owner names: one that accepts.
withdrawEthPool(amount) ==
    /\ amount # 0 /\ amount <= slashedEthPool
    /\ Send(amount)
    /\ slashedEthPool' = slashedEthPool - amount
    /\ UNCHANGED <<now, control, nextCompletionId, completions, challenges, activity,
                   receipts, disputeCount, stake, pendingChallenges, pendingWithdrawals>>

-----------------------------------------------------------------------------
(* Scores *)

_decayBps(elapsed) ==
    CASE elapsed <= DECAY_GRACE                  -> BPS_DENOMINATOR
      [] elapsed >= DECAY_GRACE + DECAY_HORIZON  -> 0
      [] OTHER -> ((DECAY_HORIZON - (elapsed - DECAY_GRACE)) * BPS_DENOMINATOR) \div DECAY_HORIZON

_decayedScore(count, disputes, lastAct) ==
    LET net == IF count > disputes THEN count - disputes ELSE 0
    IN  IF lastAct > 0 /\ net > 0
        THEN (net * _decayBps(now - lastAct)) \div BPS_DENOMINATOR
        ELSE net

_capByStake(agent, score) == Min({score, FREE_POINTS + stake[agent] \div STAKE_PER_POINT})

getTwoSidedScore(a) ==
    _capByStake(a, _decayedScore(confirmedCount[a], disputeCount[a], lastActivity[a]))

getCreditScore(a) ==
    _capByStake(a, _decayedScore(distinctCounterparties[a], disputeCount[a], lastActivity[a]))

-----------------------------------------------------------------------------

Tick ==
    /\ \/ now < MaxTime
       \/ \E id \in Ids : Pending(id) /\ now < challenges[id].timestamp + CHALLENGE_TIMEOUT
       \/ \E a \in Attesters : stake[a] > 0 /\ now < stakeUnlockAt[a]
    /\ now' = now + 1
    /\ UNCHANGED <<eth, control, nextCompletionId, completions, challenges, activity,
                   receipts, disputeCount, stake, pendingChallenges, pendingWithdrawals,
                   slashedEthPool>>

OwnerActs ==
    \/ setPaused
    \/ \E cooldown \in Cooldowns : setAttestCooldown(cooldown)
    \/ \E id \in Ids, upheld \in BOOLEAN : resolveChallenge(id, upheld)
    \/ \E amount \in {CHALLENGE_BOND, slashedEthPool} : withdrawEthPool(amount)

Attest ==
    \/ \E a \in Attesters : attestCompletion(a)
    \/ \E id \in Ids, sender \in Requesters : attestReceipt(id, sender)
    \/ \E id \in Ids, sender \in Requesters : revokeReceipt(id, sender)

Dispute ==
    \/ \E id \in Ids, sender \in Challengers : challengeCompletion(id, sender)
    \/ \E id \in Ids : contestChallenge(id)
    \/ \E id \in Ids : finalizeChallenge(id)
    \/ \E id \in Ids, sender \in Challengers : cancelChallenge(id, sender)

MoveEth ==
    \/ \E a \in Accounts : withdrawRefund(a)
    \/ \E a \in Attesters, amount \in Deposits : depositStake(a, amount)
    \/ \E a \in Attesters : \E amount \in Deposits \cup {stake[a]} : withdrawStake(a, amount)

Next == Tick \/ OwnerActs \/ Attest \/ Dispute \/ MoveEth

Spec == Init /\ [][Next]_vars

-----------------------------------------------------------------------------
(* Properties *)

\* The contract's ETH is exactly what it owes: stakes, the bonds of pending
\* challenges, refunds not yet claimed and the owner's pool, none of them below zero:
\* no checked subtraction blocks a resolution or an exit.
EthAccounted ==
    /\ eth = MapThenSumSet(LAMBDA a : stake[a] + pendingWithdrawals[a], Accounts)
             + CHALLENGE_BOND * Cardinality({id \in Ids : Pending(id)}) + slashedEthPool
    /\ slashedEthPool >= 0
    /\ \A a \in Accounts : stake[a] >= 0 /\ pendingWithdrawals[a] >= 0

\* The counters the scores are computed from never drift from the completions
\* they summarise, through any order of receipts, revocations and disputes.
CountersMatchCompletions ==
    \A a \in Accounts :
        LET mine == {id \in Ids : Agent(id) = a}
            signed == [r \in Accounts |-> {id \in mine : completions[id].counterparty = r}]
        IN  /\ completionCount[a] = Cardinality(mine)
            /\ disputeCount[a] = Cardinality({id \in mine : completions[id].disputed})
            /\ pendingChallenges[a] = Cardinality({id \in mine : Pending(id)})
            /\ \A r \in Accounts : counterpartyConfirmations[a][r] = Cardinality(signed[r])
            /\ confirmedCount[a] = Cardinality(UNION {signed[r] : r \in Accounts})
            /\ distinctCounterparties[a] = Cardinality({r \in Accounts : signed[r] # {}})

\* What was found fraudulent carries no receipt, whichever came first.
FraudNeverConfirmed ==
    \A id \in Ids :
        completions[id].disputed =>
            completions[id].counterparty = Zero /\ challenges[id].resolved

Upheld(id) == ~completions[id].disputed /\ completions'[id].disputed

\* A completion that challengeCompletion would still take a challenge of.
Challengeable(id) ==
    /\ Exists(id) /\ ~completions[id].challenged
    /\ now <= completions[id].timestamp + CHALLENGE_ELIGIBILITY

\* An agent's stake stays where it can be slashed: short of an upheld challenge it
\* falls only when no challenge against the agent is pending and none can come any
\* more, but for one instant: exactly CHALLENGE_ELIGIBILITY after an attestation
\* challengeCompletion (<=) and withdrawStake (>=) are both open, so that a challenge
\* after the withdrawal in that block finds nothing to slash.  The contract's
\* comments (lines 53-54, 209-210 and 419-420) know no such instant.
StakeStaysAtRisk ==
    [][\A a \in Accounts :
          stake'[a] < stake[a] =>
              \/ \E id \in Ids : Agent(id) = a /\ Upheld(id)
              \/ \A id \in Ids : Agent(id) = a =>
                    /\ ~Pending(id)
                    /\ Challengeable(id) =>
                          now = completions[id].timestamp + CHALLENGE_ELIGIBILITY]_vars

\* A score rises only because the agent did something: a new attestation, a new
\* receipt or more stake.  Time, revocations, disputes and their end never raise it.
ScoresRiseByActivity ==
    [][\A a \in Accounts :
          (getCreditScore(a)' > getCreditScore(a) \/ getTwoSidedScore(a)' > getTwoSidedScore(a)) =>
              \/ completionCount'[a] > completionCount[a]
              \/ confirmedCount'[a] > confirmedCount[a]
              \/ stake'[a] > stake[a]]_vars

\* Time passes, and who has something to take out takes it once that is open.
ExitFairness ==
    /\ WF_vars(Tick)
    /\ \A id \in Ids, sender \in Challengers : WF_vars(cancelChallenge(id, sender))
    /\ \A a \in Attesters : WF_vars(withdrawStake(a, stake[a]))

\* Nothing is locked for ever, though the owner never rules on a contested challenge
\* and the protocol stays paused: every challenge ends, and the stake of an agent
\* that has stopped attesting comes out, however often others challenge it.
BondsAndStakesExit ==
    (ExitFairness /\ <>[][UNCHANGED completionCount]_vars) =>
        /\ \A id \in Ids : Pending(id) ~> ~Pending(id)
        /\ \A a \in Attesters : stake[a] > 0 ~> stake[a] = 0

=============================================================================
