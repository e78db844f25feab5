---------------------------- MODULE RulingOracle ----------------------------
(***************************************************************************)
(* contracts/RulingOracle.sol: the operator publishes provisional rulings  *)
(* backed by a USDC bond, anyone may challenge one, a challenge goes to an *)
(* appeal layer or succeeds by default, and a marketplace reads the final  *)
(* outcome.  A transaction of the contract is one step: either every       *)
(* change and transfer it makes takes effect or, when a check fails or a   *)
(* transfer is refused, none does and the step is not enabled.             *)
(*                                                                         *)
(* The appeal layer (the contract behind ESCALATION) is left open here: it *)
(* may answer any request it was given, either way, at any time, twice or  *)
(* never.  Appeal.tla closes it with the reviewer panel.                   *)
(*                                                                         *)
(* A definition whose name starts with Faulty is not part of the model: it *)
(* is the definition after it with one mistake, kept to show that the      *)
(* properties at the end would notice the mistake.                         *)
(***************************************************************************)
EXTENDS Integers, Sequences, FiniteSets, FiniteSetsExt

CONSTANTS
    CaseIds,            \* the marketplace's case ids
    Accounts,           \* addresses that hold USDC, the operator among them
    Operator,           \* the owner of the contract
    Oracle,             \* the contract's own address
    Zero,               \* address(0) and bytes32(0)
    EscalationIds,      \* request ids the appeal layer may return
    Frozen,             \* accounts USDC refuses to move money to or from
    InitialBalance,     \* USDC of each account at deployment
    InitialTreasury,
    Offers,             \* publish requests the operator may submit (bound)
    Amounts,            \* bond amounts the operator moves at once (bound)
    Treasuries,         \* addresses the operator tries as treasury (bound)
    MaxTime             \* the clock stops here unless a live case needs it (bound)

CONSTANTS
    CASE_CAP, CHALLENGE_WINDOW, ESCALATION_WINDOW, ESCALATION_RESOLUTION_TIMEOUT,
    CHALLENGE_BOND_BPS, MIN_CHALLENGE_BOND, FEE, PENDING_FEE_TTL,
    MAX_LIVE_CASES, BOND_FLOOR

BPS == 10000

Holders == Accounts \cup {Oracle}
Rulings == {"NONE", "PAY", "REFUND"}
Statuses == {"NONE", "RULED", "CHALLENGED", "FINALIZED", "OVERTURNED", "PENDING_FEE"}

PublishRequest ==
    [caseId : CaseIds, provider : Accounts, payer : Accounts, feePayer : Accounts,
     value : Nat, ruling : Rulings]

ASSUME AddressAssumption ==
    /\ Operator \in Accounts
    /\ Oracle \notin Accounts
    /\ Zero \notin Accounts \cup CaseIds \cup EscalationIds \cup {Oracle}
    /\ Frozen \subseteq Accounts
    /\ InitialTreasury \in Accounts
    /\ InitialBalance \in [Accounts -> Nat]
    /\ IsFiniteSet(CaseIds)

ASSUME ParameterAssumption ==
    /\ CASE_CAP \in Nat /\ CHALLENGE_BOND_BPS \in Nat /\ MIN_CHALLENGE_BOND \in Nat
    /\ FEE \in Nat /\ MAX_LIVE_CASES \in Nat /\ BOND_FLOOR \in Nat
    /\ CHALLENGE_WINDOW \in Nat /\ ESCALATION_WINDOW \in Nat
    /\ ESCALATION_RESOLUTION_TIMEOUT \in Nat /\ PENDING_FEE_TTL \in Nat
    /\ MaxTime \in Nat

ASSUME BoundAssumption ==
    /\ Offers \subseteq PublishRequest
    /\ Amounts \subseteq Nat
    /\ Treasuries \subseteq Holders

-----------------------------------------------------------------------------

VARIABLES
    now,                \* block.timestamp
    balance,            \* USDC: balanceOf
    treasury,
    cases,              \* _cases
    caseByEscalation,
    losses,             \* _losses, each LossRecord reduced to its case id
    operatorBond,
    challengeBonds,
    feePool,
    heldFees,
    caseFee,
    liveExposure,
    liveCases

ledgers == <<operatorBond, challengeBonds, feePool, heldFees, caseFee, liveExposure, liveCases>>
vars == <<now, balance, treasury, cases, caseByEscalation, losses, ledgers>>

Case ==
    [provider : Accounts \cup {Zero}, payer : Accounts \cup {Zero},
     feePayer : Accounts \cup {Zero}, value : Nat, ruling : Rulings, status : Statuses,
     ruledAt : Nat, challengeDeadline : Nat, challengeBond : Nat, escalationDeadline : Nat,
     finalizedAt : Nat, challenger : Accounts \cup {Zero},
     escalationId : EscalationIds \cup {Zero}, feeRefunded : BOOLEAN, publishedAt : Nat]

EmptyCase ==
    [provider |-> Zero, payer |-> Zero, feePayer |-> Zero, value |-> 0, ruling |-> "NONE",
     status |-> "NONE", ruledAt |-> 0, challengeDeadline |-> 0, challengeBond |-> 0,
     escalationDeadline |-> 0, finalizedAt |-> 0, challenger |-> Zero,
     escalationId |-> Zero, feeRefunded |-> FALSE, publishedAt |-> 0]

Init ==
    /\ now = 0
    /\ balance = [a \in Holders |-> IF a = Oracle THEN 0 ELSE InitialBalance[a]]
    /\ treasury = InitialTreasury
    /\ cases = [c \in CaseIds |-> EmptyCase]
    /\ caseByEscalation = [id \in EscalationIds |-> Zero]
    /\ losses = [a \in Accounts |-> << >>]
    /\ operatorBond = 0 /\ challengeBonds = 0 /\ feePool = 0 /\ heldFees = 0
    /\ caseFee = [c \in CaseIds |-> 0]
    /\ liveExposure = 0 /\ liveCases = 0

-----------------------------------------------------------------------------

challengeBondFor(value) ==
    LET bpsBond == (value * CHALLENGE_BOND_BPS) \div BPS
    IN  IF bpsBond > MIN_CHALLENGE_BOND THEN bpsBond ELSE MIN_CHALLENGE_BOND

\* What the worst overturn costs the operator's bond.
WorstCase == CASE_CAP + challengeBondFor(CASE_CAP)

\* As deployed: 3000 >= 5 * (300 + 30).
ASSUME FloorAssumption == BOND_FLOOR >= MAX_LIVE_CASES * WorstCase

\* The party a ruling decides against, and the one it decides for.
Wronged(k) == IF k.ruling = "PAY" THEN k.payer ELSE k.provider
Favored(k) == IF k.ruling = "PAY" THEN k.provider ELSE k.payer

Flipped(ruling) == IF ruling = "PAY" THEN "REFUND" ELSE "PAY"

\* The ruling the outcome() view returns: NONE until the case is final.
outcome(c) ==
    CASE cases[c].status = "FINALIZED"  -> cases[c].ruling
      [] cases[c].status = "OVERTURNED" -> Flipped(cases[c].ruling)
      [] OTHER                          -> "NONE"

IsLive(k) == k.status \in {"RULED", "CHALLENGED"}
IsFinal(k) == k.status \in {"FINALIZED", "OVERTURNED"}
LiveSet == {c \in CaseIds : IsLive(cases[c])}

\* An ERC-20 transfer of canonical USDC: it moves the amount or reverts.
Transfer(from, to, amount) ==
    /\ {from, to} \cap Frozen = {}
    /\ amount <= balance[from]
    /\ balance' = [balance EXCEPT ![from] = @ - amount, ![to] = @ + amount]

\* The transfers one settlement makes, owed[a] in all to account a.  Each is
\* pushed inside the transaction, so a refused one undoes the settlement.
PayOut(owed, total) ==
    /\ total <= balance[Oracle]
    /\ \A a \in Accounts : owed[a] > 0 => a \notin Frozen
    /\ balance' = [a \in Holders |-> IF a = Oracle THEN balance[a] - total
                                                   ELSE balance[a] + owed[a]]

-----------------------------------------------------------------------------
(* Operator bond and treasury *)

depositBond(amount) ==
    /\ amount # 0
    /\ Transfer(Operator, Oracle, amount)
    /\ operatorBond' = operatorBond + amount
    /\ UNCHANGED <<now, treasury, cases, caseByEscalation, losses, challengeBonds, feePool,
                   heldFees, caseFee, liveExposure, liveCases>>

\* Forgets that live cases hold the bond.
FaultyWithdrawBond(amount) ==
    /\ amount # 0
    /\ amount <= operatorBond
    /\ Transfer(Oracle, Operator, amount)
    /\ operatorBond' = operatorBond - amount
    /\ UNCHANGED <<now, treasury, cases, caseByEscalation, losses, challengeBonds, feePool,
                   heldFees, caseFee, liveExposure, liveCases>>

withdrawBond(amount) ==
    /\ amount # 0
    /\ amount <= operatorBond
    /\ liveCases = 0
    /\ Transfer(Oracle, Operator, amount)
    /\ operatorBond' = operatorBond - amount
    /\ UNCHANGED <<now, treasury, cases, caseByEscalation, losses, challengeBonds, feePool,
                   heldFees, caseFee, liveExposure, liveCases>>

\* Accepts the contract itself as treasury.
FaultySetTreasury(next) ==
    /\ treasury' = next
    /\ UNCHANGED <<now, balance, cases, caseByEscalation, losses, ledgers>>

setTreasury(next) ==
    /\ next # Oracle
    /\ treasury' = next
    /\ UNCHANGED <<now, balance, cases, caseByEscalation, losses, ledgers>>

\* Leaves the pool standing after it was paid out.
FaultyWithdrawFees ==
    /\ feePool # 0
    /\ Transfer(Oracle, treasury, feePool)
    /\ UNCHANGED <<now, treasury, cases, caseByEscalation, losses, ledgers>>

withdrawFees ==
    /\ feePool # 0
    /\ Transfer(Oracle, treasury, feePool)
    /\ feePool' = 0
    /\ UNCHANGED <<now, treasury, cases, caseByEscalation, losses, operatorBond,
                   challengeBonds, heldFees, caseFee, liveExposure, liveCases>>

-----------------------------------------------------------------------------
(* Rulings *)

publishRuling(req) ==
    /\ req.provider # req.payer
    /\ cases[req.caseId].status = "NONE"
    /\ req.ruling # "NONE"
    /\ req.value # 0 /\ req.value <= CASE_CAP
    /\ cases' = [cases EXCEPT ![req.caseId] =
                   [@ EXCEPT !.provider = req.provider, !.payer = req.payer,
                             !.feePayer = req.feePayer, !.value = req.value,
                             !.ruling = req.ruling, !.status = "PENDING_FEE",
                             !.publishedAt = now]]
    /\ UNCHANGED <<now, balance, treasury, caseByEscalation, losses, ledgers>>

\* Lets one case too many go live.
FaultyPayFee(c, sender) ==
    /\ cases[c].status = "PENDING_FEE"
    /\ sender = cases[c].feePayer
    /\ operatorBond >= BOND_FLOOR
    /\ liveCases <= MAX_LIVE_CASES
    /\ cases' = [cases EXCEPT ![c] =
                   [@ EXCEPT !.status = "RULED", !.ruledAt = now,
                             !.challengeDeadline = now + CHALLENGE_WINDOW]]
    /\ liveExposure' = liveExposure + cases[c].value
    /\ liveCases' = liveCases + 1
    /\ caseFee' = [caseFee EXCEPT ![c] = FEE]
    /\ heldFees' = heldFees + FEE
    /\ Transfer(sender, Oracle, FEE)
    /\ UNCHANGED <<now, treasury, caseByEscalation, losses, operatorBond, challengeBonds,
                   feePool>>

payFee(c, sender) ==
    /\ cases[c].status = "PENDING_FEE"
    /\ sender = cases[c].feePayer
    /\ operatorBond >= BOND_FLOOR
    /\ liveCases < MAX_LIVE_CASES
    /\ cases' = [cases EXCEPT ![c] =
                   [@ EXCEPT !.status = "RULED", !.ruledAt = now,
                             !.challengeDeadline = now + CHALLENGE_WINDOW]]
    /\ liveExposure' = liveExposure + cases[c].value
    /\ liveCases' = liveCases + 1
    /\ caseFee' = [caseFee EXCEPT ![c] = FEE]
    /\ heldFees' = heldFees + FEE
    /\ Transfer(sender, Oracle, FEE)
    /\ UNCHANGED <<now, treasury, caseByEscalation, losses, operatorBond, challengeBonds,
                   feePool>>

\* Deletes the case: its id is free for another offer.
cancelUnpaid(c, sender) ==
    /\ cases[c].status = "PENDING_FEE"
    /\ \/ sender = cases[c].feePayer
       \/ sender = Operator /\ now >= cases[c].publishedAt + PENDING_FEE_TTL
    /\ cases' = [cases EXCEPT ![c] = EmptyCase]
    /\ UNCHANGED <<now, balance, treasury, caseByEscalation, losses, ledgers>>

challenge(c, sender) ==
    LET bond == IF sender = Wronged(cases[c]) THEN 0 ELSE challengeBondFor(cases[c].value)
    IN  /\ cases[c].status = "RULED"
        /\ now < cases[c].challengeDeadline
        /\ cases' = [cases EXCEPT ![c] =
                       [@ EXCEPT !.status = "CHALLENGED", !.challenger = sender,
                                 !.challengeBond = bond,
                                 !.escalationDeadline = now + ESCALATION_WINDOW]]
        /\ challengeBonds' = challengeBonds + bond
        /\ \/ bond = 0 /\ UNCHANGED balance
           \/ bond # 0 /\ Transfer(sender, Oracle, bond)
        /\ UNCHANGED <<now, treasury, caseByEscalation, losses, operatorBond, feePool,
                       heldFees, caseFee, liveExposure, liveCases>>

\* Escalates a case that was escalated before.
FaultyEscalateRuling(c, id) ==
    /\ cases[c].status = "CHALLENGED"
    /\ now < cases[c].escalationDeadline
    /\ id # Zero /\ caseByEscalation[id] = Zero
    /\ cases' = [cases EXCEPT ![c] = [@ EXCEPT !.escalationId = id]]
    /\ caseByEscalation' = [caseByEscalation EXCEPT ![id] = c]
    /\ UNCHANGED <<now, balance, treasury, losses, ledgers>>

\* id is what ESCALATION.escalate returned.
escalateRuling(c, id) ==
    /\ cases[c].status = "CHALLENGED"
    /\ now < cases[c].escalationDeadline
    /\ cases[c].escalationId = Zero
    /\ id # Zero /\ caseByEscalation[id] = Zero
    /\ cases' = [cases EXCEPT ![c] = [@ EXCEPT !.escalationId = id]]
    /\ caseByEscalation' = [caseByEscalation EXCEPT ![id] = c]
    /\ UNCHANGED <<now, balance, treasury, losses, ledgers>>

-----------------------------------------------------------------------------
(* Settlement *)

\* Frees the slot and forgets the exposure.
FaultyReleaseExposure(k) ==
    /\ liveCases >= 1
    /\ liveCases' = liveCases - 1
    /\ UNCHANGED liveExposure

\* _releaseExposure; the subtractions are checked, as in Solidity 0.8.
ReleaseExposure(k) ==
    /\ k.value <= liveExposure /\ liveCases >= 1
    /\ liveExposure' = liveExposure - k.value
    /\ liveCases' = liveCases - 1

\* The challenge bond leaves the reserve, whoever receives it.
ReleaseChallengeBond(k) ==
    /\ k.challengeBond <= challengeBonds
    /\ challengeBonds' = challengeBonds - k.challengeBond

\* The fee leaves the per-case reserve (_accrueFee and _refundFee).
ReleaseFee(c) ==
    /\ caseFee[c] <= heldFees
    /\ caseFee' = [caseFee EXCEPT ![c] = 0]
    /\ heldFees' = heldFees - caseFee[c]

\* Looks at the published ruling instead of the final one.
FaultyRecordLoss(c, finalRuling) ==
    losses' = IF cases[c].ruling = "REFUND"
              THEN [losses EXCEPT ![cases[c].provider] = Append(@, c)]
              ELSE losses

\* _recordLoss: a loss record exists only for a final REFUND.
RecordLoss(c, finalRuling) ==
    losses' = IF finalRuling = "REFUND"
              THEN [losses EXCEPT ![cases[c].provider] = Append(@, c)]
              ELSE losses

_finalize(c) ==
    LET k == cases[c]
        owed == [a \in Accounts |-> IF a = Favored(k) THEN k.challengeBond ELSE 0]
    IN  /\ cases' = [cases EXCEPT ![c] =
                       [@ EXCEPT !.status = "FINALIZED", !.finalizedAt = now,
                                 !.challengeBond = 0]]
        /\ ReleaseExposure(k)
        /\ ReleaseChallengeBond(k)
        /\ PayOut(owed, k.challengeBond)
        /\ RecordLoss(c, k.ruling)
        /\ ReleaseFee(c)
        /\ feePool' = feePool + caseFee[c]
        /\ UNCHANGED <<now, treasury, caseByEscalation, operatorBond>>

LesserOf(a, b) == IF a <= b THEN a ELSE b

\* What the overturn of k takes out of the operator's bond: the case value to
\* the wronged party first, then the bounty of a challenger who is not that
\* party, each cut to what is left.
Payout(k) == LesserOf(k.value, operatorBond)
Bounty(k) == IF k.challenger # Zero /\ k.challenger # Wronged(k)
             THEN LesserOf(challengeBondFor(k.value), operatorBond - Payout(k))
             ELSE 0

_overturn(c) ==
    LET k == cases[c]
        owed == [a \in Accounts |->
                   (IF a = Wronged(k) THEN Payout(k) ELSE 0)
                   + (IF a = k.feePayer THEN caseFee[c] ELSE 0)
                   + (IF a = k.challenger THEN k.challengeBond + Bounty(k) ELSE 0)]
    IN  /\ cases' = [cases EXCEPT ![c] =
                       [@ EXCEPT !.status = "OVERTURNED", !.finalizedAt = now,
                                 !.challengeBond = 0,
                                 !.feeRefunded = (k.feeRefunded \/ caseFee[c] # 0)]]
        /\ ReleaseExposure(k)
        /\ ReleaseChallengeBond(k)
        /\ ReleaseFee(c)
        /\ PayOut(owed, Payout(k) + caseFee[c] + k.challengeBond + Bounty(k))
        /\ operatorBond' = operatorBond - Payout(k) - Bounty(k)
        /\ RecordLoss(c, Flipped(k.ruling))
        /\ UNCHANGED <<now, treasury, caseByEscalation, feePool>>

finalizeUnchallenged(c) ==
    /\ cases[c].status = "RULED"
    /\ now >= cases[c].challengeDeadline
    /\ _finalize(c)

\* Gives the appeal layer no time of its own.
FaultyDefaultDeadline(k) == k.escalationDeadline

\* When anyone may overturn a challenged case that nobody decided.
DefaultDeadline(k) ==
    k.escalationDeadline + (IF k.escalationId # Zero THEN ESCALATION_RESOLUTION_TIMEOUT ELSE 0)

\* Does not ask for a challenge first.
FaultyDefaultOverturn(c) ==
    /\ IsLive(cases[c])
    /\ now >= DefaultDeadline(cases[c])
    /\ _overturn(c)

\* Has no fallback for an appeal layer that never answers.
FaultyWaitingDefaultOverturn(c) ==
    /\ cases[c].status = "CHALLENGED"
    /\ cases[c].escalationId = Zero
    /\ now >= DefaultDeadline(cases[c])
    /\ _overturn(c)

defaultOverturn(c) ==
    /\ cases[c].status = "CHALLENGED"
    /\ now >= DefaultDeadline(cases[c])
    /\ _overturn(c)

\* The appeal layer's callback; a decision that comes after the case is final is ignored.
resolveEscalation(id, rulingUpheld) ==
    LET c == caseByEscalation[id]
    IN  /\ c # Zero
        /\ \/ IsFinal(cases[c]) /\ UNCHANGED vars
           \/ /\ cases[c].status = "CHALLENGED"
              /\ IF rulingUpheld THEN _finalize(c) ELSE _overturn(c)

-----------------------------------------------------------------------------

\* When the last permissionless step of a live case opens.
SettlementDue(k) == IF k.status = "RULED" THEN k.challengeDeadline ELSE DefaultDeadline(k)

\* Time passes; past MaxTime only while a live case still waits for a deadline.
Tick ==
    /\ now < MaxTime \/ \E c \in LiveSet : now < SettlementDue(cases[c])
    /\ now' = now + 1
    /\ UNCHANGED <<balance, treasury, cases, caseByEscalation, losses, ledgers>>

Operate ==
    \/ \E amount \in Amounts : depositBond(amount)
    \/ \E amount \in Amounts : withdrawBond(amount)
    \/ \E next \in Treasuries : setTreasury(next)
    \/ withdrawFees
    \/ \E req \in Offers : publishRuling(req)

Participate ==
    \/ \E c \in CaseIds, sender \in Accounts : payFee(c, sender)
    \/ \E c \in CaseIds, sender \in Accounts : cancelUnpaid(c, sender)
    \/ \E c \in CaseIds, sender \in Accounts : challenge(c, sender)
    \/ \E c \in CaseIds : finalizeUnchallenged(c)
    \/ \E c \in CaseIds : defaultOverturn(c)

AppealLayer ==
    \/ \E c \in CaseIds, id \in EscalationIds : escalateRuling(c, id)
    \/ \E id \in EscalationIds, upheld \in BOOLEAN : resolveEscalation(id, upheld)

Next == Tick \/ Operate \/ Participate \/ AppealLayer

Spec == Init /\ [][Next]_vars

-----------------------------------------------------------------------------
(* Properties *)

TypeOK ==
    /\ now \in Nat
    /\ balance \in [Holders -> Nat]
    /\ treasury \in Accounts
    /\ cases \in [CaseIds -> Case]
    /\ caseByEscalation \in [EscalationIds -> CaseIds \cup {Zero}]
    /\ losses \in [Accounts -> Seq(CaseIds)]
    /\ operatorBond \in Nat /\ challengeBonds \in Nat /\ feePool \in Nat /\ heldFees \in Nat
    /\ caseFee \in [CaseIds -> Nat]
    /\ liveExposure \in Nat /\ liveCases \in Nat

\* The contract holds exactly the USDC its four ledgers say it holds, after any
\* sequence of deposits, fees, bonds, settlements and withdrawals.
Solvent == balance[Oracle] = operatorBond + challengeBonds + feePool + heldFees

\* Each ledger is the sum of what it stands for over the cases: none is released
\* twice or left behind, so the checked subtractions of a settlement never revert.
LedgersMatchCases ==
    /\ liveCases = Cardinality(LiveSet)
    /\ liveExposure = MapThenSumSet(LAMBDA c : cases[c].value, LiveSet)
    /\ challengeBonds = MapThenSumSet(LAMBDA c : cases[c].challengeBond, CaseIds)
    /\ heldFees = MapThenSumSet(LAMBDA c : caseFee[c], CaseIds)
    /\ \A c \in CaseIds : caseFee[c] = IF IsLive(cases[c]) THEN FEE ELSE 0

\* The floor is read once, when a case goes live.  It stays enough although other
\* live cases draw on the same bond: the bond covers the overturn of all of them.
BondCoversLiveCases == operatorBond >= liveCases * WorstCase

\* The inductive invariant of the proofs.  What a case holds follows its status,
CaseWellFormed(k) ==
    /\ k.status = "NONE" => k = EmptyCase
    /\ k.status # "NONE" =>
          /\ k.provider \in Accounts /\ k.payer \in Accounts /\ k.feePayer \in Accounts
          /\ k.provider # k.payer
          /\ k.ruling \in {"PAY", "REFUND"}
          /\ k.value <= CASE_CAP
    /\ k.status = "CHALLENGED" => k.challenger \in Accounts

\* and the counters that settlements and withdrawals rely on follow the cases.
Bookkeeping ==
    /\ \A c \in CaseIds : CaseWellFormed(cases[c])
    /\ \A c \in CaseIds : caseFee[c] = IF IsLive(cases[c]) THEN FEE ELSE 0
    /\ liveCases = Cardinality(LiveSet)
    /\ liveCases <= MAX_LIVE_CASES
    /\ BondCoversLiveCases
    /\ Solvent

\* What an overturn of k owes account a, with nothing cut to the bond that is left.
Entitlement(k, a) ==
    (IF a = Wronged(k) THEN k.value ELSE 0)
    + (IF a = k.feePayer THEN FEE ELSE 0)
    + (IF a = k.challenger
       THEN k.challengeBond + (IF a = Wronged(k) THEN 0 ELSE challengeBondFor(k.value))
       ELSE 0)

Settles(c, status) == IsLive(cases[c]) /\ cases'[c].status = status

\* A settlement pays what was promised when the case went live, in full: on an
\* overturn the wronged party's value, the fee refund, the challenger's bond and
\* bounty; on a finalization the challenger's bond, to the favored party only.
SettlementPaysInFull ==
    [][\A c \in CaseIds, a \in Accounts :
          /\ Settles(c, "OVERTURNED") =>
                balance'[a] = balance[a] + Entitlement(cases[c], a)
          /\ Settles(c, "FINALIZED") =>
                balance'[a] = balance[a] + (IF a = Favored(cases[c])
                                            THEN cases[c].challengeBond ELSE 0)]_vars

\* The loss record of a provider lists exactly the cases whose final outcome is a
\* refund, once each, whichever path led to it.
LossesMatchOutcomes ==
    \A a \in Accounts :
        /\ Range(losses[a]) = {c \in CaseIds : cases[c].provider = a /\ outcome(c) = "REFUND"}
        /\ \A i, j \in DOMAIN losses[a] : losses[a][i] = losses[a][j] => i = j

\* The marketplace's view of a case.
PhaseOf(k) ==
    CASE k.status = "NONE"        -> "none"
      [] k.status = "PENDING_FEE" -> "offered"
      [] k.status = "RULED"       -> "open"
      [] k.status = "CHALLENGED"  -> "contested"
      [] OTHER                    -> "final"

Marketplace == INSTANCE Adjudication WITH
    MaxLive <- MAX_LIVE_CASES,
    phase <- [c \in CaseIds |-> PhaseOf(cases[c])],
    ruling <- [c \in CaseIds |-> cases[c].ruling],
    verdict <- [c \in CaseIds |-> outcome(c)]

\* The contract gives a marketplace what Adjudication promises: one verdict per
\* paid case, never changed, reversed only after a challenge.
ImplementsAdjudication == Marketplace!Spec

\* Every account a settlement of c may pay accepts USDC.
PayeesAccept(c) ==
    {cases[c].provider, cases[c].payer, cases[c].feePayer, cases[c].challenger} \cap Frozen = {}

\* Every paid case is settled, whatever the operator and the appeal layer do or
\* fail to do, unless USDC refuses a payment to one of its own parties.
EveryLiveCaseSettles ==
    \A c \in CaseIds :
        (IsLive(cases[c]) /\ PayeesAccept(c)) ~> (IsFinal(cases[c]) \/ ~PayeesAccept(c))

=============================================================================
