------------------------- MODULE RulingOracleProofs -------------------------
(***************************************************************************)
(* Proofs about the oracle for every set of cases and accounts, every      *)
(* sequence of offers and amounts and every value of the pilot parameters  *)
(* that satisfies the assumptions of RulingOracle.tla; and, in the last    *)
(* part, about the oracle and the panel together, for every number of      *)
(* requests, reviewers and panels: the links between the two records       *)
(* match, the two contracts agree on every verdict, and a challenge fails  *)
(* only by the word of two reviewers of its own panel.                     *)
(***************************************************************************)
EXTENDS Appeal, SumTheorems

\* A challenge bond is a natural number for every case value.
LEMMA BondType ==
  ASSUME NEW v \in Nat
  PROVE  challengeBondFor(v) \in Nat
BY ParameterAssumption DEF challengeBondFor, BPS

\* The deployed contract is well typed.
LEMMA InitType == Init => TypeOK
BY AddressAssumption, ParameterAssumption DEF Init, TypeOK, Case, EmptyCase, Holders, Rulings, Statuses

\* A transfer keeps balances natural numbers.
LEMMA TransferType ==
  ASSUME balance \in [Holders -> Nat], NEW from \in Holders, NEW to \in Holders, from # to, NEW amount \in Nat,
         Transfer(from, to, amount)
  PROVE  balance' \in [Holders -> Nat]
BY DEF Transfer

\* So do the transfers of a settlement.
LEMMA PayOutType ==
  ASSUME balance \in [Holders -> Nat], NEW owed \in [Accounts -> Nat], NEW total \in Nat,
         PayOut(owed, total)
  PROVE  balance' \in [Holders -> Nat]
BY DEF PayOut, Holders

\* A recorded loss is appended to some provider's list of case ids.
LEMMA RecordLossType ==
  ASSUME TypeOK, NEW c \in CaseIds, NEW r, RecordLoss(c, r)
  PROVE  losses' \in [Accounts -> Seq(CaseIds)]
<1> USE DEF TypeOK
<1>1. \A a \in Accounts : Append(losses[a], c) \in Seq(CaseIds)
  OBVIOUS
<1> QED BY <1>1 DEF RecordLoss

\* An overturn never takes more out of the operator's bond than there is.
LEMMA OverturnCost ==
  ASSUME TypeOK, NEW k \in Case
  PROVE  /\ Payout(k) \in Nat /\ Bounty(k) \in Nat
         /\ Payout(k) + Bounty(k) <= operatorBond
<1>1. k.value \in Nat /\ operatorBond \in Nat
  BY DEF Case, TypeOK
<1>2. challengeBondFor(k.value) \in Nat
  BY <1>1, BondType
<1>3. Payout(k) \in Nat /\ Payout(k) <= operatorBond
  BY <1>1 DEF Payout, LesserOf
<1>4. Bounty(k) \in Nat /\ Bounty(k) <= operatorBond - Payout(k)
  BY <1>1, <1>2, <1>3 DEF Bounty, LesserOf
<1> QED BY <1>1, <1>3, <1>4

\* What a settlement releases leaves every ledger a natural number: the guards of
\* the release operators stand for the checked subtractions of the contract.
LEMMA ReleaseType ==
  ASSUME TypeOK, NEW c \in CaseIds,
         ReleaseExposure(cases[c]), ReleaseChallengeBond(cases[c]), ReleaseFee(c)
  PROVE  /\ liveExposure' \in Nat /\ liveCases' \in Nat /\ challengeBonds' \in Nat
         /\ heldFees' \in Nat /\ caseFee' \in [CaseIds -> Nat]
<1>1. cases[c].value \in Nat /\ cases[c].challengeBond \in Nat
  BY DEF TypeOK, Case
<1>2. liveExposure' \in Nat /\ liveCases' \in Nat
  BY <1>1 DEF TypeOK, ReleaseExposure
<1>3. challengeBonds' \in Nat
  BY <1>1 DEF TypeOK, ReleaseChallengeBond
<1>4. heldFees' \in Nat /\ caseFee' \in [CaseIds -> Nat]
  BY DEF TypeOK, ReleaseFee
<1> QED BY <1>2, <1>3, <1>4

\* A finalization, challenged or not, keeps the types.
LEMMA FinalizeType ==
  ASSUME TypeOK, NEW c \in CaseIds, _finalize(c)
  PROVE  TypeOK'
<1> DEFINE k == cases[c]
           owed == [a \in Accounts |-> IF a = Favored(k) THEN k.challengeBond ELSE 0]
<1>1. k \in Case
  BY DEF TypeOK
<1>2. balance' \in [Holders -> Nat]
  <2>1. owed \in [Accounts -> Nat] /\ k.challengeBond \in Nat
    BY <1>1 DEF Case
  <2>2. PayOut(owed, k.challengeBond)
    BY DEF _finalize
  <2> QED BY <2>1, <2>2, PayOutType DEF TypeOK
<1>3. cases' \in [CaseIds -> Case]
  BY <1>1 DEF _finalize, Case, Statuses, TypeOK
<1>4. losses' \in [Accounts -> Seq(CaseIds)]
  BY RecordLossType DEF _finalize
<1>5. /\ liveExposure' \in Nat /\ liveCases' \in Nat /\ challengeBonds' \in Nat
      /\ heldFees' \in Nat /\ caseFee' \in [CaseIds -> Nat]
  BY ReleaseType DEF _finalize
<1>6. feePool' \in Nat
  BY DEF _finalize, TypeOK
<1> QED BY <1>2, <1>3, <1>4, <1>5, <1>6 DEF _finalize, TypeOK

\* So does an overturn, by default or by the appeal layer.
LEMMA OverturnType ==
  ASSUME TypeOK, NEW c \in CaseIds, _overturn(c)
  PROVE  TypeOK'
<1> DEFINE k == cases[c]
           owed == [a \in Accounts |->
                      (IF a = Wronged(k) THEN Payout(k) ELSE 0)
                      + (IF a = k.feePayer THEN caseFee[c] ELSE 0)
                      + (IF a = k.challenger THEN k.challengeBond + Bounty(k) ELSE 0)]
<1>1. k \in Case
  BY DEF TypeOK
<1>2. /\ Payout(k) \in Nat /\ Bounty(k) \in Nat
      /\ Payout(k) + Bounty(k) <= operatorBond
  BY <1>1, OverturnCost
<1>3. balance' \in [Holders -> Nat]
  <2>1. k.challengeBond \in Nat /\ caseFee[c] \in Nat
    BY <1>1 DEF Case, TypeOK
  <2>2. owed \in [Accounts -> Nat] /\ Payout(k) + caseFee[c] + k.challengeBond + Bounty(k) \in Nat
    BY <1>2, <2>1
  <2>3. PayOut(owed, Payout(k) + caseFee[c] + k.challengeBond + Bounty(k))
    BY DEF _overturn
  <2> QED BY <2>2, <2>3, PayOutType DEF TypeOK
<1>4. cases' \in [CaseIds -> Case]
  BY <1>1 DEF _overturn, Case, Statuses, TypeOK
<1>5. losses' \in [Accounts -> Seq(CaseIds)]
  BY RecordLossType DEF _overturn
<1>6. /\ liveExposure' \in Nat /\ liveCases' \in Nat /\ challengeBonds' \in Nat
      /\ heldFees' \in Nat /\ caseFee' \in [CaseIds -> Nat]
  BY ReleaseType DEF _overturn
<1>7. operatorBond' \in Nat
  <2>1. operatorBond' = operatorBond - Payout(k) - Bounty(k)
    BY DEF _overturn
  <2> QED BY <1>2, <2>1 DEF TypeOK
<1> QED BY <1>3, <1>4, <1>5, <1>6, <1>7 DEF _overturn, TypeOK

\* Rewriting one case with a well-typed record keeps the mapping well typed.
LEMMA CaseUpdateType ==
  ASSUME TypeOK, NEW c \in CaseIds, NEW k \in Case, cases' = [cases EXCEPT ![c] = k]
  PROVE  cases' \in [CaseIds -> Case]
BY DEF TypeOK

\* A challenge, free or bonded, keeps the types.
LEMMA ChallengeType ==
  ASSUME TypeOK, NEW c \in CaseIds, NEW sender \in Accounts, challenge(c, sender)
  PROVE  TypeOK'
<1> DEFINE bond == IF sender = Wronged(cases[c]) THEN 0 ELSE challengeBondFor(cases[c].value)
<1>1. bond \in Nat
  <2>1. cases[c].value \in Nat
    BY DEF TypeOK, Case
  <2> QED BY <2>1, BondType
<1>2. balance' \in [Holders -> Nat]
  <2>1. UNCHANGED balance \/ Transfer(sender, Oracle, bond)
    BY DEF challenge
  <2> QED BY <1>1, <2>1, TransferType, AddressAssumption DEF Holders, TypeOK
<1>3. cases' \in [CaseIds -> Case]
  <2> DEFINE due == now + ESCALATION_WINDOW
             k == [cases[c] EXCEPT !.status = "CHALLENGED", !.challenger = sender,
                                   !.challengeBond = bond, !.escalationDeadline = due]
  <2>1. cases' = [cases EXCEPT ![c] = k]
    BY DEF challenge
  <2>2. due \in Nat /\ cases[c] \in Case
    BY ParameterAssumption DEF TypeOK
  <2> HIDE DEF bond, due
  <2>3. k \in Case
    BY <1>1, <2>2 DEF Case, Statuses
  <2> HIDE DEF k
  <2> QED BY <2>1, <2>3, CaseUpdateType
<1>4. challengeBonds' \in Nat
  <2>1. challengeBonds' = challengeBonds + bond
    BY DEF challenge
  <2> QED BY <1>1, <2>1 DEF TypeOK
<1> QED BY <1>2, <1>3, <1>4 DEF challenge, TypeOK

\* Every step of the contract and of its users keeps the types.
LEMMA NextType == TypeOK /\ [Next]_vars => TypeOK'
<1> SUFFICES ASSUME TypeOK, [Next]_vars PROVE TypeOK'
  OBVIOUS
<1>1. CASE Tick
  BY <1>1 DEF Tick, TypeOK, ledgers
<1>2. ASSUME NEW amount \in Amounts, depositBond(amount) PROVE TypeOK'
  <2>1. amount \in Nat
    BY BoundAssumption
  <2>2. balance' \in [Holders -> Nat]
    BY <1>2, <2>1, TransferType, AddressAssumption DEF depositBond, Holders, TypeOK
  <2> QED BY <1>2, <2>1, <2>2 DEF depositBond, TypeOK
<1>3. ASSUME NEW amount \in Amounts, withdrawBond(amount) PROVE TypeOK'
  <2>1. amount \in Nat
    BY BoundAssumption
  <2>2. balance' \in [Holders -> Nat]
    BY <1>3, <2>1, TransferType, AddressAssumption DEF withdrawBond, Holders, TypeOK
  <2> QED BY <1>3, <2>1, <2>2 DEF withdrawBond, TypeOK
<1>4. ASSUME NEW next \in Treasuries, setTreasury(next) PROVE TypeOK'
  BY <1>4, BoundAssumption DEF setTreasury, Holders, TypeOK, ledgers
<1>5. CASE withdrawFees
  <2>1. balance' \in [Holders -> Nat]
    BY <1>5, TransferType, AddressAssumption DEF withdrawFees, Holders, TypeOK
  <2> QED BY <1>5, <2>1 DEF withdrawFees, TypeOK
<1>6. ASSUME NEW req \in Offers, publishRuling(req) PROVE TypeOK'
  <2>1. req \in PublishRequest
    BY BoundAssumption
  <2>2. cases' \in [CaseIds -> Case]
    <3> DEFINE c == req.caseId
               k == [cases[c] EXCEPT !.provider = req.provider, !.payer = req.payer,
                             !.feePayer = req.feePayer, !.value = req.value,
                             !.ruling = req.ruling, !.status = "PENDING_FEE",
                             !.publishedAt = now]
    <3>1. c \in CaseIds /\ cases[c] \in Case /\ now \in Nat
      BY <2>1 DEF PublishRequest, TypeOK
    <3>2. k \in Case
      BY <2>1, <3>1 DEF PublishRequest, Case, Statuses
    <3>3. cases' = [cases EXCEPT ![c] = k]
      BY <1>6 DEF publishRuling
    <3> HIDE DEF c, k
    <3> QED BY <3>1, <3>2, <3>3, CaseUpdateType
  <2> QED BY <1>6, <2>2 DEF publishRuling, TypeOK, ledgers
<1>7. ASSUME NEW c \in CaseIds, NEW sender \in Accounts, payFee(c, sender) PROVE TypeOK'
  <2>1. balance' \in [Holders -> Nat]
    BY <1>7, TransferType, AddressAssumption, ParameterAssumption DEF payFee, Holders, TypeOK
  <2>2. cases' \in [CaseIds -> Case]
    <3> DEFINE due == now + CHALLENGE_WINDOW
               k == [cases[c] EXCEPT !.status = "RULED", !.ruledAt = now,
                                     !.challengeDeadline = due]
    <3>1. due \in Nat /\ cases[c] \in Case /\ now \in Nat
      BY ParameterAssumption DEF TypeOK
    <3>2. cases' = [cases EXCEPT ![c] = k]
      BY <1>7 DEF payFee
    <3> HIDE DEF due
    <3>3. k \in Case
      BY <3>1 DEF Case, Statuses
    <3> HIDE DEF k
    <3> QED BY <3>2, <3>3, CaseUpdateType
  <2>3. liveExposure' \in Nat
    BY <1>7, SMTT(30) DEF payFee, TypeOK, Case
  <2>4. caseFee' \in [CaseIds -> Nat] /\ heldFees' \in Nat /\ liveCases' \in Nat
    <3>1. /\ caseFee' = [caseFee EXCEPT ![c] = FEE]
          /\ heldFees' = heldFees + FEE /\ liveCases' = liveCases + 1
      BY <1>7 DEF payFee
    <3> QED BY <3>1, ParameterAssumption DEF TypeOK
  <2> QED BY <1>7, <2>1, <2>2, <2>3, <2>4 DEF payFee, TypeOK
<1>8. ASSUME NEW c \in CaseIds, NEW sender \in Accounts, cancelUnpaid(c, sender) PROVE TypeOK'
  <2>1. EmptyCase \in Case
    BY DEF EmptyCase, Case, Rulings, Statuses
  <2> QED BY <1>8, <2>1 DEF cancelUnpaid, TypeOK, ledgers
<1>9. ASSUME NEW c \in CaseIds, NEW sender \in Accounts, challenge(c, sender) PROVE TypeOK'
  BY <1>9, ChallengeType
<1>10. ASSUME NEW c \in CaseIds, finalizeUnchallenged(c) PROVE TypeOK'
  BY <1>10, FinalizeType DEF finalizeUnchallenged
<1>11. ASSUME NEW c \in CaseIds, defaultOverturn(c) PROVE TypeOK'
  BY <1>11, OverturnType DEF defaultOverturn
<1>12. ASSUME NEW c \in CaseIds, NEW id \in EscalationIds, escalateRuling(c, id) PROVE TypeOK'
  <2>1. cases' \in [CaseIds -> Case]
    <3> DEFINE k == [cases[c] EXCEPT !.escalationId = id]
    <3>1. cases[c] \in Case
      BY DEF TypeOK
    <3>2. k \in Case
      BY <3>1 DEF Case
    <3>3. cases' = [cases EXCEPT ![c] = k]
      BY <1>12 DEF escalateRuling
    <3> HIDE DEF k
    <3> QED BY <3>2, <3>3, CaseUpdateType
  <2> QED BY <1>12, <2>1 DEF escalateRuling, TypeOK, ledgers
<1>13. ASSUME NEW id \in EscalationIds, NEW upheld \in BOOLEAN, resolveEscalation(id, upheld)
       PROVE  TypeOK'
  <2> DEFINE c == caseByEscalation[id]
  <2>1. c \in CaseIds
    BY <1>13 DEF resolveEscalation, TypeOK
  <2>2. UNCHANGED vars \/ _finalize(c) \/ _overturn(c)
    BY <1>13 DEF resolveEscalation
  <2>3. UNCHANGED vars => TypeOK'
    BY DEF vars, ledgers, TypeOK
  <2> QED BY <2>1, <2>2, <2>3, FinalizeType, OverturnType
<1>14. CASE UNCHANGED vars
  BY <1>14 DEF vars, ledgers, TypeOK
<1> QED BY <1>1, <1>2, <1>3, <1>4, <1>5, <1>6, <1>7, <1>8, <1>9, <1>10, <1>11, <1>12,
           <1>13, <1>14 DEF Next, Operate, Participate, AppealLayer

\* Every variable keeps its type; in particular no ledger is ever taken below zero.
THEOREM TypeCorrect == Spec => []TypeOK
<1>1. Init => TypeOK
  BY InitType
<1>2. TypeOK /\ [Next]_vars => TypeOK'
  BY NextType
<1> QED BY <1>1, <1>2, PTL DEF Spec

-----------------------------------------------------------------------------

\* The live cases after case c became k.
LEMMA LiveSetStep ==
  ASSUME TypeOK, Bookkeeping, NEW c \in CaseIds, NEW k,
         cases' = [cases EXCEPT ![c] = k], CaseWellFormed(k)
  PROVE  /\ \A d \in CaseIds : CaseWellFormed(cases'[d])
         /\ IsLive(k) /\ IsLive(cases[c]) => Cardinality(LiveSet)' = liveCases
         /\ IsLive(k) /\ ~IsLive(cases[c]) => Cardinality(LiveSet)' = liveCases + 1
         /\ ~IsLive(k) /\ IsLive(cases[c]) =>
               Cardinality(LiveSet)' = liveCases - 1 /\ liveCases >= 1
         /\ ~IsLive(k) /\ ~IsLive(cases[c]) => Cardinality(LiveSet)' = liveCases
<1>1. cases'[c] = k /\ \A d \in CaseIds \ {c} : cases'[d] = cases[d]
  BY DEF TypeOK
<1>2. \A d \in CaseIds : CaseWellFormed(cases'[d])
  BY <1>1 DEF Bookkeeping
<1>3. LiveSet' = IF IsLive(k) THEN LiveSet \cup {c} ELSE LiveSet \ {c}
  BY <1>1 DEF LiveSet
<1>4. c \in LiveSet <=> IsLive(cases[c])
  BY DEF LiveSet
<1>5. IsFiniteSet(LiveSet) /\ liveCases = Cardinality(LiveSet) /\ liveCases \in Nat
  BY AddressAssumption, FS_Subset DEF LiveSet, Bookkeeping, TypeOK
<1>6. Cardinality(LiveSet \cup {c}) = IF c \in LiveSet THEN liveCases ELSE liveCases + 1
  BY <1>5, FS_AddElement
<1>7. Cardinality(LiveSet \ {c}) = IF c \in LiveSet THEN liveCases - 1 ELSE liveCases
  BY <1>5, FS_RemoveElement
<1>8. c \in LiveSet => liveCases >= 1
  <2>1. liveCases = 0 => LiveSet = {}
    BY <1>5, FS_EmptySet
  <2> QED BY <1>5, <2>1
<1>9. Cardinality(LiveSet)' = Cardinality(LiveSet')
  OBVIOUS
<1> QED BY <1>2, <1>3, <1>4, <1>6, <1>7, <1>8, <1>9

\* The cost of the worst overturn is a natural number.
LEMMA WorstCaseType == WorstCase \in Nat
BY ParameterAssumption, BondType DEF WorstCase

\* The challenge bond, and so the bounty, grows with the value.
LEMMA BondMonotone ==
  ASSUME NEW v \in Nat, v <= CASE_CAP
  PROVE  challengeBondFor(v) <= challengeBondFor(CASE_CAP)
<1> DEFINE x == v * CHALLENGE_BOND_BPS
           y == CASE_CAP * CHALLENGE_BOND_BPS
<1>1. x \in Nat /\ y \in Nat /\ x <= y
  BY ParameterAssumption
<1>2. x \div BPS <= y \div BPS /\ x \div BPS \in Nat /\ y \div BPS \in Nat
  <2> HIDE DEF x, y
  <2> QED BY <1>1 DEF BPS
<1> QED BY <1>2, ParameterAssumption DEF challengeBondFor

\* A live case is never short of bond: its payout and its bounty are paid in full,
\* and what is left still covers the others.
LEMMA OverturnInFull ==
  ASSUME TypeOK, Bookkeeping, NEW c \in CaseIds, IsLive(cases[c]), liveCases >= 1
  PROVE  /\ Payout(cases[c]) = cases[c].value
         /\ Bounty(cases[c]) = IF cases[c].challenger # Zero
                                   /\ cases[c].challenger # Wronged(cases[c])
                               THEN challengeBondFor(cases[c].value) ELSE 0
         /\ operatorBond - Payout(cases[c]) - Bounty(cases[c]) >= (liveCases - 1) * WorstCase
<1> DEFINE k == cases[c]
<1>1. k.value \in Nat /\ k.value <= CASE_CAP
  BY DEF TypeOK, Case, Bookkeeping, CaseWellFormed, IsLive
<1>2. challengeBondFor(k.value) \in Nat /\ challengeBondFor(CASE_CAP) \in Nat
  BY <1>1, BondType, ParameterAssumption
<1>3. k.value + challengeBondFor(k.value) <= WorstCase
  BY <1>1, <1>2, BondMonotone, ParameterAssumption DEF WorstCase
<1>4. operatorBond \in Nat /\ liveCases \in Nat /\ WorstCase \in Nat
  BY WorstCaseType DEF TypeOK
<1>5. operatorBond >= liveCases * WorstCase
  BY DEF Bookkeeping, BondCoversLiveCases
<1>6. liveCases * WorstCase = (liveCases - 1) * WorstCase + WorstCase
      /\ (liveCases - 1) * WorstCase \in Nat
  BY <1>4
<1>7. operatorBond >= (liveCases - 1) * WorstCase + WorstCase
  BY <1>5, <1>6
<1>8. Payout(k) = k.value
  BY <1>1, <1>2, <1>3, <1>4, <1>6, <1>7 DEF Payout, LesserOf
<1>9. Bounty(k) = IF k.challenger # Zero /\ k.challenger # Wronged(k)
                  THEN challengeBondFor(k.value) ELSE 0
  <2>1. challengeBondFor(k.value) <= operatorBond - Payout(k)
    BY <1>1, <1>2, <1>3, <1>4, <1>6, <1>7, <1>8
  <2> QED BY <2>1 DEF Bounty, LesserOf
<1> QED
  <2>1. Bounty(k) \in Nat /\ Bounty(k) <= challengeBondFor(k.value)
    BY <1>2, <1>9
  <2> QED BY <1>1, <1>2, <1>3, <1>4, <1>6, <1>7, <1>8, <1>9, <2>1

\* A finalization takes its case out of the live ones, its fee into the pool, and
\* leaves the bond as it is.
LEMMA FinalizeKeepsBooks ==
  ASSUME TypeOK, Bookkeeping, NEW c \in CaseIds, IsLive(cases[c]), _finalize(c)
  PROVE  Bookkeeping'
<1> DEFINE k == cases[c]
           final == [k EXCEPT !.status = "FINALIZED", !.finalizedAt = now, !.challengeBond = 0]
<1>1. CaseWellFormed(final) /\ ~IsLive(final)
  BY DEF Bookkeeping, CaseWellFormed, IsLive, TypeOK, Case
<1>2. cases' = [cases EXCEPT ![c] = final]
  BY DEF _finalize
<1>3. /\ \A d \in CaseIds : CaseWellFormed(cases'[d])
      /\ Cardinality(LiveSet)' = liveCases - 1 /\ liveCases >= 1
  <2> HIDE DEF final
  <2> QED BY <1>1, <1>2, LiveSetStep
<1>4. liveCases' = liveCases - 1
  BY DEF _finalize, ReleaseExposure
<1>5. \A d \in CaseIds : caseFee'[d] = IF IsLive(cases'[d]) THEN FEE ELSE 0
  <2>1. caseFee' = [caseFee EXCEPT ![c] = 0]
    BY DEF _finalize, ReleaseFee
  <2> HIDE DEF final
  <2> QED BY <1>1, <1>2, <2>1 DEF Bookkeeping, TypeOK
<1>6. BondCoversLiveCases'
  <2>1. operatorBond' = operatorBond /\ WorstCase \in Nat /\ liveCases \in Nat /\ operatorBond \in Nat
    BY WorstCaseType DEF _finalize, TypeOK
  <2>2. operatorBond >= liveCases * WorstCase
    BY DEF Bookkeeping, BondCoversLiveCases
  <2>3. liveCases * WorstCase = (liveCases - 1) * WorstCase + WorstCase
    BY <2>1
  <2>4. operatorBond >= (liveCases - 1) * WorstCase
    <3>1. (liveCases - 1) * WorstCase \in Int
      BY <2>1
    <3> QED BY <2>1, <2>2, <2>3, <3>1
  <2> QED BY <1>4, <2>1, <2>4 DEF BondCoversLiveCases, WorstCase, challengeBondFor, BPS
<1>7. Solvent'
  <2>1. /\ operatorBond' = operatorBond
        /\ challengeBonds' = challengeBonds - k.challengeBond
        /\ feePool' = feePool + caseFee[c] /\ heldFees' = heldFees - caseFee[c]
    BY DEF _finalize, ReleaseChallengeBond, ReleaseFee
  <2>2. balance'[Oracle] = balance[Oracle] - k.challengeBond
    BY AddressAssumption DEF _finalize, PayOut, Holders
  <2>3. /\ k.challengeBond \in Nat /\ caseFee[c] \in Nat /\ balance[Oracle] \in Nat
        /\ operatorBond \in Nat /\ challengeBonds \in Nat /\ feePool \in Nat /\ heldFees \in Nat
    BY DEF TypeOK, Case, Holders
  <2>4. balance[Oracle] = operatorBond + challengeBonds + feePool + heldFees
    BY DEF Bookkeeping, Solvent
  <2>5. balance'[Oracle] = operatorBond' + challengeBonds' + feePool' + heldFees'
    BY <2>1, <2>2, <2>3, <2>4
  <2> QED BY <2>5 DEF Solvent
<1>8. liveCases' <= MAX_LIVE_CASES
  BY <1>3, <1>4, ParameterAssumption DEF Bookkeeping, TypeOK
<1> QED BY <1>3, <1>4, <1>5, <1>6, <1>7, <1>8 DEF Bookkeeping

\* An overturn takes at most the worst case out of the bond and one case out of the
\* live ones, so the bond still covers those that remain.
LEMMA OverturnKeepsBooks ==
  ASSUME TypeOK, Bookkeeping, NEW c \in CaseIds, cases[c].status = "CHALLENGED", _overturn(c)
  PROVE  Bookkeeping'
<1> DEFINE k == cases[c]
           final == [k EXCEPT !.status = "OVERTURNED", !.finalizedAt = now,
                              !.challengeBond = 0, !.feeRefunded = (k.feeRefunded \/ caseFee[c] # 0)]
<1>1. CaseWellFormed(final) /\ ~IsLive(final) /\ IsLive(k)
  <2>1. k \in Case /\ CaseWellFormed(k) /\ IsLive(k) /\ k.status = "CHALLENGED"
    BY DEF Bookkeeping, IsLive, TypeOK
  <2>2. final.status = "OVERTURNED" /\ final.provider = k.provider /\ final.payer = k.payer
        /\ final.feePayer = k.feePayer /\ final.ruling = k.ruling /\ final.value = k.value
    BY <2>1 DEF Case
  <2> HIDE DEF final
  <2> QED BY <2>1, <2>2 DEF CaseWellFormed, IsLive
<1>2. cases' = [cases EXCEPT ![c] = final]
  BY DEF _overturn
<1>3. /\ \A d \in CaseIds : CaseWellFormed(cases'[d])
      /\ Cardinality(LiveSet)' = liveCases - 1 /\ liveCases >= 1
  <2> HIDE DEF final
  <2> QED BY <1>1, <1>2, LiveSetStep
<1>4. liveCases' = liveCases - 1
  BY DEF _overturn, ReleaseExposure
<1>5. \A d \in CaseIds : caseFee'[d] = IF IsLive(cases'[d]) THEN FEE ELSE 0
  <2>1. caseFee' = [caseFee EXCEPT ![c] = 0]
    BY DEF _overturn, ReleaseFee
  <2> HIDE DEF final
  <2> QED BY <1>1, <1>2, <2>1 DEF Bookkeeping, TypeOK
<1>6. BondCoversLiveCases'
  <2>1. operatorBond' = operatorBond - Payout(k) - Bounty(k)
    BY DEF _overturn
  <2>2. operatorBond' >= (liveCases - 1) * WorstCase
    BY <1>1, <1>3, <2>1, OverturnInFull
  <2> QED BY <1>4, <2>2 DEF BondCoversLiveCases, WorstCase, challengeBondFor, BPS
<1>7. Solvent'
  <2>1. /\ operatorBond' = operatorBond - Payout(k) - Bounty(k)
        /\ challengeBonds' = challengeBonds - k.challengeBond
        /\ feePool' = feePool /\ heldFees' = heldFees - caseFee[c]
    BY DEF _overturn, ReleaseChallengeBond, ReleaseFee
  <2>2. balance'[Oracle] = balance[Oracle] - (Payout(k) + caseFee[c] + k.challengeBond + Bounty(k))
    BY AddressAssumption DEF _overturn, PayOut, Holders
  <2>3. /\ k.challengeBond \in Nat /\ caseFee[c] \in Nat /\ balance[Oracle] \in Nat
        /\ operatorBond \in Nat /\ challengeBonds \in Nat /\ feePool \in Nat /\ heldFees \in Nat
    BY DEF TypeOK, Case, Holders
  <2>4. Payout(k) \in Nat /\ Bounty(k) \in Nat
    BY OverturnCost DEF TypeOK
  <2>5. balance[Oracle] = operatorBond + challengeBonds + feePool + heldFees
    BY DEF Bookkeeping, Solvent
  <2>6. balance'[Oracle] = operatorBond' + challengeBonds' + feePool' + heldFees'
    BY <2>1, <2>2, <2>3, <2>4, <2>5
  <2> QED BY <2>6 DEF Solvent
<1>8. liveCases' <= MAX_LIVE_CASES
  BY <1>3, <1>4, ParameterAssumption DEF Bookkeeping, TypeOK
<1> QED BY <1>3, <1>4, <1>5, <1>6, <1>7, <1>8 DEF Bookkeeping

\* Money that comes into the contract and money that leaves it.
LEMMA TransferIn ==
  ASSUME TypeOK, NEW from \in Accounts, NEW amount \in Nat, Transfer(from, Oracle, amount)
  PROVE  balance'[Oracle] = balance[Oracle] + amount
BY AddressAssumption DEF Transfer, TypeOK, Holders

\* A transfer out lowers the contract's balance by its amount.
LEMMA TransferOut ==
  ASSUME TypeOK, NEW to \in Accounts, NEW amount \in Nat, Transfer(Oracle, to, amount)
  PROVE  balance'[Oracle] = balance[Oracle] - amount
BY AddressAssumption DEF Transfer, TypeOK, Holders

\* The contract's own balance is a natural number.
LEMMA BalanceType == TypeOK => balance[Oracle] \in Nat
BY DEF TypeOK, Holders

\* Steps that leave the cases alone.
LEMMA CasesUntouched ==
  ASSUME Bookkeeping, UNCHANGED <<cases, caseFee, liveCases>>, BondCoversLiveCases', Solvent'
  PROVE  Bookkeeping'
<1>1. LiveSet' = LiveSet
  BY DEF LiveSet
<1> QED BY <1>1 DEF Bookkeeping

\* Steps of one case that do not make it live or settle it.
LEMMA SameLiveness ==
  ASSUME TypeOK, Bookkeeping, NEW c \in CaseIds, NEW k, cases' = [cases EXCEPT ![c] = k],
         CaseWellFormed(k), IsLive(k) <=> IsLive(cases[c]),
         UNCHANGED <<caseFee, liveCases>>, BondCoversLiveCases', Solvent'
  PROVE  Bookkeeping'
<1>1. /\ \A d \in CaseIds : CaseWellFormed(cases'[d])
      /\ Cardinality(LiveSet)' = liveCases
  BY LiveSetStep
<1>2. \A d \in CaseIds : caseFee'[d] = IF IsLive(cases'[d]) THEN FEE ELSE 0
  BY DEF Bookkeeping, TypeOK
<1> QED BY <1>1, <1>2 DEF Bookkeeping

\* The books are about the case records, the bond and the ledgers only.
LEMMA BondAndLedgersUntouched ==
  ASSUME Bookkeeping, UNCHANGED <<balance, ledgers>>
  PROVE  BondCoversLiveCases' /\ Solvent'
BY DEF Bookkeeping, BondCoversLiveCases, Solvent, WorstCase, challengeBondFor, BPS, ledgers

\* Nothing is owed at deployment.
LEMMA InitBooks == Init => Bookkeeping
<1> SUFFICES ASSUME Init PROVE Bookkeeping
  OBVIOUS
<1>1. \A c \in CaseIds : cases[c] = EmptyCase
  BY DEF Init
<1>2. \A c \in CaseIds : CaseWellFormed(cases[c]) /\ ~IsLive(cases[c])
  <2>1. EmptyCase.status = "NONE"
    BY DEF EmptyCase
  <2> QED BY <1>1, <2>1 DEF CaseWellFormed, IsLive
<1>3. LiveSet = {}
  BY <1>2 DEF LiveSet
<1>4. liveCases = Cardinality(LiveSet) /\ liveCases <= MAX_LIVE_CASES
  BY <1>3, FS_EmptySet, ParameterAssumption DEF Init
<1>5. \A c \in CaseIds : caseFee[c] = IF IsLive(cases[c]) THEN FEE ELSE 0
  BY <1>2 DEF Init
<1>6. BondCoversLiveCases
  <2>1. operatorBond = 0 /\ liveCases = 0 /\ 0 * WorstCase = 0
    BY WorstCaseType DEF Init
  <2> QED BY <2>1 DEF BondCoversLiveCases
<1>7. Solvent
  <2>1. balance[Oracle] = 0
    BY DEF Init, Holders
  <2> QED BY <2>1 DEF Init, Solvent
<1> QED BY <1>2, <1>4, <1>5, <1>6, <1>7 DEF Bookkeeping

\* An activation takes one of the free slots and finds the floor in the bond, which
\* is the worst case of every slot.
LEMMA PayFeeKeepsBooks ==
  ASSUME TypeOK, Bookkeeping, NEW c \in CaseIds, NEW sender \in Accounts, payFee(c, sender)
  PROVE  Bookkeeping'
<1> DEFINE due == now + CHALLENGE_WINDOW
           k == [cases[c] EXCEPT !.status = "RULED", !.ruledAt = now,
                                 !.challengeDeadline = due]
<1>1. cases' = [cases EXCEPT ![c] = k]
  BY DEF payFee
<1>2. CaseWellFormed(k) /\ IsLive(k) /\ ~IsLive(cases[c])
  <2>1. cases[c] \in Case /\ CaseWellFormed(cases[c]) /\ cases[c].status = "PENDING_FEE"
    BY DEF payFee, TypeOK, Bookkeeping
  <2>2. k.status = "RULED" /\ k.provider = cases[c].provider /\ k.payer = cases[c].payer
        /\ k.feePayer = cases[c].feePayer /\ k.ruling = cases[c].ruling
        /\ k.value = cases[c].value
    BY <2>1 DEF Case
  <2> HIDE DEF k
  <2> QED BY <2>1, <2>2 DEF CaseWellFormed, IsLive
<1> HIDE DEF k
<1>3. /\ \A d \in CaseIds : CaseWellFormed(cases'[d])
      /\ Cardinality(LiveSet)' = liveCases + 1
  BY <1>1, <1>2, LiveSetStep
<1>4. /\ liveCases' = liveCases + 1 /\ liveCases < MAX_LIVE_CASES
      /\ operatorBond >= BOND_FLOOR /\ operatorBond' = operatorBond
      /\ caseFee' = [caseFee EXCEPT ![c] = FEE] /\ heldFees' = heldFees + FEE
      /\ UNCHANGED <<challengeBonds, feePool>> /\ Transfer(sender, Oracle, FEE)
  BY DEF payFee
<1>5. \A d \in CaseIds : caseFee'[d] = IF IsLive(cases'[d]) THEN FEE ELSE 0
  BY <1>1, <1>2, <1>4 DEF Bookkeeping, TypeOK
<1>6. BondCoversLiveCases'
  <2>1. MAX_LIVE_CASES * WorstCase >= (liveCases + 1) * WorstCase
    <3>1. /\ MAX_LIVE_CASES \in Nat /\ liveCases \in Nat /\ WorstCase \in Nat
          /\ MAX_LIVE_CASES >= liveCases + 1
      BY <1>4, ParameterAssumption, WorstCaseType DEF TypeOK
    <3> QED BY <3>1
  <2>2. /\ operatorBond \in Nat /\ BOND_FLOOR \in Nat /\ MAX_LIVE_CASES * WorstCase \in Nat
        /\ (liveCases + 1) * WorstCase \in Nat
    BY ParameterAssumption, WorstCaseType DEF TypeOK
  <2>3. operatorBond >= (liveCases + 1) * WorstCase
    BY <1>4, <2>1, <2>2, FloorAssumption
  <2> QED BY <1>4, <2>3 DEF BondCoversLiveCases, WorstCase, challengeBondFor, BPS
<1>7. Solvent'
  <2>1. balance'[Oracle] = balance[Oracle] + FEE
    BY <1>4, TransferIn, ParameterAssumption
  <2>2. balance[Oracle] = operatorBond + challengeBonds + feePool + heldFees
    BY DEF Bookkeeping, Solvent
  <2> QED BY <1>4, <2>1, <2>2, ParameterAssumption DEF Solvent, TypeOK
<1>8. liveCases' <= MAX_LIVE_CASES
  BY <1>4, ParameterAssumption DEF TypeOK
<1> QED BY <1>3, <1>4, <1>5, <1>6, <1>7, <1>8 DEF Bookkeeping

\* A challenge adds the same bond to the ledger and to the balance and keeps the
\* case live.
LEMMA ChallengeKeepsBooks ==
  ASSUME TypeOK, Bookkeeping, NEW c \in CaseIds, NEW sender \in Accounts, challenge(c, sender)
  PROVE  Bookkeeping'
<1> DEFINE bond == IF sender = Wronged(cases[c]) THEN 0 ELSE challengeBondFor(cases[c].value)
           due == now + ESCALATION_WINDOW
           k == [cases[c] EXCEPT !.status = "CHALLENGED", !.challenger = sender,
                                 !.challengeBond = bond, !.escalationDeadline = due]
<1>1. cases' = [cases EXCEPT ![c] = k]
  BY DEF challenge
<1>2. bond \in Nat
  <2>1. cases[c].value \in Nat
    BY DEF TypeOK, Case
  <2> QED BY <2>1, BondType
<1>3. /\ challengeBonds' = challengeBonds + bond
      /\ (bond = 0 /\ UNCHANGED balance) \/ Transfer(sender, Oracle, bond)
      /\ UNCHANGED <<operatorBond, feePool, heldFees, caseFee, liveCases>>
  BY DEF challenge
<1>4. CaseWellFormed(k) /\ IsLive(k) /\ IsLive(cases[c])
  <2>1. cases[c] \in Case /\ CaseWellFormed(cases[c]) /\ cases[c].status = "RULED"
    BY DEF challenge, TypeOK, Bookkeeping
  <2>2. /\ k.status = "CHALLENGED" /\ k.provider = cases[c].provider
        /\ k.payer = cases[c].payer /\ k.feePayer = cases[c].feePayer
        /\ k.ruling = cases[c].ruling /\ k.value = cases[c].value /\ k.challenger = sender
    BY <2>1 DEF Case
  <2> HIDE DEF k
  <2> QED BY <2>1, <2>2 DEF CaseWellFormed, IsLive
<1> HIDE DEF k, bond
<1>5. Solvent'
  <2>1. balance'[Oracle] = balance[Oracle] + bond
    BY <1>2, <1>3, TransferIn, BalanceType
  <2>2. balance[Oracle] = operatorBond + challengeBonds + feePool + heldFees
    BY DEF Bookkeeping, Solvent
  <2> QED BY <1>2, <1>3, <2>1, <2>2 DEF Solvent, TypeOK
<1>6. BondCoversLiveCases'
  BY <1>3 DEF Bookkeeping, BondCoversLiveCases, WorstCase, challengeBondFor, BPS
<1> QED BY <1>1, <1>3, <1>4, <1>5, <1>6, SameLiveness

\* The inductive step: every operation keeps the books.
LEMMA NextBooks == TypeOK /\ Bookkeeping /\ [Next]_vars => Bookkeeping'
<1> SUFFICES ASSUME TypeOK, Bookkeeping, [Next]_vars PROVE Bookkeeping'
  OBVIOUS
<1>1. CASE Tick
  BY <1>1, CasesUntouched, BondAndLedgersUntouched DEF Tick, ledgers
<1>2. ASSUME NEW amount \in Amounts, depositBond(amount) PROVE Bookkeeping'
  <2>1. amount \in Nat
    BY BoundAssumption
  <2>2. balance'[Oracle] = balance[Oracle] + amount
    BY <1>2, <2>1, TransferIn, AddressAssumption DEF depositBond
  <2>3. Solvent'
    BY <1>2, <2>1, <2>2 DEF depositBond, Bookkeeping, Solvent, TypeOK
  <2>4. BondCoversLiveCases'
    <3>1. operatorBond >= liveCases * WorstCase /\ liveCases * WorstCase \in Nat
      BY WorstCaseType DEF Bookkeeping, BondCoversLiveCases, TypeOK
    <3>2. operatorBond' = operatorBond + amount /\ liveCases' = liveCases
      BY <1>2 DEF depositBond
    <3>3. operatorBond' >= liveCases * WorstCase
      BY <2>1, <3>1, <3>2 DEF TypeOK
    <3> QED BY <3>2, <3>3 DEF BondCoversLiveCases, WorstCase, challengeBondFor, BPS
  <2> QED BY <1>2, <2>3, <2>4, CasesUntouched DEF depositBond
<1>3. ASSUME NEW amount \in Amounts, withdrawBond(amount) PROVE Bookkeeping'
  <2>1. amount \in Nat
    BY BoundAssumption
  <2>2. balance'[Oracle] = balance[Oracle] - amount
    BY <1>3, <2>1, TransferOut, AddressAssumption DEF withdrawBond
  <2>3. Solvent'
    BY <1>3, <2>1, <2>2, BalanceType DEF withdrawBond, Bookkeeping, Solvent, TypeOK
  <2>4. BondCoversLiveCases'
    <3>1. liveCases' = 0 /\ operatorBond' \in Nat /\ 0 * WorstCase = 0
      BY <1>3, <2>1, WorstCaseType DEF withdrawBond, TypeOK
    <3> QED BY <3>1 DEF BondCoversLiveCases, WorstCase, challengeBondFor, BPS
  <2> QED BY <1>3, <2>3, <2>4, CasesUntouched DEF withdrawBond
<1>4. ASSUME NEW next \in Treasuries, setTreasury(next) PROVE Bookkeeping'
  BY <1>4, CasesUntouched, BondAndLedgersUntouched DEF setTreasury, ledgers
<1>5. CASE withdrawFees
  <2>1. balance'[Oracle] = balance[Oracle] - feePool
    BY <1>5, TransferOut DEF withdrawFees, TypeOK
  <2>2. Solvent'
    BY <1>5, <2>1, BalanceType DEF withdrawFees, Bookkeeping, Solvent, TypeOK
  <2>3. BondCoversLiveCases'
    BY <1>5 DEF withdrawFees, Bookkeeping, BondCoversLiveCases, WorstCase, challengeBondFor, BPS
  <2> QED BY <1>5, <2>2, <2>3, CasesUntouched DEF withdrawFees
<1>6. ASSUME NEW req \in Offers, publishRuling(req) PROVE Bookkeeping'
  <2> DEFINE c == req.caseId
             k == [cases[c] EXCEPT !.provider = req.provider, !.payer = req.payer,
                           !.feePayer = req.feePayer, !.value = req.value,
                           !.ruling = req.ruling, !.status = "PENDING_FEE",
                           !.publishedAt = now]
  <2>1. req \in PublishRequest /\ c \in CaseIds /\ cases[c] \in Case
    BY BoundAssumption DEF PublishRequest, TypeOK
  <2>2. CaseWellFormed(k) /\ ~IsLive(k) /\ ~IsLive(cases[c])
    <3>1. /\ k.status = "PENDING_FEE" /\ k.provider = req.provider /\ k.payer = req.payer
          /\ k.feePayer = req.feePayer /\ k.ruling = req.ruling /\ k.value = req.value
      BY <2>1 DEF Case
    <3>2. /\ req.provider \in Accounts /\ req.payer \in Accounts /\ req.feePayer \in Accounts
          /\ req.provider # req.payer /\ req.ruling \in {"PAY", "REFUND"}
          /\ req.value <= CASE_CAP /\ cases[c].status = "NONE"
      BY <1>6, <2>1 DEF publishRuling, PublishRequest, Rulings
    <3> HIDE DEF k
    <3> QED BY <3>1, <3>2 DEF CaseWellFormed, IsLive
  <2>3. cases' = [cases EXCEPT ![c] = k] /\ UNCHANGED <<balance, ledgers>>
    BY <1>6 DEF publishRuling
  <2> HIDE DEF c, k
  <2> QED BY <2>1, <2>2, <2>3, SameLiveness, BondAndLedgersUntouched DEF ledgers
<1>7. ASSUME NEW c \in CaseIds, NEW sender \in Accounts, payFee(c, sender) PROVE Bookkeeping'
  BY <1>7, PayFeeKeepsBooks
<1>8. ASSUME NEW c \in CaseIds, NEW sender \in Accounts, cancelUnpaid(c, sender)
      PROVE  Bookkeeping'
  <2>1. CaseWellFormed(EmptyCase) /\ ~IsLive(EmptyCase)
    <3>1. EmptyCase.status = "NONE"
      BY DEF EmptyCase
    <3> QED BY <3>1 DEF CaseWellFormed, IsLive
  <2>2. ~IsLive(cases[c])
    BY <1>8 DEF cancelUnpaid, IsLive
  <2>3. cases' = [cases EXCEPT ![c] = EmptyCase] /\ UNCHANGED <<balance, ledgers>>
    BY <1>8 DEF cancelUnpaid
  <2> QED BY <2>1, <2>2, <2>3, SameLiveness, BondAndLedgersUntouched DEF ledgers
<1>9. ASSUME NEW c \in CaseIds, NEW sender \in Accounts, challenge(c, sender) PROVE Bookkeeping'
  BY <1>9, ChallengeKeepsBooks
<1>10. ASSUME NEW c \in CaseIds, finalizeUnchallenged(c) PROVE Bookkeeping'
  BY <1>10, FinalizeKeepsBooks DEF finalizeUnchallenged, IsLive
<1>11. ASSUME NEW c \in CaseIds, defaultOverturn(c) PROVE Bookkeeping'
  BY <1>11, OverturnKeepsBooks DEF defaultOverturn
<1>12. ASSUME NEW c \in CaseIds, NEW id \in EscalationIds, escalateRuling(c, id)
       PROVE  Bookkeeping'
  <2> DEFINE k == [cases[c] EXCEPT !.escalationId = id]
  <2>1. CaseWellFormed(k) /\ IsLive(k) /\ IsLive(cases[c])
    <3>1. cases[c] \in Case /\ CaseWellFormed(cases[c]) /\ cases[c].status = "CHALLENGED"
      BY <1>12 DEF escalateRuling, TypeOK, Bookkeeping
    <3>2. /\ k.status = "CHALLENGED" /\ k.provider = cases[c].provider
          /\ k.payer = cases[c].payer /\ k.feePayer = cases[c].feePayer
          /\ k.ruling = cases[c].ruling /\ k.value = cases[c].value
          /\ k.challenger = cases[c].challenger
      BY <3>1 DEF Case
    <3> HIDE DEF k
    <3> QED BY <3>1, <3>2 DEF CaseWellFormed, IsLive
  <2>2. cases' = [cases EXCEPT ![c] = k] /\ UNCHANGED <<balance, ledgers>>
    BY <1>12 DEF escalateRuling
  <2> HIDE DEF k
  <2> QED BY <2>1, <2>2, SameLiveness, BondAndLedgersUntouched DEF ledgers
<1>13. ASSUME NEW id \in EscalationIds, NEW upheld \in BOOLEAN, resolveEscalation(id, upheld)
       PROVE  Bookkeeping'
  <2> DEFINE c == caseByEscalation[id]
  <2>1. c \in CaseIds
    BY <1>13 DEF resolveEscalation, TypeOK
  <2>2. \/ UNCHANGED vars
        \/ cases[c].status = "CHALLENGED" /\ (_finalize(c) \/ _overturn(c))
    BY <1>13 DEF resolveEscalation
  <2>3. UNCHANGED vars => Bookkeeping'
    BY CasesUntouched, BondAndLedgersUntouched DEF vars, ledgers
  <2>4. cases[c].status = "CHALLENGED" => IsLive(cases[c])
    BY DEF IsLive
  <2> QED BY <2>1, <2>2, <2>3, <2>4, FinalizeKeepsBooks, OverturnKeepsBooks
<1>14. CASE UNCHANGED vars
  BY <1>14, CasesUntouched, BondAndLedgersUntouched DEF vars, ledgers
<1> QED BY <1>1, <1>2, <1>3, <1>4, <1>5, <1>6, <1>7, <1>8, <1>9, <1>10, <1>11, <1>12,
           <1>13, <1>14 DEF Next, Operate, Participate, AppealLayer

\* The counters follow the cases in every reachable state.
THEOREM BooksKept == Spec => []Bookkeeping
<1>1. Init => Bookkeeping
  BY InitBooks
<1>2. TypeOK /\ Bookkeeping /\ [Next]_vars => Bookkeeping'
  BY NextBooks
<1> QED BY <1>1, <1>2, TypeCorrect, PTL DEF Spec

\* The bond floor that is checked once per case is enough for all live cases at
\* once, whatever the other cases cost the bond in the meantime.
THEOREM BondAlwaysCovers == Spec => []BondCoversLiveCases
<1>1. Bookkeeping => BondCoversLiveCases
  BY DEF Bookkeeping
<1> QED BY <1>1, BooksKept, PTL

\* The contract always holds exactly the USDC of its four ledgers.
THEOREM AlwaysSolvent == Spec => []Solvent
<1>1. Bookkeeping => Solvent
  BY DEF Bookkeeping
<1> QED BY <1>1, BooksKept, PTL

-----------------------------------------------------------------------------

\* Who is paid what by a settlement, before anything is known of the ledgers.
LEMMA FinalizePays ==
  ASSUME TypeOK, NEW c \in CaseIds, _finalize(c), NEW a \in Accounts
  PROVE  balance'[a] = balance[a] + (IF a = Favored(cases[c])
                                     THEN cases[c].challengeBond ELSE 0)
BY AddressAssumption DEF _finalize, PayOut, Holders

\* An overturn pays each account what it is entitled to.
LEMMA OverturnPays ==
  ASSUME TypeOK, Bookkeeping, NEW c \in CaseIds, cases[c].status = "CHALLENGED", _overturn(c),
         NEW a \in Accounts
  PROVE  balance'[a] = balance[a] + Entitlement(cases[c], a)
<1> DEFINE k == cases[c]
<1>1. balance'[a] = balance[a] + ((IF a = Wronged(k) THEN Payout(k) ELSE 0)
                                  + (IF a = k.feePayer THEN caseFee[c] ELSE 0)
                                  + (IF a = k.challenger THEN k.challengeBond + Bounty(k) ELSE 0))
  BY AddressAssumption DEF _overturn, PayOut, Holders
<1>2. IsLive(k) /\ caseFee[c] = FEE
  BY DEF IsLive, Bookkeeping
<1>3. liveCases >= 1
  BY DEF _overturn, ReleaseExposure
<1>4. Payout(k) = k.value
  BY <1>2, <1>3, OverturnInFull
<1>5. a = k.challenger =>
        Bounty(k) = IF a = Wronged(k) THEN 0 ELSE challengeBondFor(k.value)
  <2>1. a # Zero
    BY AddressAssumption
  <2> QED BY <1>2, <1>3, <2>1, OverturnInFull
<1> QED BY <1>1, <1>2, <1>4, <1>5 DEF Entitlement

\* One step settles at most one case: the case c that changes is the one settled.
LEMMA SettlementStep ==
  ASSUME TypeOK, Next, NEW c \in CaseIds
  PROVE  /\ Settles(c, "FINALIZED") => _finalize(c)
         /\ Settles(c, "OVERTURNED") => cases[c].status = "CHALLENGED" /\ _overturn(c)
<1> SUFFICES ASSUME NEW s \in {"FINALIZED", "OVERTURNED"}, Settles(c, s)
             PROVE  /\ s = "FINALIZED" => _finalize(c)
                    /\ s = "OVERTURNED" => cases[c].status = "CHALLENGED" /\ _overturn(c)
  OBVIOUS
<1>1. IsLive(cases[c]) /\ cases'[c].status = s /\ cases[c] \in Case
  BY DEF Settles, TypeOK
<1>2. cases' # cases
  BY <1>1 DEF IsLive
<1>3. ~(Tick \/ \E amount \in Amounts : depositBond(amount) \/ withdrawBond(amount))
  BY <1>2 DEF Tick, depositBond, withdrawBond
<1>4. ~(withdrawFees \/ \E next \in Treasuries : setTreasury(next))
  BY <1>2 DEF withdrawFees, setTreasury
<1>5. ASSUME NEW req \in Offers, publishRuling(req) PROVE FALSE
  <2>1. c # req.caseId
    BY <1>1, <1>5 DEF publishRuling, IsLive
  <2>2. cases'[c] = cases[c]
    BY <1>5, <2>1 DEF publishRuling, TypeOK
  <2> QED BY <1>1, <2>2 DEF IsLive
<1>6. ASSUME NEW d \in CaseIds, NEW sender \in Accounts, payFee(d, sender) PROVE FALSE
  <2>1. c # d
    BY <1>1, <1>6 DEF payFee, IsLive
  <2>2. cases'[c] = cases[c]
    BY <1>6, <2>1 DEF payFee, TypeOK
  <2> QED BY <1>1, <2>2 DEF IsLive
<1>7. ASSUME NEW d \in CaseIds, NEW sender \in Accounts, cancelUnpaid(d, sender) PROVE FALSE
  <2>1. c # d
    BY <1>1, <1>7 DEF cancelUnpaid, IsLive
  <2>2. cases'[c] = cases[c]
    BY <1>7, <2>1 DEF cancelUnpaid, TypeOK
  <2> QED BY <1>1, <2>2 DEF IsLive
<1>8. ASSUME NEW d \in CaseIds, NEW sender \in Accounts, challenge(d, sender) PROVE FALSE
  <2>1. d # c => cases'[c] = cases[c]
    BY <1>8 DEF challenge, TypeOK
  <2>2. d = c => cases'[c].status = "CHALLENGED"
    BY <1>1, <1>8 DEF challenge, TypeOK, Case
  <2> QED BY <1>1, <2>1, <2>2 DEF IsLive
<1>9. ASSUME NEW d \in CaseIds, NEW id \in EscalationIds, escalateRuling(d, id) PROVE FALSE
  <2>1. cases'[c].status = cases[c].status
    BY <1>1, <1>9 DEF escalateRuling, TypeOK, Case
  <2> QED BY <1>1, <2>1 DEF IsLive
<1>10. ASSUME NEW d \in CaseIds, _finalize(d)
       PROVE  d = c /\ s = "FINALIZED"
  <2>1. d # c => cases'[c] = cases[c]
    BY <1>10 DEF _finalize, TypeOK
  <2>2. d = c => cases'[c].status = "FINALIZED"
    BY <1>1, <1>10 DEF _finalize, TypeOK, Case
  <2> QED BY <1>1, <2>1, <2>2 DEF IsLive
<1>11. ASSUME NEW d \in CaseIds, _overturn(d)
       PROVE  d = c /\ s = "OVERTURNED"
  <2>1. d # c => cases'[c] = cases[c]
    BY <1>11 DEF _overturn, TypeOK
  <2>2. d = c => cases'[c].status = "OVERTURNED"
    BY <1>1, <1>11 DEF _overturn, TypeOK, Case
  <2> QED BY <1>1, <2>1, <2>2 DEF IsLive
<1>12. ASSUME NEW d \in CaseIds, finalizeUnchallenged(d)
       PROVE  s = "FINALIZED" /\ _finalize(c)
  BY <1>10, <1>12 DEF finalizeUnchallenged
<1>13. ASSUME NEW d \in CaseIds, defaultOverturn(d)
       PROVE  s = "OVERTURNED" /\ cases[c].status = "CHALLENGED" /\ _overturn(c)
  BY <1>11, <1>13 DEF defaultOverturn
<1>14. ASSUME NEW id \in EscalationIds, NEW upheld \in BOOLEAN, resolveEscalation(id, upheld)
       PROVE  \/ s = "FINALIZED" /\ _finalize(c)
              \/ s = "OVERTURNED" /\ cases[c].status = "CHALLENGED" /\ _overturn(c)
  <2> DEFINE d == caseByEscalation[id]
  <2>1. d \in CaseIds
    BY <1>14 DEF resolveEscalation, TypeOK
  <2>2. cases[d].status = "CHALLENGED" /\ (_finalize(d) \/ _overturn(d))
    BY <1>2, <1>14 DEF resolveEscalation, vars
  <2> QED BY <1>10, <1>11, <2>1, <2>2
<1> QED BY <1>3, <1>4, <1>5, <1>6, <1>7, <1>8, <1>9, <1>12, <1>13, <1>14
        DEF Next, Operate, Participate, AppealLayer

\* Every settlement pays everyone exactly what was promised when the case went
\* live; an overturn is never cut short by what other cases took from the bond.
THEOREM SettlementsPayInFull == Spec => SettlementPaysInFull
<1> DEFINE Pays == \A c \in CaseIds, a \in Accounts :
          /\ Settles(c, "OVERTURNED") =>
                balance'[a] = balance[a] + Entitlement(cases[c], a)
          /\ Settles(c, "FINALIZED") =>
                balance'[a] = balance[a] + (IF a = Favored(cases[c])
                                            THEN cases[c].challengeBond ELSE 0)
<1>1. TypeOK /\ Bookkeeping /\ Next => Pays
  BY SettlementStep, FinalizePays, OverturnPays
<1>2. TypeOK /\ Bookkeeping /\ [Next]_vars => [Pays]_vars
  BY <1>1
<1> QED BY <1>2, TypeCorrect, BooksKept, PTL DEF Spec, SettlementPaysInFull

-----------------------------------------------------------------------------
(* What the ledgers, the windows and the loss records rest on: one case     *)
(* changes in a step, by one of seven operations.                           *)

bondOf == [c \in CaseIds |-> cases[c].challengeBond]
Exposure(k) == IF IsLive(k) THEN k.value ELSE 0
exposureOf == [c \in CaseIds |-> Exposure(cases[c])]

Ledgers ==
    /\ challengeBonds = Total(bondOf, CaseIds)
    /\ heldFees = Total(caseFee, CaseIds)
    /\ liveExposure = Total(exposureOf, CaseIds)

\* What a case records of its challenge and its windows.
RecordKept(k) ==
    /\ k.status \in {"NONE", "PENDING_FEE", "RULED"} =>
          k.challenger = Zero /\ k.challengeBond = 0 /\ k.escalationId = Zero
    /\ k.status = "RULED" => k.challengeDeadline = k.ruledAt + CHALLENGE_WINDOW
    /\ k.status = "CHALLENGED" => k.challenger # Zero
    /\ IsFinal(k) => k.challengeBond = 0
    /\ k.status = "FINALIZED" /\ k.challenger = Zero =>
          k.finalizedAt >= k.ruledAt + CHALLENGE_WINDOW
    /\ k.challenger # Zero =>
          k.escalationDeadline < k.ruledAt + CHALLENGE_WINDOW + ESCALATION_WINDOW
    /\ k.status = "FINALIZED" /\ k.challenger # Zero => k.escalationId # Zero
    /\ k.status = "OVERTURNED" /\ k.escalationId = Zero =>
          k.finalizedAt >= k.escalationDeadline

\* A request the appeal layer was given belongs to a case that says so.
RequestsLinked ==
    \A id \in EscalationIds :
        caseByEscalation[id] # Zero => cases[caseByEscalation[id]].escalationId # Zero

Records ==
    /\ \A c \in CaseIds : RecordKept(cases[c])
    /\ RequestsLinked

\* Case c becomes k and holds fee f from now on.
Becomes(c, k, f) ==
    /\ cases' = [cases EXCEPT ![c] = k]
    /\ caseFee' = [caseFee EXCEPT ![c] = f]
    /\ challengeBonds' = challengeBonds - cases[c].challengeBond + k.challengeBond
    /\ heldFees' = heldFees - caseFee[c] + f
    /\ liveExposure' = liveExposure - Exposure(cases[c]) + Exposure(k)

\* The ruling a case ends with.
Ending(k) == IF k.status = "FINALIZED" THEN k.ruling ELSE Flipped(k.ruling)

\* The step before the case is final, and the one that makes it final.
Progress(c, k) ==
    /\ ~IsFinal(cases[c]) /\ ~IsFinal(k)
    /\ losses' = losses
    /\ \/ caseByEscalation' = caseByEscalation /\ k.escalationId = cases[c].escalationId
       \/ /\ k.escalationId # Zero
          /\ \E id \in EscalationIds : caseByEscalation' = [caseByEscalation EXCEPT ![id] = c]

Settlement(c, k) ==
    /\ IsLive(cases[c]) /\ IsFinal(k)
    /\ k.provider = cases[c].provider /\ k.escalationId = cases[c].escalationId
    /\ RecordLoss(c, Ending(k))
    /\ caseByEscalation' = caseByEscalation

Step(c, k, f) ==
    /\ k \in Case /\ f \in Nat
    /\ Becomes(c, k, f)
    /\ RecordKept(k)
    /\ Progress(c, k) \/ Settlement(c, k)

Quiet ==
    UNCHANGED <<cases, caseFee, challengeBonds, heldFees, liveExposure, losses, caseByEscalation>>

\* The facts each of them starts from.
LEMMA CaseFacts ==
  ASSUME TypeOK, Bookkeeping, Records, NEW c \in CaseIds
  PROVE  /\ cases[c] \in Case /\ CaseWellFormed(cases[c]) /\ RecordKept(cases[c])
         /\ caseFee[c] \in Nat /\ cases[c].value \in Nat /\ cases[c].challengeBond \in Nat
         /\ challengeBonds \in Nat /\ heldFees \in Nat /\ liveExposure \in Nat
         /\ now \in Nat /\ feePool \in Nat
         /\ cases[c].ruledAt \in Nat /\ cases[c].challengeDeadline \in Nat
         /\ cases[c].escalationDeadline \in Nat
         /\ caseFee[c] = IF IsLive(cases[c]) THEN FEE ELSE 0
BY DEF TypeOK, Bookkeeping, Records, Case

\* An offer: the case is not live yet and owes nothing.
LEMMA PublishMove ==
  ASSUME TypeOK, Bookkeeping, Records, NEW req \in Offers, publishRuling(req)
  PROVE  \E c \in CaseIds : \E k, f : Step(c, k, f)
<1> DEFINE c == req.caseId
           k == [cases[c] EXCEPT !.provider = req.provider, !.payer = req.payer,
                         !.feePayer = req.feePayer, !.value = req.value,
                         !.ruling = req.ruling, !.status = "PENDING_FEE",
                         !.publishedAt = now]
<1>1. req \in PublishRequest /\ c \in CaseIds
  BY BoundAssumption DEF PublishRequest
<1>2. cases[c] \in Case /\ RecordKept(cases[c]) /\ cases[c].status = "NONE" /\ now \in Nat
  BY <1>1, CaseFacts DEF publishRuling
<1>3. /\ k.challenger = cases[c].challenger /\ k.challengeBond = cases[c].challengeBond
      /\ k.escalationId = cases[c].escalationId /\ k.status = "PENDING_FEE"
  BY <1>2 DEF Case
<1>4. k \in Case
  BY <1>1, <1>2 DEF PublishRequest, Case, Statuses
<1>5. /\ cases' = [cases EXCEPT ![c] = k]
      /\ UNCHANGED <<caseFee, challengeBonds, heldFees, liveExposure, losses, caseByEscalation>>
  BY DEF publishRuling, ledgers
<1> HIDE DEF k, c
<1>6. RecordKept(k) /\ ~IsFinal(k) /\ ~IsLive(k) /\ ~IsFinal(cases[c]) /\ ~IsLive(cases[c])
  BY <1>2, <1>3 DEF RecordKept, IsFinal, IsLive
<1>7. Becomes(c, k, caseFee[c]) /\ caseFee[c] \in Nat
  BY <1>1, <1>2, <1>3, <1>5, <1>6, CaseFacts DEF Becomes, Exposure, TypeOK
<1>8. Progress(c, k)
  BY <1>3, <1>5, <1>6 DEF Progress
<1> QED BY <1>1, <1>4, <1>6, <1>7, <1>8 DEF Step

\* The fee: the case goes live and its window opens.
LEMMA PayFeeMove ==
  ASSUME TypeOK, Bookkeeping, Records, NEW c \in CaseIds, NEW sender \in Accounts, payFee(c, sender)
  PROVE  \E k, f : Step(c, k, f)
<1> DEFINE due == now + CHALLENGE_WINDOW
           k == [cases[c] EXCEPT !.status = "RULED", !.ruledAt = now, !.challengeDeadline = due]
<1>1. /\ cases[c] \in Case /\ RecordKept(cases[c]) /\ cases[c].status = "PENDING_FEE"
      /\ now \in Nat /\ due \in Nat /\ FEE \in Nat
  BY CaseFacts, ParameterAssumption DEF payFee
<1>2. due = now + CHALLENGE_WINDOW
  OBVIOUS
<1>3. cases' = [cases EXCEPT ![c] = k]
  BY DEF payFee
<1> HIDE DEF due
<1>4. /\ k.challenger = cases[c].challenger /\ k.challengeBond = cases[c].challengeBond
      /\ k.escalationId = cases[c].escalationId /\ k.status = "RULED" /\ k.ruledAt = now
      /\ k.challengeDeadline = due /\ k.value = cases[c].value
  BY <1>1 DEF Case
<1>5. k \in Case
  BY <1>1 DEF Case, Statuses
<1>6. /\ liveExposure' = liveExposure + cases[c].value
      /\ caseFee' = [caseFee EXCEPT ![c] = FEE] /\ heldFees' = heldFees + FEE
      /\ UNCHANGED <<challengeBonds, losses, caseByEscalation>>
  BY DEF payFee
<1> HIDE DEF k
<1>7. RecordKept(k) /\ ~IsFinal(k) /\ IsLive(k) /\ ~IsFinal(cases[c]) /\ ~IsLive(cases[c])
  BY <1>1, <1>2, <1>4 DEF RecordKept, IsFinal, IsLive
<1>8. Becomes(c, k, FEE)
  BY <1>3, <1>4, <1>6, <1>7, CaseFacts DEF Becomes, Exposure
<1>9. Progress(c, k)
  BY <1>4, <1>6, <1>7 DEF Progress
<1> QED BY <1>1, <1>5, <1>7, <1>8, <1>9 DEF Step

\* A withdrawn offer leaves an empty case.
LEMMA CancelMove ==
  ASSUME TypeOK, Bookkeeping, Records, NEW c \in CaseIds, NEW sender \in Accounts, cancelUnpaid(c, sender)
  PROVE  \E k, f : Step(c, k, f)
<1>1. /\ cases[c] \in Case /\ RecordKept(cases[c]) /\ cases[c].status = "PENDING_FEE"
  BY CaseFacts DEF cancelUnpaid
<1>2. /\ EmptyCase \in Case /\ RecordKept(EmptyCase) /\ ~IsFinal(EmptyCase) /\ ~IsLive(EmptyCase)
      /\ EmptyCase.escalationId = Zero /\ EmptyCase.challengeBond = 0
  BY DEF EmptyCase, Case, Rulings, Statuses, RecordKept, IsFinal, IsLive
<1>3. /\ cases' = [cases EXCEPT ![c] = EmptyCase]
      /\ UNCHANGED <<caseFee, challengeBonds, heldFees, liveExposure, losses, caseByEscalation>>
  BY DEF cancelUnpaid, ledgers
<1>4. ~IsFinal(cases[c]) /\ ~IsLive(cases[c]) /\ cases[c].challengeBond = 0
      /\ cases[c].escalationId = Zero
  BY <1>1 DEF RecordKept, IsFinal, IsLive
<1>5. Becomes(c, EmptyCase, caseFee[c]) /\ caseFee[c] \in Nat
  BY <1>2, <1>3, <1>4, CaseFacts DEF Becomes, Exposure, TypeOK
<1>6. Progress(c, EmptyCase)
  BY <1>2, <1>3, <1>4 DEF Progress
<1> QED BY <1>2, <1>5, <1>6 DEF Step

\* A challenge, inside the window.
LEMMA ChallengeMove ==
  ASSUME TypeOK, Bookkeeping, Records, NEW c \in CaseIds, NEW sender \in Accounts, challenge(c, sender)
  PROVE  \E k, f : Step(c, k, f)
<1> DEFINE bond == IF sender = Wronged(cases[c]) THEN 0 ELSE challengeBondFor(cases[c].value)
           due == now + ESCALATION_WINDOW
           k == [cases[c] EXCEPT !.status = "CHALLENGED", !.challenger = sender,
                                 !.challengeBond = bond, !.escalationDeadline = due]
<1>1. /\ cases[c] \in Case /\ RecordKept(cases[c]) /\ cases[c].status = "RULED"
      /\ now \in Nat /\ due \in Nat /\ now < cases[c].challengeDeadline
  BY CaseFacts, ParameterAssumption DEF challenge
<1>2. bond \in Nat
  BY CaseFacts, BondType
<1>3. due < cases[c].ruledAt + CHALLENGE_WINDOW + ESCALATION_WINDOW
  BY <1>1, CaseFacts, ParameterAssumption DEF RecordKept
<1>4. cases' = [cases EXCEPT ![c] = k] /\ challengeBonds' = challengeBonds + bond
  BY DEF challenge
<1> HIDE DEF due, bond
<1>5. /\ k.challenger = sender /\ k.challengeBond = bond /\ k.ruledAt = cases[c].ruledAt
      /\ k.escalationId = cases[c].escalationId /\ k.status = "CHALLENGED"
      /\ k.escalationDeadline = due /\ k.value = cases[c].value
  BY <1>1 DEF Case
<1>6. k \in Case
  BY <1>1, <1>2 DEF Case, Statuses
<1>7. UNCHANGED <<liveExposure, caseFee, heldFees, losses, caseByEscalation>>
  BY DEF challenge
<1> HIDE DEF k
<1>8. RecordKept(k) /\ ~IsFinal(k) /\ IsLive(k) /\ ~IsFinal(cases[c]) /\ IsLive(cases[c])
      /\ cases[c].challengeBond = 0
  BY <1>1, <1>3, <1>5, AddressAssumption DEF RecordKept, IsFinal, IsLive
<1>9. Becomes(c, k, caseFee[c]) /\ caseFee[c] \in Nat
  BY <1>2, <1>4, <1>5, <1>7, <1>8, CaseFacts DEF Becomes, Exposure, TypeOK
<1>10. Progress(c, k)
  BY <1>5, <1>7, <1>8 DEF Progress
<1> QED BY <1>6, <1>8, <1>9, <1>10 DEF Step

\* An escalation ties the request to the case.
LEMMA EscalateMove ==
  ASSUME TypeOK, Bookkeeping, Records, NEW c \in CaseIds, NEW id \in EscalationIds, escalateRuling(c, id)
  PROVE  \E k, f : Step(c, k, f)
<1> DEFINE k == [cases[c] EXCEPT !.escalationId = id]
<1>1. cases[c] \in Case /\ RecordKept(cases[c]) /\ cases[c].status = "CHALLENGED" /\ id # Zero
  BY CaseFacts DEF escalateRuling
<1>2. /\ k.challenger = cases[c].challenger /\ k.challengeBond = cases[c].challengeBond
      /\ k.ruledAt = cases[c].ruledAt /\ k.escalationId = id /\ k.status = cases[c].status
      /\ k.escalationDeadline = cases[c].escalationDeadline /\ k.value = cases[c].value
  BY <1>1 DEF Case
<1>3. k \in Case
  BY <1>1 DEF Case
<1>4. /\ cases' = [cases EXCEPT ![c] = k]
      /\ caseByEscalation' = [caseByEscalation EXCEPT ![id] = c]
      /\ UNCHANGED <<liveExposure, caseFee, challengeBonds, heldFees, losses>>
  BY DEF escalateRuling, ledgers
<1> HIDE DEF k
<1>5. RecordKept(k) /\ ~IsFinal(k) /\ IsLive(k) /\ ~IsFinal(cases[c]) /\ IsLive(cases[c])
  BY <1>1, <1>2 DEF RecordKept, IsFinal, IsLive
<1>6. Becomes(c, k, caseFee[c]) /\ caseFee[c] \in Nat
  BY <1>2, <1>4, <1>5, CaseFacts DEF Becomes, Exposure, TypeOK
<1>7. Progress(c, k)
  BY <1>1, <1>2, <1>4, <1>5 DEF Progress
<1> QED BY <1>3, <1>5, <1>6, <1>7 DEF Step

\* A finalization, after the window or by the appeal layer.
LEMMA FinalizeMove ==
  ASSUME TypeOK, Bookkeeping, Records, NEW c \in CaseIds, _finalize(c),
         \/ cases[c].status = "RULED" /\ now >= cases[c].challengeDeadline
         \/ cases[c].status = "CHALLENGED" /\ cases[c].escalationId # Zero
  PROVE  \E k, f : Step(c, k, f)
<1> DEFINE k == [cases[c] EXCEPT !.status = "FINALIZED", !.finalizedAt = now, !.challengeBond = 0]
<1>1. cases[c] \in Case /\ RecordKept(cases[c]) /\ now \in Nat /\ IsLive(cases[c])
  BY CaseFacts DEF IsLive
<1>2. /\ k.challenger = cases[c].challenger /\ k.challengeBond = 0 /\ k.ruledAt = cases[c].ruledAt
      /\ k.escalationId = cases[c].escalationId /\ k.status = "FINALIZED" /\ k.finalizedAt = now
      /\ k.escalationDeadline = cases[c].escalationDeadline
      /\ k.provider = cases[c].provider /\ k.ruling = cases[c].ruling
  BY <1>1 DEF Case
<1>3. k \in Case
  BY <1>1 DEF Case, Statuses
<1>4. /\ cases' = [cases EXCEPT ![c] = k]
      /\ liveExposure' = liveExposure - cases[c].value
      /\ challengeBonds' = challengeBonds - cases[c].challengeBond
      /\ caseFee' = [caseFee EXCEPT ![c] = 0] /\ heldFees' = heldFees - caseFee[c]
      /\ RecordLoss(c, cases[c].ruling)
      /\ UNCHANGED caseByEscalation
  BY DEF _finalize, ReleaseExposure, ReleaseChallengeBond, ReleaseFee
<1> HIDE DEF k
<1>5. RecordKept(k) /\ IsFinal(k) /\ ~IsLive(k)
  BY <1>1, <1>2, CaseFacts DEF RecordKept, IsFinal, IsLive
<1>6. Becomes(c, k, 0)
  BY <1>1, <1>2, <1>4, <1>5, CaseFacts DEF Becomes, Exposure
<1>7. Settlement(c, k)
  BY <1>1, <1>2, <1>4, <1>5 DEF Settlement, Ending
<1> QED BY <1>3, <1>5, <1>6, <1>7 DEF Step

\* An overturn, by the appeal layer or once its time is over.
LEMMA OverturnMove ==
  ASSUME TypeOK, Bookkeeping, Records, NEW c \in CaseIds, _overturn(c),
         cases[c].status = "CHALLENGED",
         cases[c].escalationId # Zero \/ now >= cases[c].escalationDeadline
  PROVE  \E k, f : Step(c, k, f)
<1> DEFINE refunded == cases[c].feeRefunded \/ caseFee[c] # 0
           k == [cases[c] EXCEPT !.status = "OVERTURNED", !.finalizedAt = now,
                                 !.challengeBond = 0, !.feeRefunded = refunded]
<1>1. /\ cases[c] \in Case /\ RecordKept(cases[c]) /\ now \in Nat /\ IsLive(cases[c])
      /\ refunded \in BOOLEAN
  BY CaseFacts DEF IsLive
<1>2. cases' = [cases EXCEPT ![c] = k]
  BY DEF _overturn
<1> HIDE DEF refunded
<1>3. /\ k.challenger = cases[c].challenger /\ k.challengeBond = 0 /\ k.ruledAt = cases[c].ruledAt
      /\ k.escalationId = cases[c].escalationId /\ k.status = "OVERTURNED" /\ k.finalizedAt = now
      /\ k.escalationDeadline = cases[c].escalationDeadline
      /\ k.provider = cases[c].provider /\ k.ruling = cases[c].ruling
  BY <1>1 DEF Case
<1>4. k \in Case
  BY <1>1 DEF Case, Statuses
<1>5. /\ liveExposure' = liveExposure - cases[c].value
      /\ challengeBonds' = challengeBonds - cases[c].challengeBond
      /\ caseFee' = [caseFee EXCEPT ![c] = 0] /\ heldFees' = heldFees - caseFee[c]
      /\ RecordLoss(c, Flipped(cases[c].ruling))
      /\ UNCHANGED caseByEscalation
  BY DEF _overturn, ReleaseExposure, ReleaseChallengeBond, ReleaseFee
<1> HIDE DEF k
<1>6. RecordKept(k) /\ IsFinal(k) /\ ~IsLive(k)
  BY <1>1, <1>3, CaseFacts DEF RecordKept, IsFinal, IsLive
<1>7. Becomes(c, k, 0)
  BY <1>1, <1>2, <1>3, <1>5, <1>6, CaseFacts DEF Becomes, Exposure
<1>8. Settlement(c, k)
  BY <1>1, <1>3, <1>5, <1>6 DEF Settlement, Ending
<1> QED BY <1>4, <1>6, <1>7, <1>8 DEF Step

\* Every step leaves the cases alone or moves one of them.
LEMMA EveryStep ==
  ASSUME TypeOK, Bookkeeping, Records, [Next]_vars
  PROVE  Quiet \/ \E c \in CaseIds : \E k, f : Step(c, k, f)
<1>1. CASE Tick \/ UNCHANGED vars
  BY <1>1 DEF Tick, vars, ledgers, Quiet
<1>2. CASE Operate
  <2>1. CASE \E req \in Offers : publishRuling(req)
    BY <2>1, PublishMove
  <2>2. ASSUME NEW amount \in Amounts, depositBond(amount) \/ withdrawBond(amount) PROVE Quiet
    BY <2>2 DEF depositBond, withdrawBond, Quiet
  <2>3. ASSUME NEW next \in Treasuries, setTreasury(next) PROVE Quiet
    BY <2>3 DEF setTreasury, ledgers, Quiet
  <2>4. CASE withdrawFees
    BY <2>4 DEF withdrawFees, Quiet
  <2> QED BY <1>2, <2>1, <2>2, <2>3, <2>4 DEF Operate
<1>3. CASE Participate
  <2>1. ASSUME NEW c \in CaseIds, finalizeUnchallenged(c) PROVE \E k, f : Step(c, k, f)
    BY <2>1, FinalizeMove DEF finalizeUnchallenged
  <2>2. ASSUME NEW c \in CaseIds, defaultOverturn(c) PROVE \E k, f : Step(c, k, f)
    <3>1. cases[c].escalationId # Zero \/ now >= cases[c].escalationDeadline
      <4>1. cases[c].escalationDeadline + 0 = cases[c].escalationDeadline
        BY CaseFacts
      <4> QED BY <2>2, <4>1 DEF defaultOverturn, DefaultDeadline
    <3> QED BY <2>2, <3>1, OverturnMove DEF defaultOverturn
  <2> QED BY <1>3, <2>1, <2>2, PayFeeMove, CancelMove, ChallengeMove DEF Participate
<1>4. CASE AppealLayer
  <2>1. ASSUME NEW id \in EscalationIds, NEW upheld \in BOOLEAN, resolveEscalation(id, upheld)
        PROVE  Quiet \/ \E c \in CaseIds : \E k, f : Step(c, k, f)
    <3>1. PICK c \in CaseIds : c = caseByEscalation[id] /\ c # Zero
      BY <2>1 DEF resolveEscalation, TypeOK
    <3>2. cases[c].escalationId # Zero
      BY <3>1 DEF Records, RequestsLinked
    <3>3. \/ UNCHANGED vars
          \/ cases[c].status = "CHALLENGED" /\ (_finalize(c) \/ _overturn(c))
      BY <2>1, <3>1 DEF resolveEscalation
    <3>4. UNCHANGED vars => Quiet
      BY DEF vars, ledgers, Quiet
    <3> QED BY <3>2, <3>3, <3>4, FinalizeMove, OverturnMove
  <2> QED BY <1>4, <2>1, EscalateMove DEF AppealLayer
<1> QED BY <1>1, <1>2, <1>3, <1>4 DEF Next

-----------------------------------------------------------------------------

\* The records keep.
LEMMA RecordsStep ==
  ASSUME TypeOK, Records, NEW c \in CaseIds, NEW k, NEW f, Step(c, k, f)
  PROVE  Records'
<1>1. \A d \in CaseIds : cases'[d] = IF d = c THEN k ELSE cases[d]
  BY DEF Step, Becomes, TypeOK
<1>2. ASSUME NEW d \in CaseIds PROVE RecordKept(cases[d])'
  <2>1. RecordKept(k) /\ RecordKept(cases[d])
    BY DEF Step, Records
  <2> QED BY <1>1, <2>1 DEF RecordKept, IsFinal
<1>3. ASSUME NEW id \in EscalationIds, caseByEscalation'[id] # Zero
      PROVE  cases'[caseByEscalation'[id]].escalationId # Zero
  <2>1. caseByEscalation[id] # Zero => cases[caseByEscalation[id]].escalationId # Zero
    BY DEF Records, RequestsLinked
  <2>2. caseByEscalation[id] \in CaseIds \cup {Zero}
    BY DEF TypeOK
  <2>3. CASE caseByEscalation' = caseByEscalation /\ k.escalationId = cases[c].escalationId
    BY <1>1, <1>3, <2>1, <2>2, <2>3
  <2>4. CASE /\ k.escalationId # Zero
             /\ \E x \in EscalationIds : caseByEscalation' = [caseByEscalation EXCEPT ![x] = c]
    <3>1. caseByEscalation'[id] \in {c, caseByEscalation[id]}
      BY <2>4 DEF TypeOK
    <3> QED BY <1>1, <1>3, <2>1, <2>2, <2>4, <3>1
  <2> QED BY <2>3, <2>4 DEF Step, Progress, Settlement
<1> QED BY <1>2, <1>3 DEF Records, RequestsLinked

\* So do the ledgers: one entry of each sum changes by as much as its ledger.
LEMMA LedgersStep ==
  ASSUME TypeOK, Ledgers, NEW c \in CaseIds, NEW k, NEW f, Step(c, k, f)
  PROVE  Ledgers'
<1>1. /\ bondOf \in [CaseIds -> Int] /\ exposureOf \in [CaseIds -> Int]
      /\ caseFee \in [CaseIds -> Int]
  BY DEF TypeOK, Case, bondOf, exposureOf, Exposure
<1>2. \A d \in CaseIds : cases'[d] = IF d = c THEN k ELSE cases[d]
  BY DEF Step, Becomes, TypeOK
<1>3. k.challengeBond \in Int /\ Exposure(k) \in Int /\ f \in Int
  BY DEF Step, Case, Exposure
<1>4. Total(caseFee', CaseIds) = Total(caseFee, CaseIds) - caseFee[c] + f
  <2>1. caseFee' \in [CaseIds -> Int] /\ caseFee'[c] = f
        /\ \A d \in CaseIds \ {c} : caseFee'[d] = caseFee[d]
    BY <1>1, <1>3 DEF Step, Becomes
  <2> QED BY <1>1, <2>1, AddressAssumption, TotalChange
<1>5. Total(bondOf', CaseIds) = Total(bondOf, CaseIds) - cases[c].challengeBond + k.challengeBond
  <2>1. /\ DOMAIN bondOf' = CaseIds /\ bondOf' = [d \in CaseIds |-> bondOf'[d]]
        /\ \A d \in CaseIds : bondOf'[d] = IF d = c THEN k.challengeBond ELSE bondOf[d]
        /\ bondOf[c] = cases[c].challengeBond
    BY <1>2 DEF bondOf
  <2> HIDE DEF bondOf
  <2>2. bondOf' \in [CaseIds -> Int]
    BY <1>1, <1>3, <2>1
  <2> QED BY <1>1, <2>1, <2>2, AddressAssumption, TotalChange
<1>6. Total(exposureOf', CaseIds) = Total(exposureOf, CaseIds) - Exposure(cases[c]) + Exposure(k)
  <2>1. /\ DOMAIN exposureOf' = CaseIds /\ exposureOf' = [d \in CaseIds |-> exposureOf'[d]]
        /\ \A d \in CaseIds : exposureOf'[d] = IF d = c THEN Exposure(k) ELSE exposureOf[d]
        /\ exposureOf[c] = Exposure(cases[c])
    BY <1>2 DEF exposureOf, Exposure, IsLive
  <2> HIDE DEF exposureOf
  <2>2. exposureOf' \in [CaseIds -> Int]
    BY <1>1, <1>3, <2>1
  <2> QED BY <1>1, <2>1, <2>2, AddressAssumption, TotalChange
<1>7. /\ Total(caseFee, CaseIds)' = Total(caseFee', CaseIds)
      /\ Total(bondOf, CaseIds)' = Total(bondOf', CaseIds)
      /\ Total(exposureOf, CaseIds)' = Total(exposureOf', CaseIds)
  BY DEF Total, Table, IsTable, First
<1> QED BY <1>4, <1>5, <1>6, <1>7 DEF Ledgers, Step, Becomes

\* A step that leaves the cases alone leaves all of this alone.
LEMMA QuietStep ==
  ASSUME Quiet
  PROVE  /\ Records => Records'
         /\ Ledgers => Ledgers'
         /\ LossesMatchOutcomes => LossesMatchOutcomes'
<1>1. Records => Records'
  BY DEF Quiet, Records, RequestsLinked
<1>2. Ledgers => Ledgers'
  <2>1. /\ Total(caseFee, CaseIds)' = Total(caseFee', CaseIds)
        /\ Total(bondOf, CaseIds)' = Total(bondOf', CaseIds)
        /\ Total(exposureOf, CaseIds)' = Total(exposureOf', CaseIds)
    BY DEF Total, Table, IsTable, First
  <2>2. caseFee' = caseFee /\ bondOf' = bondOf /\ exposureOf' = exposureOf
    BY DEF Quiet, bondOf, exposureOf, Exposure, IsLive
  <2> QED BY <2>1, <2>2 DEF Ledgers, Quiet
<1>3. LossesMatchOutcomes => LossesMatchOutcomes'
  BY DEF Quiet, LossesMatchOutcomes, outcome
<1> QED BY <1>1, <1>2, <1>3

\* At deployment nothing is recorded and every ledger is empty.
LEMMA InitLedgers ==
  ASSUME Init
  PROVE  Records /\ Ledgers /\ LossesMatchOutcomes
<1>1. \A c \in CaseIds : cases[c] = EmptyCase
  BY DEF Init
<1>2. Records
  BY <1>1 DEF Init, EmptyCase, Records, RecordKept, RequestsLinked, IsFinal
<1>3. Ledgers
  <2>1. /\ bondOf \in [CaseIds -> Int] /\ \A c \in CaseIds : bondOf[c] = 0
        /\ exposureOf \in [CaseIds -> Int] /\ \A c \in CaseIds : exposureOf[c] = 0
    BY <1>1 DEF bondOf, exposureOf, Exposure, IsLive, EmptyCase
  <2>2. caseFee \in [CaseIds -> Int] /\ \A c \in CaseIds : caseFee[c] = 0
    BY DEF Init
  <2>3. /\ Total(bondOf, CaseIds) = 0 /\ Total(exposureOf, CaseIds) = 0
        /\ Total(caseFee, CaseIds) = 0
    <3> HIDE DEF bondOf, exposureOf
    <3> QED BY <2>1, <2>2, TotalOfZeros, AddressAssumption
  <2> QED BY <2>3 DEF Ledgers, Init
<1>4. LossesMatchOutcomes
  <2>1. \A c \in CaseIds : outcome(c) = "NONE"
    BY <1>1 DEF outcome, EmptyCase
  <2>2. \A a \in Accounts : losses[a] = << >> /\ DOMAIN losses[a] = {}
    BY DEF Init
  <2> QED BY <2>1, <2>2 DEF LossesMatchOutcomes, Range
<1> QED BY <1>2, <1>3, <1>4

\* A case that becomes final with a refund is appended to its provider's list,
\* and was in no list before; no other step touches the lists or an outcome.
LEMMA LossesStep ==
  ASSUME TypeOK, Bookkeeping, LossesMatchOutcomes, NEW c \in CaseIds, NEW k, NEW f, Step(c, k, f)
  PROVE  LossesMatchOutcomes'
<1>1. \A d \in CaseIds : cases'[d] = IF d = c THEN k ELSE cases[d]
  BY DEF Step, Becomes, TypeOK
<1>2. k \in Case /\ cases[c] \in Case /\ losses \in [Accounts -> Seq(CaseIds)]
  BY DEF Step, TypeOK
<1>3. \A d \in CaseIds \ {c} : outcome(d)' = outcome(d) /\ cases'[d].provider = cases[d].provider
  BY <1>1 DEF outcome
<1>4. CASE Progress(c, k)
  <2>1. outcome(c) = "NONE" /\ outcome(c)' = "NONE" /\ losses' = losses
    BY <1>1, <1>4 DEF Progress, outcome, IsFinal
  <2> QED BY <1>3, <2>1 DEF LossesMatchOutcomes
<1>5. CASE Settlement(c, k)
  <2>1. PICK p \in Accounts : p = cases[c].provider
    BY <1>5 DEF Settlement, Bookkeeping, CaseWellFormed, IsLive
  <2>2. outcome(c) = "NONE" /\ outcome(c)' = Ending(k) /\ cases'[c].provider = p
    BY <1>1, <1>5, <2>1 DEF Settlement, outcome, Ending, IsFinal, IsLive
  <2>3. losses' = IF Ending(k) = "REFUND" THEN [losses EXCEPT ![p] = Append(@, c)] ELSE losses
    BY <1>5, <2>1 DEF Settlement, RecordLoss
  <2>4. c \notin Range(losses[p])
    BY <2>2 DEF LossesMatchOutcomes
  <2>5. PICK old \in Seq(CaseIds) : old = losses[p]
    BY <1>2
  <2>6. PICK new \in Seq(CaseIds) : new = Append(old, c)
    <3>1. Append(old, c) \in Seq(CaseIds)
      OBVIOUS
    <3> QED BY <3>1
  <2>7. /\ Range(new) = Range(old) \cup {c}
        /\ (\A i, j \in DOMAIN old : old[i] = old[j] => i = j)
              => \A i, j \in DOMAIN new : new[i] = new[j] => i = j
    <3>1. /\ DOMAIN old = 1 .. Len(old) /\ DOMAIN new = 1 .. (Len(old) + 1)
          /\ Len(old) \in Nat /\ new[Len(old) + 1] = c
          /\ \A i \in 1 .. Len(old) : new[i] = old[i]
      BY <2>6
    <3>2. \A i \in 1 .. Len(old) : old[i] # c
      BY <2>4, <2>5, <3>1 DEF Range
    <3>3. 1 .. (Len(old) + 1) = (1 .. Len(old)) \cup {Len(old) + 1}
      BY <3>1
    <3>4. Range(new) = Range(old) \cup {c}
      BY <3>1, <3>3 DEF Range
    <3> QED BY <3>1, <3>2, <3>3, <3>4
  <2>8. CASE Ending(k) = "REFUND"
    <3>1. losses'[p] = new /\ \A a \in Accounts \ {p} : losses'[a] = losses[a]
      BY <1>2, <2>3, <2>5, <2>6, <2>8
    <3>2. ASSUME NEW a \in Accounts
          PROVE  /\ Range(losses'[a]) =
                      {d \in CaseIds : cases'[d].provider = a /\ outcome(d)' = "REFUND"}
                 /\ \A i, j \in DOMAIN losses'[a] : losses'[a][i] = losses'[a][j] => i = j
      <4>1. /\ Range(losses[a]) = {d \in CaseIds : cases[d].provider = a /\ outcome(d) = "REFUND"}
            /\ \A i, j \in DOMAIN losses[a] : losses[a][i] = losses[a][j] => i = j
        BY DEF LossesMatchOutcomes
      <4>2. CASE a = p
        BY <1>3, <2>2, <2>5, <2>7, <2>8, <3>1, <4>1, <4>2
      <4>3. CASE a # p
        BY <1>3, <2>2, <3>1, <4>1, <4>3
      <4> QED BY <4>2, <4>3
    <3> QED BY <3>2 DEF LossesMatchOutcomes
  <2>9. CASE Ending(k) # "REFUND"
    BY <1>3, <2>2, <2>3, <2>9 DEF LossesMatchOutcomes
  <2> QED BY <2>8, <2>9
<1> QED BY <1>4, <1>5 DEF Step

\* All three keep together.
LEMMA RecordsKept == Spec => [](Records /\ Ledgers /\ LossesMatchOutcomes)
<1> DEFINE All == Records /\ Ledgers /\ LossesMatchOutcomes
<1>1. Init => All
  BY InitLedgers
<1>2. TypeOK /\ Bookkeeping /\ All /\ [Next]_vars => All'
  BY EveryStep, QuietStep, RecordsStep, LedgersStep, LossesStep
<1> QED BY <1>1, <1>2, TypeCorrect, BooksKept, PTL DEF Spec

-----------------------------------------------------------------------------

\* The sum over the live cases is the sum over all of them with the others at zero.
LEMMA SumOfExposure ==
  ASSUME TypeOK
  PROVE  MapThenSumSet(LAMBDA c : cases[c].value, LiveSet) = Total(exposureOf, CaseIds)
<1> DEFINE valueOf == [c \in LiveSet |-> cases[c].value]
           IsSum(h) == h = [s \in SUBSET LiveSet |->
                              IF s = {} THEN 0 ELSE cases[First(s)].value + h[s \ {First(s)}]]
<1>1. ASSUME NEW h PROVE IsSum(h) <=> IsTable(h, valueOf, LiveSet)
  <2>1. \A s \in SUBSET LiveSet : s # {} => valueOf[First(s)] = cases[First(s)].value
    BY DEF First
  <2> QED BY <2>1 DEF IsTable
<1>2. MapThenSumSet(LAMBDA c : cases[c].value, LiveSet) = (CHOOSE h : IsSum(h))[LiveSet]
  BY DEF MapThenSumSet, MapThenFoldSet, First
<1>3. (CHOOSE h : IsSum(h)) = (CHOOSE h : IsTable(h, valueOf, LiveSet))
  <2> HIDE DEF IsSum, valueOf
  <2> QED BY <1>1, Zenon
<1>4. Total(exposureOf, CaseIds) = Total(valueOf, LiveSet)
  <2>1. /\ valueOf \in [LiveSet -> Int] /\ exposureOf \in [CaseIds -> Int]
        /\ LiveSet \in SUBSET CaseIds
        /\ \A c \in CaseIds : exposureOf[c] = IF c \in LiveSet THEN valueOf[c] ELSE 0
    BY DEF TypeOK, Case, LiveSet, exposureOf, Exposure
  <2> HIDE DEF valueOf
  <2> QED BY <2>1, TotalOfPart, AddressAssumption
<1> QED BY <1>2, <1>3, <1>4 DEF Total, Table

\* The bonds held are the sum over the cases.
LEMMA SumOfChallengeBonds ==
  MapThenSumSet(LAMBDA c : cases[c].challengeBond, CaseIds) = Total(bondOf, CaseIds)
<1> DEFINE IsSum(h) == h = [s \in SUBSET CaseIds |->
                              IF s = {} THEN 0
                              ELSE cases[First(s)].challengeBond + h[s \ {First(s)}]]
<1>1. ASSUME NEW h PROVE IsSum(h) <=> IsTable(h, bondOf, CaseIds)
  <2>1. \A s \in SUBSET CaseIds : s # {} => bondOf[First(s)] = cases[First(s)].challengeBond
    BY DEF First, bondOf
  <2> QED BY <2>1 DEF IsTable
<1>2. MapThenSumSet(LAMBDA c : cases[c].challengeBond, CaseIds) = (CHOOSE h : IsSum(h))[CaseIds]
  BY DEF MapThenSumSet, MapThenFoldSet, First
<1>3. (CHOOSE h : IsSum(h)) = (CHOOSE h : IsTable(h, bondOf, CaseIds))
  <2> HIDE DEF IsSum
  <2> QED BY <1>1, Zenon
<1> QED BY <1>2, <1>3 DEF Total, Table

\* Every ledger is the sum of what it stands for: none is released twice or left
\* behind, and no checked subtraction of a settlement can revert.
THEOREM LedgersAreExact == Spec => []LedgersMatchCases
<1>1. TypeOK /\ Bookkeeping /\ Ledgers => LedgersMatchCases
  BY SumOfExposure, SumOfChallengeBonds, SumIsTotal DEF Ledgers, Bookkeeping, LedgersMatchCases
<1> QED BY <1>1, RecordsKept, TypeCorrect, BooksKept, PTL

\* The loss records are the final refunds, each once.
THEOREM LossesAreExact == Spec => []LossesMatchOutcomes
BY RecordsKept, PTL

-----------------------------------------------------------------------------
(* The oracle implements Adjudication.  Each step changes the record of at *)
(* most one case; the lemmas follow that change into the marketplace's     *)
(* view, and the theorem matches every operation with a step of that view. *)

VerdictOf(k) ==
    CASE k.status = "FINALIZED"  -> k.ruling
      [] k.status = "OVERTURNED" -> Flipped(k.ruling)
      [] OTHER                   -> "NONE"

Phase == [c \in CaseIds |-> PhaseOf(cases[c])]
Ruling == [c \in CaseIds |-> cases[c].ruling]
Verdict == [c \in CaseIds |-> outcome(c)]

\* A step that rewrites one case changes the view at that case only.
LEMMA ViewStep ==
  ASSUME TypeOK, NEW c \in CaseIds, NEW k, cases' = [cases EXCEPT ![c] = k]
  PROVE  /\ Phase' = [Phase EXCEPT ![c] = PhaseOf(k)]
         /\ Ruling' = [Ruling EXCEPT ![c] = k.ruling]
         /\ Verdict' = [Verdict EXCEPT ![c] = VerdictOf(k)]
         /\ k.ruling = cases[c].ruling => Ruling' = Ruling
         /\ VerdictOf(k) = outcome(c) => Verdict' = Verdict
<1>1. /\ cases'[c] = k
      /\ \A d \in CaseIds : d # c => cases'[d] = cases[d]
  BY DEF TypeOK
<1>2. Phase' = [Phase EXCEPT ![c] = PhaseOf(k)]
  <2>1. /\ PhaseOf(cases'[c]) = PhaseOf(k)
        /\ \A d \in CaseIds : d # c => PhaseOf(cases'[d]) = PhaseOf(cases[d])
    BY <1>1
  <2> QED BY <2>1 DEF Phase
<1>3. Ruling' = [Ruling EXCEPT ![c] = k.ruling]
  <2>1. /\ cases'[c].ruling = k.ruling
        /\ \A d \in CaseIds : d # c => cases'[d].ruling = cases[d].ruling
    BY <1>1
  <2> QED BY <2>1 DEF Ruling
<1>4. Verdict' = [Verdict EXCEPT ![c] = VerdictOf(k)]
  <2>1. \A d \in CaseIds : outcome(d)' = VerdictOf(cases'[d]) /\ outcome(d) = VerdictOf(cases[d])
    BY DEF outcome, VerdictOf
  <2>2. /\ VerdictOf(cases'[c]) = VerdictOf(k)
        /\ \A d \in CaseIds : d # c => VerdictOf(cases'[d]) = VerdictOf(cases[d])
    BY <1>1
  <2> QED BY <2>1, <2>2 DEF Verdict
<1>5. k.ruling = cases[c].ruling => Ruling' = Ruling
  <2>1. k.ruling = cases[c].ruling => \A d \in CaseIds : cases'[d].ruling = cases[d].ruling
    BY <1>1
  <2> QED BY <2>1 DEF Ruling
<1>6. VerdictOf(k) = outcome(c) => Verdict' = Verdict
  <2>1. \A d \in CaseIds : outcome(d)' = VerdictOf(cases'[d]) /\ outcome(d) = VerdictOf(cases[d])
    BY DEF outcome, VerdictOf
  <2>2. VerdictOf(k) = outcome(c) => \A d \in CaseIds : outcome(d)' = outcome(d)
    BY <1>1, <2>1
  <2> QED BY <2>2 DEF Verdict
<1> QED BY <1>2, <1>3, <1>4, <1>5, <1>6

\* A step that leaves the cases alone is a stutter of the view.
LEMMA ViewStutters ==
  ASSUME UNCHANGED cases
  PROVE  UNCHANGED <<Phase, Ruling, Verdict>>
BY DEF Phase, Ruling, Verdict, outcome

\* What the view shows of a case that has not been decided.
LEMMA ViewOfCase ==
  ASSUME NEW c \in CaseIds
  PROVE  Phase[c] = PhaseOf(cases[c]) /\ Ruling[c] = cases[c].ruling
BY DEF Phase, Ruling

\* Both modules count with the Cardinality of FiniteSets.
LEMMA SameCardinality ==
  ASSUME NEW S
  PROVE  Marketplace!Cardinality(S) = Cardinality(S)
BY DEF Marketplace!Cardinality, Cardinality

\* The view counts the cases the contract counts as live.
LEMMA OpenIsLive == Marketplace!Open = LiveSet
<1>1. \A c \in CaseIds : Phase[c] \in {"open", "contested"} <=> IsLive(cases[c])
  BY DEF Phase, PhaseOf, IsLive
<1> QED BY <1>1 DEF Marketplace!Open, Phase, LiveSet

\* A change that leaves phase, ruling and verdict of its case alone is a stutter.
LEMMA SameView ==
  ASSUME TypeOK, NEW c \in CaseIds, NEW k, cases' = [cases EXCEPT ![c] = k],
         k.status = cases[c].status, k.ruling = cases[c].ruling
  PROVE  UNCHANGED <<Phase, Ruling, Verdict>>
<1>1. \A d \in CaseIds : cases'[d].status = cases[d].status /\ cases'[d].ruling = cases[d].ruling
  BY DEF TypeOK
<1> QED BY <1>1 DEF Phase, Ruling, Verdict, outcome, PhaseOf

-----------------------------------------------------------------------------

\* publishRuling is an Offer of the view.
LEMMA PublishOffers ==
  ASSUME TypeOK, Bookkeeping, NEW req \in Offers, publishRuling(req)
  PROVE  Marketplace!Next
<1> DEFINE c == req.caseId
           k == [cases[c] EXCEPT !.provider = req.provider, !.payer = req.payer,
                         !.feePayer = req.feePayer, !.value = req.value,
                         !.ruling = req.ruling, !.status = "PENDING_FEE",
                         !.publishedAt = now]
<1>1. c \in CaseIds /\ cases[c] \in Case /\ req.ruling \in {"PAY", "REFUND"}
  BY BoundAssumption DEF PublishRequest, Rulings, TypeOK, publishRuling
<1>2. k.status = "PENDING_FEE" /\ k.ruling = req.ruling
  BY <1>1 DEF Case
<1>3. cases' = [cases EXCEPT ![c] = k] /\ cases[c].status = "NONE"
  BY DEF publishRuling
<1>4. PhaseOf(k) = "offered" /\ VerdictOf(k) = "NONE" /\ outcome(c) = "NONE"
  <2> HIDE DEF k
  <2> QED BY <1>2, <1>3 DEF PhaseOf, VerdictOf, outcome
<1>5. Marketplace!Offer(c, req.ruling)
  <2> HIDE DEF k, c
  <2>1. /\ Phase' = [Phase EXCEPT ![c] = "offered"]
        /\ Ruling' = [Ruling EXCEPT ![c] = req.ruling]
        /\ Verdict' = Verdict
    <3>1. /\ Phase' = [Phase EXCEPT ![c] = PhaseOf(k)]
          /\ Ruling' = [Ruling EXCEPT ![c] = k.ruling]
          /\ Verdict' = [Verdict EXCEPT ![c] = VerdictOf(k)]
          /\ k.ruling = cases[c].ruling => Ruling' = Ruling
          /\ VerdictOf(k) = outcome(c) => Verdict' = Verdict
      BY <1>1, <1>3, ViewStep
    <3> QED BY <1>2, <1>4, <3>1
  <2>2. Phase[c] = "none"
    BY <1>1, <1>3, ViewOfCase DEF PhaseOf
  <2> QED BY <2>1, <2>2 DEF Marketplace!Offer, Phase, Ruling, Verdict
<1> QED BY <1>1, <1>5 DEF Marketplace!Next

\* cancelUnpaid is a Withdraw of the view.
LEMMA CancelWithdraws ==
  ASSUME TypeOK, NEW c \in CaseIds, NEW sender \in Accounts, cancelUnpaid(c, sender)
  PROVE  Marketplace!Next
<1>1. cases' = [cases EXCEPT ![c] = EmptyCase] /\ cases[c].status = "PENDING_FEE"
  BY DEF cancelUnpaid
<1>2. /\ PhaseOf(EmptyCase) = "none" /\ VerdictOf(EmptyCase) = "NONE"
      /\ EmptyCase.ruling = "NONE"
  BY DEF EmptyCase, PhaseOf, VerdictOf
<1>3. /\ Phase' = [Phase EXCEPT ![c] = "none"]
      /\ Ruling' = [Ruling EXCEPT ![c] = "NONE"]
      /\ Verdict' = Verdict
  <2>1. outcome(c) = "NONE"
    BY <1>1 DEF outcome
  <2>2. /\ Phase' = [Phase EXCEPT ![c] = PhaseOf(EmptyCase)]
        /\ Ruling' = [Ruling EXCEPT ![c] = EmptyCase.ruling]
        /\ Verdict' = [Verdict EXCEPT ![c] = VerdictOf(EmptyCase)]
        /\ EmptyCase.ruling = cases[c].ruling => Ruling' = Ruling
        /\ VerdictOf(EmptyCase) = outcome(c) => Verdict' = Verdict
    BY <1>1, ViewStep
  <2> QED BY <1>2, <2>1, <2>2
<1>4. Phase[c] = "offered"
  BY <1>1, ViewOfCase DEF PhaseOf
<1>5. Marketplace!Withdraw(c)
  BY <1>3, <1>4 DEF Marketplace!Withdraw, Phase, Ruling, Verdict
<1> QED BY <1>5 DEF Marketplace!Next

\* payFee is an Activate of the view, within its limit on open cases.
LEMMA PayActivates ==
  ASSUME TypeOK, Bookkeeping, NEW c \in CaseIds, NEW sender \in Accounts, payFee(c, sender)
  PROVE  Marketplace!Next
<1> DEFINE due == now + CHALLENGE_WINDOW
           k == [cases[c] EXCEPT !.status = "RULED", !.ruledAt = now,
                                 !.challengeDeadline = due]
<1>1. cases' = [cases EXCEPT ![c] = k] /\ cases[c].status = "PENDING_FEE"
  BY DEF payFee
<1>2. k.status = "RULED" /\ k.ruling = cases[c].ruling
  BY DEF TypeOK, Case
<1>3. Marketplace!Cardinality(Marketplace!Open) < MAX_LIVE_CASES
  BY OpenIsLive, SameCardinality DEF payFee, Bookkeeping
<1> HIDE DEF k
<1>4. PhaseOf(k) = "open" /\ VerdictOf(k) = "NONE"
  BY <1>2 DEF PhaseOf, VerdictOf
<1>5. /\ Phase' = [Phase EXCEPT ![c] = "open"]
      /\ Ruling' = Ruling
      /\ Verdict' = Verdict
  <2>1. outcome(c) = "NONE"
    BY <1>1 DEF outcome
  <2>2. /\ Phase' = [Phase EXCEPT ![c] = PhaseOf(k)]
        /\ Ruling' = [Ruling EXCEPT ![c] = k.ruling]
        /\ Verdict' = [Verdict EXCEPT ![c] = VerdictOf(k)]
        /\ k.ruling = cases[c].ruling => Ruling' = Ruling
        /\ VerdictOf(k) = outcome(c) => Verdict' = Verdict
    BY <1>1, ViewStep
  <2> QED BY <1>2, <1>4, <2>1, <2>2
<1>6. Phase[c] = "offered"
  BY <1>1, ViewOfCase DEF PhaseOf
<1>7. Marketplace!Activate(c)
  BY <1>3, <1>5, <1>6 DEF Marketplace!Activate, Phase, Ruling, Verdict
<1> QED BY <1>7 DEF Marketplace!Next

\* challenge is a Contest of the view.
LEMMA ChallengeContests ==
  ASSUME TypeOK, NEW c \in CaseIds, NEW sender \in Accounts, challenge(c, sender)
  PROVE  Marketplace!Next
<1> DEFINE bond == IF sender = Wronged(cases[c]) THEN 0 ELSE challengeBondFor(cases[c].value)
           due == now + ESCALATION_WINDOW
           k == [cases[c] EXCEPT !.status = "CHALLENGED", !.challenger = sender,
                                 !.challengeBond = bond, !.escalationDeadline = due]
<1>1. cases' = [cases EXCEPT ![c] = k] /\ cases[c].status = "RULED"
  BY DEF challenge
<1>2. k.status = "CHALLENGED" /\ k.ruling = cases[c].ruling
  BY DEF TypeOK, Case
<1> HIDE DEF k
<1>3. PhaseOf(k) = "contested" /\ VerdictOf(k) = "NONE"
  BY <1>2 DEF PhaseOf, VerdictOf
<1>4. /\ Phase' = [Phase EXCEPT ![c] = "contested"]
      /\ Ruling' = Ruling
      /\ Verdict' = Verdict
  <2>1. outcome(c) = "NONE"
    BY <1>1 DEF outcome
  <2>2. /\ Phase' = [Phase EXCEPT ![c] = PhaseOf(k)]
        /\ Ruling' = [Ruling EXCEPT ![c] = k.ruling]
        /\ Verdict' = [Verdict EXCEPT ![c] = VerdictOf(k)]
        /\ k.ruling = cases[c].ruling => Ruling' = Ruling
        /\ VerdictOf(k) = outcome(c) => Verdict' = Verdict
    BY <1>1, ViewStep
  <2> QED BY <1>2, <1>3, <2>1, <2>2
<1>5. Phase[c] = "open"
  BY <1>1, ViewOfCase DEF PhaseOf
<1>6. Marketplace!Contest(c)
  BY <1>4, <1>5 DEF Marketplace!Contest, Phase, Ruling, Verdict
<1> QED BY <1>6 DEF Marketplace!Next

\* Either way a live case is decided, a verdict is given that the view allows.
LEMMA SettlementDecides ==
  ASSUME TypeOK, Bookkeeping, NEW c \in CaseIds, NEW k,
         cases' = [cases EXCEPT ![c] = k], k.ruling = cases[c].ruling,
         \/ IsLive(cases[c]) /\ k.status = "FINALIZED"
         \/ cases[c].status = "CHALLENGED" /\ k.status = "OVERTURNED"
  PROVE  Marketplace!Next
<1> DEFINE r == VerdictOf(k)
<1>1. cases[c].ruling \in {"PAY", "REFUND"}
  BY DEF Bookkeeping, CaseWellFormed, IsLive
<1>2. /\ r \in {"PAY", "REFUND"}
      /\ PhaseOf(k) = "final"
      /\ \/ Phase[c] = "open" /\ r = Ruling[c]
         \/ Phase[c] = "contested"
            /\ r \in {Ruling[c], IF Ruling[c] = "PAY" THEN "REFUND" ELSE "PAY"}
  BY <1>1, ViewOfCase DEF VerdictOf, PhaseOf, Flipped, IsLive
<1>3. /\ Phase' = [Phase EXCEPT ![c] = "final"]
      /\ Verdict' = [Verdict EXCEPT ![c] = r]
      /\ Ruling' = Ruling
  <2>1. /\ Phase' = [Phase EXCEPT ![c] = PhaseOf(k)]
        /\ Ruling' = [Ruling EXCEPT ![c] = k.ruling]
        /\ Verdict' = [Verdict EXCEPT ![c] = VerdictOf(k)]
        /\ k.ruling = cases[c].ruling => Ruling' = Ruling
        /\ VerdictOf(k) = outcome(c) => Verdict' = Verdict
    BY ViewStep
  <2> QED BY <1>2, <2>1
<1> HIDE DEF r
<1>4. Marketplace!Decide(c, r)
  BY <1>2, <1>3 DEF Marketplace!Decide, Marketplace!Opposite, Phase, Ruling, Verdict
<1> QED BY <1>2, <1>4 DEF Marketplace!Next

\* A finalization decides for the published ruling.
LEMMA FinalizeDecides ==
  ASSUME TypeOK, Bookkeeping, NEW c \in CaseIds, IsLive(cases[c]), _finalize(c)
  PROVE  Marketplace!Next
<1> DEFINE k == [cases[c] EXCEPT !.status = "FINALIZED", !.finalizedAt = now,
                                 !.challengeBond = 0]
<1>1. cases' = [cases EXCEPT ![c] = k]
  BY DEF _finalize
<1>2. k.status = "FINALIZED" /\ k.ruling = cases[c].ruling
  BY DEF TypeOK, Case
<1> HIDE DEF k
<1> QED BY <1>1, <1>2, SettlementDecides

\* An overturn decides for its opposite, and only after a contest.
LEMMA OverturnDecides ==
  ASSUME TypeOK, Bookkeeping, NEW c \in CaseIds, cases[c].status = "CHALLENGED", _overturn(c)
  PROVE  Marketplace!Next
<1> DEFINE old == cases[c]
           k == [old EXCEPT !.status = "OVERTURNED", !.finalizedAt = now,
                            !.challengeBond = 0,
                            !.feeRefunded = (old.feeRefunded \/ caseFee[c] # 0)]
<1>1. cases' = [cases EXCEPT ![c] = k]
  BY DEF _overturn
<1>2. k.status = "OVERTURNED" /\ k.ruling = cases[c].ruling
  BY DEF TypeOK, Case
<1> HIDE DEF k
<1> QED BY <1>1, <1>2, SettlementDecides

-----------------------------------------------------------------------------

\* The view starts with no case.
LEMMA InitView == Init => Marketplace!Init
<1> SUFFICES ASSUME Init PROVE Marketplace!Init
  OBVIOUS
<1>1. \A c \in CaseIds : cases[c] = EmptyCase
  BY DEF Init
<1>2. EmptyCase.status = "NONE" /\ EmptyCase.ruling = "NONE"
  BY DEF EmptyCase
<1> QED BY <1>1, <1>2 DEF Marketplace!Init, PhaseOf, outcome

\* Every step of the contract is a step or a stutter of the view.
LEMMA NextView ==
  TypeOK /\ Bookkeeping /\ [Next]_vars =>
    Marketplace!Next \/ UNCHANGED <<Phase, Ruling, Verdict>>
<1> DEFINE Goal == Marketplace!Next \/ UNCHANGED <<Phase, Ruling, Verdict>>
<1> SUFFICES ASSUME TypeOK, Bookkeeping, [Next]_vars PROVE Goal
  OBVIOUS
<1>1. UNCHANGED cases => Goal
  BY ViewStutters
<1> HIDE DEF Goal
<1>2. CASE Tick \/ withdrawFees \/ UNCHANGED vars
  BY <1>1, <1>2 DEF Tick, withdrawFees, vars
<1>3. ASSUME NEW amount \in Amounts, depositBond(amount) \/ withdrawBond(amount) PROVE Goal
  BY <1>1, <1>3 DEF depositBond, withdrawBond
<1>4. ASSUME NEW next \in Treasuries, setTreasury(next) PROVE Goal
  BY <1>1, <1>4 DEF setTreasury
<1>5. ASSUME NEW req \in Offers, publishRuling(req) PROVE Goal
  BY <1>5, PublishOffers DEF Goal
<1>6. ASSUME NEW c \in CaseIds, NEW sender \in Accounts, payFee(c, sender) PROVE Goal
  BY <1>6, PayActivates DEF Goal
<1>7. ASSUME NEW c \in CaseIds, NEW sender \in Accounts, cancelUnpaid(c, sender) PROVE Goal
  BY <1>7, CancelWithdraws DEF Goal
<1>8. ASSUME NEW c \in CaseIds, NEW sender \in Accounts, challenge(c, sender) PROVE Goal
  BY <1>8, ChallengeContests DEF Goal
<1>9. ASSUME NEW c \in CaseIds, finalizeUnchallenged(c) PROVE Goal
  BY <1>9, FinalizeDecides DEF Goal, finalizeUnchallenged, IsLive
<1>10. ASSUME NEW c \in CaseIds, defaultOverturn(c) PROVE Goal
  BY <1>10, OverturnDecides DEF Goal, defaultOverturn
<1>11. ASSUME NEW c \in CaseIds, NEW id \in EscalationIds, escalateRuling(c, id) PROVE Goal
  <2> DEFINE k == [cases[c] EXCEPT !.escalationId = id]
  <2>1. cases' = [cases EXCEPT ![c] = k]
    BY <1>11 DEF escalateRuling
  <2>2. k.status = cases[c].status /\ k.ruling = cases[c].ruling
    BY DEF TypeOK, Case
  <2> HIDE DEF k
  <2> QED BY <2>1, <2>2, SameView DEF Goal
<1>12. ASSUME NEW id \in EscalationIds, NEW upheld \in BOOLEAN, resolveEscalation(id, upheld)
       PROVE  Goal
  <2> DEFINE c == caseByEscalation[id]
  <2>1. c \in CaseIds
    BY <1>12 DEF resolveEscalation, TypeOK
  <2>2. \/ UNCHANGED cases
        \/ cases[c].status = "CHALLENGED" /\ (_finalize(c) \/ _overturn(c))
    BY <1>12 DEF resolveEscalation, vars
  <2>3. cases[c].status = "CHALLENGED" => IsLive(cases[c])
    BY DEF IsLive
  <2> QED BY <1>1, <2>1, <2>2, <2>3, FinalizeDecides, OverturnDecides DEF Goal
<1> QED BY <1>2, <1>3, <1>4, <1>5, <1>6, <1>7, <1>8, <1>9, <1>10, <1>11, <1>12
        DEF Next, Operate, Participate, AppealLayer

\* Whatever the operator, the challengers and the appeal layer do, a marketplace
\* sees a behaviour of Adjudication: one verdict per paid case, given once and
\* reversed only after a challenge.
THEOREM OracleImplementsAdjudication == Spec => ImplementsAdjudication
<1>1. Init => Marketplace!Init
  BY InitView
<1>2. TypeOK /\ Bookkeeping /\ [Next]_vars => [Marketplace!Next]_(Marketplace!vars)
  BY NextView DEF Marketplace!vars, Phase, Ruling, Verdict
<1> QED BY <1>1, <1>2, TypeCorrect, BooksKept, PTL
        DEF Spec, ImplementsAdjudication, Marketplace!Spec

-----------------------------------------------------------------------------
(* The oracle and the panel *)

\* A step of the pair is a step of the oracle, or leaves it alone.
LEMMA StepOfOracle == [AppealNext]_allVars => [Next]_vars
BY DEF AppealNext, PanelOwner, AppealEscalate, AppealResolve, AppealTimeout, Next, AppealLayer,
       allVars

\* So all that is proved of the oracle holds of it here.
LEMMA OracleInvariants == AppealSpec => [](TypeOK /\ Bookkeeping /\ Records)
<1>1. AppealInit => Init
  BY DEF AppealInit
<1>2. AppealSpec => Spec
  BY <1>1, StepOfOracle, PTL DEF AppealSpec, Spec
<1> QED BY <1>2, TypeCorrect, BooksKept, RecordsKept, PTL

-----------------------------------------------------------------------------
(* The inductive invariant: what the two records say of one another. *)

Request ==
    [caseId : CaseIds \cup {Zero}, ruling : Rulings, reviewers : SUBSET Signers, deadline : Nat,
     resolved : BOOLEAN, upheld : BOOLEAN, signers : SUBSET Signers]

PanelTyped ==
    /\ requests \in [EscalationIds -> Request]
    /\ reviewers \in SUBSET Signers

\* A request belongs to a challenged or decided case that names it, and says of
\* it what the oracle says.
TiedRequest(id) ==
    LET r == requests[id]
        k == cases[r.caseId]
    IN  /\ r.caseId = caseByEscalation[id]
        /\ r.caseId # Zero =>
              /\ k.escalationId = id
              /\ k.status \in {"CHALLENGED", "FINALIZED", "OVERTURNED"}
              /\ k.ruling = r.ruling
        /\ r.resolved =>
              /\ r.caseId # Zero /\ IsFinal(k)
              /\ r.upheld = (k.status = "FINALIZED")

\* Two members of the panel of r upheld the ruling in time.
Reviewed(k, r) ==
    /\ r.resolved /\ r.upheld
    /\ Cardinality(r.signers) = 2 /\ r.signers \subseteq r.reviewers
    /\ k.finalizedAt <= r.deadline

\* k went to the panel inside its window, and was overturned by the panel or late.
InTime(k, r) ==
    /\ r.deadline < k.escalationDeadline + RESOLUTION_WINDOW
    /\ k.status = "OVERTURNED" =>
          \/ k.finalizedAt >= k.escalationDeadline + ESCALATION_RESOLUTION_TIMEOUT
          \/ OverturnedByPanel(k, r)

TiedCase(c) ==
    LET k == cases[c]
    IN  /\ k.escalationId # Zero => caseByEscalation[k.escalationId] = c
        /\ k.status = "FINALIZED" /\ k.challenger # Zero =>
              k.escalationId # Zero /\ Reviewed(k, requests[k.escalationId])
        /\ k.escalationId # Zero => InTime(k, requests[k.escalationId])

Tied ==
    /\ PanelTyped
    /\ \A id \in EscalationIds : TiedRequest(id)
    /\ \A c \in CaseIds : TiedCase(c)

-----------------------------------------------------------------------------

\* What the two settlements make of a case.
Decided(c, k, status) ==
    /\ k \in Case
    /\ cases' = [cases EXCEPT ![c] = k]
    /\ caseByEscalation' = caseByEscalation
    /\ k.status = status /\ k.finalizedAt = now
    /\ k.escalationId = cases[c].escalationId /\ k.challenger = cases[c].challenger
    /\ k.ruling = cases[c].ruling /\ k.escalationDeadline = cases[c].escalationDeadline

\* A finalization.
LEMMA FinalizedCase ==
  ASSUME TypeOK, NEW c \in CaseIds, _finalize(c)
  PROVE  \E k : Decided(c, k, "FINALIZED")
<1> DEFINE k == [cases[c] EXCEPT !.status = "FINALIZED", !.finalizedAt = now, !.challengeBond = 0]
<1>1. cases[c] \in Case /\ now \in Nat
  BY DEF TypeOK
<1>2. cases' = [cases EXCEPT ![c] = k] /\ caseByEscalation' = caseByEscalation
  BY DEF _finalize
<1>3. /\ k \in Case /\ k.status = "FINALIZED" /\ k.finalizedAt = now
      /\ k.escalationId = cases[c].escalationId /\ k.challenger = cases[c].challenger
      /\ k.ruling = cases[c].ruling /\ k.escalationDeadline = cases[c].escalationDeadline
  BY <1>1 DEF Case, Statuses
<1> HIDE DEF k
<1> QED BY <1>2, <1>3 DEF Decided

\* An overturn.
LEMMA OverturnedCase ==
  ASSUME TypeOK, NEW c \in CaseIds, _overturn(c)
  PROVE  \E k : Decided(c, k, "OVERTURNED")
<1> DEFINE refunded == cases[c].feeRefunded \/ caseFee[c] # 0
           k == [cases[c] EXCEPT !.status = "OVERTURNED", !.finalizedAt = now,
                                 !.challengeBond = 0, !.feeRefunded = refunded]
<1>1. cases[c] \in Case /\ now \in Nat /\ refunded \in BOOLEAN
  BY DEF TypeOK
<1>2. cases' = [cases EXCEPT ![c] = k] /\ caseByEscalation' = caseByEscalation
  BY DEF _overturn
<1> HIDE DEF refunded
<1>3. /\ k \in Case /\ k.status = "OVERTURNED" /\ k.finalizedAt = now
      /\ k.escalationId = cases[c].escalationId /\ k.challenger = cases[c].challenger
      /\ k.ruling = cases[c].ruling /\ k.escalationDeadline = cases[c].escalationDeadline
  BY <1>1 DEF Case, Statuses
<1> HIDE DEF k
<1> QED BY <1>2, <1>3 DEF Decided

\* What happens to case c without the panel: an escalated case can only be
\* overturned, and what is finalized was not challenged.
OwnMove(c, k) ==
    /\ k \in Case
    /\ cases' = [cases EXCEPT ![c] = k]
    /\ caseByEscalation' = caseByEscalation
    /\ k.escalationId = cases[c].escalationId
    /\ k.escalationId # Zero =>
          /\ cases[c].status = "CHALLENGED" /\ k.status = "OVERTURNED"
          /\ k.ruling = cases[c].ruling
          /\ k.escalationDeadline = cases[c].escalationDeadline
          /\ k.finalizedAt >= k.escalationDeadline + ESCALATION_RESOLUTION_TIMEOUT
    /\ k.status = "FINALIZED" => k.challenger = Zero

\* Every step the oracle makes on its own is of that kind, or touches no case.
LEMMA OwnSteps ==
  ASSUME TypeOK, Bookkeeping, Records, Tick \/ Operate \/ Participate
  PROVE  \/ cases' = cases /\ caseByEscalation' = caseByEscalation
         \/ \E c \in CaseIds : \E k : OwnMove(c, k)
<1>1. CASE Tick
  BY <1>1 DEF Tick
<1>2. CASE Operate
  <2>1. ASSUME NEW req \in Offers, publishRuling(req)
        PROVE  \E c \in CaseIds : \E k : OwnMove(c, k)
    <3> DEFINE k == [cases[req.caseId] EXCEPT !.provider = req.provider, !.payer = req.payer,
                       !.feePayer = req.feePayer, !.value = req.value, !.ruling = req.ruling,
                       !.status = "PENDING_FEE", !.publishedAt = now]
    <3>1. req \in PublishRequest /\ req.caseId \in CaseIds
      BY BoundAssumption DEF PublishRequest
    <3>2. /\ cases[req.caseId] \in Case /\ RecordKept(cases[req.caseId]) /\ now \in Nat
          /\ cases[req.caseId].status = "NONE"
      BY <2>1, <3>1, CaseFacts DEF publishRuling
    <3>3. k.escalationId = cases[req.caseId].escalationId /\ k.status = "PENDING_FEE"
      BY <3>2 DEF Case
    <3>4. k \in Case
      BY <3>1, <3>2 DEF PublishRequest, Case, Statuses
    <3>5. cases' = [cases EXCEPT ![req.caseId] = k] /\ caseByEscalation' = caseByEscalation
      BY <2>1 DEF publishRuling
    <3>6. cases[req.caseId].escalationId = Zero
      BY <3>2 DEF RecordKept
    <3> HIDE DEF k
    <3>7. OwnMove(req.caseId, k)
      BY <3>3, <3>4, <3>5, <3>6 DEF OwnMove
    <3> QED BY <3>1, <3>7
  <2>2. ASSUME NEW amount \in Amounts, depositBond(amount) \/ withdrawBond(amount)
        PROVE  cases' = cases /\ caseByEscalation' = caseByEscalation
    BY <2>2 DEF depositBond, withdrawBond
  <2>3. ASSUME NEW next \in Treasuries, setTreasury(next)
        PROVE  cases' = cases /\ caseByEscalation' = caseByEscalation
    BY <2>3 DEF setTreasury
  <2>4. CASE withdrawFees
    BY <2>4 DEF withdrawFees
  <2> QED BY <1>2, <2>1, <2>2, <2>3, <2>4 DEF Operate
<1>3. CASE Participate
  <2>1. ASSUME NEW c \in CaseIds, NEW sender \in Accounts, payFee(c, sender)
        PROVE  \E k : OwnMove(c, k)
    <3> DEFINE due == now + CHALLENGE_WINDOW
               k == [cases[c] EXCEPT !.status = "RULED", !.ruledAt = now,
                                     !.challengeDeadline = due]
    <3>1. /\ cases[c] \in Case /\ RecordKept(cases[c]) /\ cases[c].status = "PENDING_FEE"
          /\ now \in Nat /\ due \in Nat
      BY <2>1, CaseFacts, ParameterAssumption DEF payFee
    <3>2. cases' = [cases EXCEPT ![c] = k] /\ caseByEscalation' = caseByEscalation
      BY <2>1 DEF payFee
    <3> HIDE DEF due
    <3>3. /\ k \in Case /\ k.escalationId = cases[c].escalationId /\ k.status = "RULED"
          /\ cases[c].escalationId = Zero
      BY <3>1 DEF Case, Statuses, RecordKept
    <3> HIDE DEF k
    <3> QED BY <3>2, <3>3 DEF OwnMove
  <2>2. ASSUME NEW c \in CaseIds, NEW sender \in Accounts, cancelUnpaid(c, sender)
        PROVE  \E k : OwnMove(c, k)
    <3>1. /\ cases[c].escalationId = Zero
          /\ cases' = [cases EXCEPT ![c] = EmptyCase] /\ caseByEscalation' = caseByEscalation
      BY <2>2, CaseFacts DEF cancelUnpaid, RecordKept
    <3>2. EmptyCase \in Case /\ EmptyCase.escalationId = Zero /\ EmptyCase.status = "NONE"
      BY DEF EmptyCase, Case, Rulings, Statuses
    <3> QED BY <3>1, <3>2 DEF OwnMove
  <2>3. ASSUME NEW c \in CaseIds, NEW sender \in Accounts, challenge(c, sender)
        PROVE  \E k : OwnMove(c, k)
    <3> DEFINE bond == IF sender = Wronged(cases[c]) THEN 0 ELSE challengeBondFor(cases[c].value)
               due == now + ESCALATION_WINDOW
               k == [cases[c] EXCEPT !.status = "CHALLENGED", !.challenger = sender,
                                     !.challengeBond = bond, !.escalationDeadline = due]
    <3>1. /\ cases[c] \in Case /\ RecordKept(cases[c]) /\ cases[c].status = "RULED"
          /\ now \in Nat /\ due \in Nat /\ bond \in Nat
      BY <2>3, CaseFacts, BondType, ParameterAssumption DEF challenge
    <3>2. cases' = [cases EXCEPT ![c] = k] /\ caseByEscalation' = caseByEscalation
      BY <2>3 DEF challenge
    <3> HIDE DEF due, bond
    <3>3. /\ k \in Case /\ k.escalationId = cases[c].escalationId /\ k.status = "CHALLENGED"
          /\ cases[c].escalationId = Zero
      BY <3>1 DEF Case, Statuses, RecordKept
    <3> HIDE DEF k
    <3> QED BY <3>2, <3>3 DEF OwnMove
  <2>4. ASSUME NEW c \in CaseIds, finalizeUnchallenged(c)
        PROVE  \E k : OwnMove(c, k)
    <3>1. PICK k : Decided(c, k, "FINALIZED")
      BY <2>4, FinalizedCase DEF finalizeUnchallenged
    <3>2. RecordKept(cases[c]) /\ cases[c].status = "RULED"
      BY <2>4, CaseFacts DEF finalizeUnchallenged
    <3> QED BY <3>1, <3>2 DEF OwnMove, Decided, RecordKept
  <2>5. ASSUME NEW c \in CaseIds, defaultOverturn(c)
        PROVE  \E k : OwnMove(c, k)
    <3>1. PICK k : Decided(c, k, "OVERTURNED")
      BY <2>5, OverturnedCase DEF defaultOverturn
    <3>2. /\ cases[c].status = "CHALLENGED"
          /\ cases[c].escalationId # Zero =>
                now >= cases[c].escalationDeadline + ESCALATION_RESOLUTION_TIMEOUT
      BY <2>5 DEF defaultOverturn, DefaultDeadline
    <3> QED BY <3>1, <3>2 DEF OwnMove, Decided
  <2> QED BY <1>3, <2>1, <2>2, <2>3, <2>4, <2>5 DEF Participate
<1> QED BY <1>1, <1>2, <1>3
-----------------------------------------------------------------------------

\* Where each request and each case is after one of them changed.
LEMMA OneCase ==
  ASSUME TypeOK, NEW c \in CaseIds, NEW k, cases' = [cases EXCEPT ![c] = k]
  PROVE  \A d \in CaseIds : cases'[d] = IF d = c THEN k ELSE cases[d]
BY DEF TypeOK

\* The oracle on its own: only an overturn touches an escalated case, and no
\* request of such a case was resolved.
LEMMA OwnKeepsTied ==
  ASSUME TypeOK, Tied, NEW c \in CaseIds, NEW k, OwnMove(c, k), UNCHANGED panelVars
  PROVE  Tied'
<1>1. \A d \in CaseIds : cases'[d] = IF d = c THEN k ELSE cases[d]
  BY OneCase DEF OwnMove
<1>2. requests' = requests /\ reviewers' = reviewers /\ caseByEscalation' = caseByEscalation
  BY DEF panelVars, OwnMove
<1>3. PanelTyped'
  BY <1>2 DEF Tied, PanelTyped
<1>4. ASSUME NEW id \in EscalationIds PROVE TiedRequest(id)'
  <2>1. TiedRequest(id) /\ id # Zero /\ requests[id].caseId \in CaseIds \cup {Zero}
    BY AddressAssumption DEF Tied, PanelTyped, Request
  <2>2. CASE requests[id].caseId = c
    BY <1>1, <1>2, <2>1, <2>2 DEF TiedRequest, OwnMove, IsFinal
  <2>3. CASE requests[id].caseId = Zero
    BY <1>2, <2>1, <2>3 DEF TiedRequest
  <2>4. CASE requests[id].caseId \in CaseIds \ {c}
    BY <1>1, <1>2, <2>1, <2>4 DEF TiedRequest, IsFinal
  <2> QED BY <2>1, <2>2, <2>3, <2>4
<1>5. ASSUME NEW d \in CaseIds PROVE TiedCase(d)'
  <2>1. TiedCase(d)
    BY DEF Tied
  <2>2. CASE d = c
    BY <1>1, <1>2, <2>1, <2>2 DEF TiedCase, OwnMove, InTime
  <2>3. CASE d # c
    BY <1>1, <1>2, <2>1, <2>3 DEF TiedCase, Reviewed, InTime, OverturnedByPanel
  <2> QED BY <2>2, <2>3
<1> QED BY <1>3, <1>4, <1>5 DEF Tied

\* A step that touches no case and no request.
LEMMA StillTied ==
  ASSUME Tied, UNCHANGED <<cases, caseByEscalation, requests>>, reviewers' \in SUBSET Signers
  PROVE  Tied'
<1>1. PanelTyped'
  BY DEF Tied, PanelTyped
<1>2. \A id \in EscalationIds : TiedRequest(id)'
  BY DEF Tied, TiedRequest
<1>3. \A c \in CaseIds : TiedCase(c)'
  BY DEF Tied, TiedCase
<1> QED BY <1>1, <1>2, <1>3 DEF Tied

\* The panel changes: only people who may sit on it, none of them address(0).
LEMMA OwnerKeepsTied ==
  ASSUME Tied, PanelOwner, UNCHANGED vars
  PROVE  Tied'
<1>1. UNCHANGED <<cases, caseByEscalation>>
  BY DEF vars
<1>2. CASE Panel!setOracle(Oracle)
  BY <1>1, <1>2, StillTied DEF Panel!setOracle, Tied, PanelTyped
<1>3. ASSUME NEW next \in Panels, Panel!setReviewers(next) PROVE Tied'
  <2>1. next \in Seq(Signers \cup {Zero})
    BY RequestAssumption
  <2>2. reviewers' = {next[i] : i \in DOMAIN next} /\ Zero \notin reviewers' /\ requests' = requests
    BY <1>3 DEF Panel!setReviewers, Panel!Range
  <2>3. reviewers' \in SUBSET Signers
    BY <2>1, <2>2
  <2> QED BY <1>1, <2>2, <2>3, StillTied
<1> QED BY <1>2, <1>3 DEF PanelOwner

\* An escalation ties a new request to a case that had none.
LEMMA EscalateKeepsTied ==
  ASSUME TypeOK, Bookkeeping, Records, Tied, NEW c \in CaseIds, NEW id \in EscalationIds,
         AppealEscalate(c, id)
  PROVE  Tied'
<1> DEFINE due == now + RESOLUTION_WINDOW
           new == [Panel!NoRequest EXCEPT !.caseId = c, !.ruling = cases[c].ruling,
                                          !.reviewers = reviewers, !.deadline = due]
           k == [cases[c] EXCEPT !.escalationId = id]
<1>1. /\ cases[c] \in Case /\ RecordKept(cases[c]) /\ cases[c].status = "CHALLENGED"
      /\ cases[c].escalationId = Zero /\ id # Zero /\ caseByEscalation[id] = Zero
      /\ now \in Nat /\ due \in Nat /\ due < cases[c].escalationDeadline + RESOLUTION_WINDOW
  <2>1. /\ cases[c] \in Case /\ RecordKept(cases[c]) /\ cases[c].status = "CHALLENGED"
        /\ cases[c].escalationId = Zero /\ id # Zero /\ caseByEscalation[id] = Zero
        /\ now \in Nat /\ now < cases[c].escalationDeadline
    BY CaseFacts DEF AppealEscalate, escalateRuling
  <2>2. cases[c].escalationDeadline \in Nat
    BY <2>1 DEF Case
  <2> QED BY <2>1, <2>2, RequestAssumption
<1>2. requests' = [requests EXCEPT ![id] = new] /\ reviewers' = reviewers
  BY DEF AppealEscalate, Panel!escalate
<1>3. cases' = [cases EXCEPT ![c] = k] /\ caseByEscalation' = [caseByEscalation EXCEPT ![id] = c]
  BY DEF AppealEscalate, escalateRuling
<1> HIDE DEF due
<1>4. /\ new \in Request /\ new.caseId = c /\ new.ruling = cases[c].ruling /\ ~new.resolved
      /\ new.deadline = due
  BY <1>1 DEF Panel!NoRequest, Request, Tied, PanelTyped, Case, Rulings
<1>5. /\ k.escalationId = id /\ k.status = "CHALLENGED" /\ k.ruling = cases[c].ruling
      /\ k.escalationDeadline = cases[c].escalationDeadline
  BY <1>1 DEF Case
<1> HIDE DEF new, k
<1>6. \A d \in CaseIds : cases'[d] = IF d = c THEN k ELSE cases[d]
  BY <1>3, OneCase
<1>7. \A x \in EscalationIds : /\ requests'[x] = IF x = id THEN new ELSE requests[x]
                               /\ caseByEscalation'[x] = IF x = id THEN c ELSE caseByEscalation[x]
  BY <1>2, <1>3 DEF Tied, PanelTyped, TypeOK
<1>8. PanelTyped'
  BY <1>2, <1>4 DEF Tied, PanelTyped
<1>9. ASSUME NEW x \in EscalationIds PROVE TiedRequest(x)'
  <2>1. TiedRequest(x) /\ requests[x].caseId \in CaseIds \cup {Zero} /\ x # Zero /\ c # Zero
    BY AddressAssumption DEF Tied, PanelTyped, Request
  <2>2. CASE x = id
    BY <1>4, <1>5, <1>6, <1>7, <2>1, <2>2 DEF TiedRequest
  <2>3. CASE x # id
    <3>1. requests[x].caseId # c
      BY <1>1, <2>1 DEF TiedRequest
    <3> QED BY <1>6, <1>7, <2>1, <2>3, <3>1 DEF TiedRequest, IsFinal
  <2> QED BY <2>2, <2>3
<1>10. ASSUME NEW d \in CaseIds PROVE TiedCase(d)'
  <2>1. TiedCase(d) /\ d # Zero /\ cases[d].escalationId \in EscalationIds \cup {Zero}
    BY AddressAssumption DEF Tied, TypeOK, Case
  <2>2. CASE d = c
    BY <1>1, <1>4, <1>5, <1>6, <1>7, <2>2 DEF TiedCase, InTime
  <2>3. CASE d # c
    <3>1. cases[d].escalationId # id
      BY <1>1, <2>1 DEF TiedCase
    <3> QED BY <1>1, <1>6, <1>7, <2>1, <2>3, <3>1
            DEF TiedCase, Reviewed, InTime, OverturnedByPanel
  <2> QED BY <2>2, <2>3
<1> QED BY <1>8, <1>9, <1>10 DEF Tied

\* Request id is closed as r.
Closed(id, r, upheld, signers) ==
    /\ r \in Request
    /\ requests' = [requests EXCEPT ![id] = r] /\ reviewers' = reviewers
    /\ r.caseId = requests[id].caseId /\ r.ruling = requests[id].ruling
    /\ r.reviewers = requests[id].reviewers /\ r.deadline = requests[id].deadline
    /\ r.resolved /\ r.upheld = upheld /\ r.signers = signers

\* Closing a request changes nothing else of it.
LEMMA ClosedRequest ==
  ASSUME PanelTyped, NEW id \in EscalationIds, NEW upheld \in BOOLEAN,
         NEW signers \in SUBSET Signers, Panel!Close(id, upheld, signers)
  PROVE  \E r : Closed(id, r, upheld, signers)
<1> DEFINE r == [requests[id] EXCEPT !.resolved = TRUE, !.upheld = upheld, !.signers = signers]
<1>1. requests[id] \in Request
  BY DEF PanelTyped
<1>2. requests' = [requests EXCEPT ![id] = r] /\ reviewers' = reviewers
  BY DEF Panel!Close
<1>3. /\ r \in Request /\ r.caseId = requests[id].caseId /\ r.ruling = requests[id].ruling
      /\ r.reviewers = requests[id].reviewers /\ r.deadline = requests[id].deadline
      /\ r.resolved /\ r.upheld = upheld /\ r.signers = signers
  BY <1>1 DEF Request
<1> HIDE DEF r
<1> QED BY <1>2, <1>3 DEF Closed

\* The oracle decided first: the request takes over what it decided.
LEMMA IgnoredKeepsTied ==
  ASSUME TypeOK, Bookkeeping, Tied, NEW id \in EscalationIds, Panel!Open(id),
         IgnoredByPanel(id), Panel!Ignore(id, FinalRuling(id)), UNCHANGED vars
  PROVE  Tied'
<1>1. PICK c \in CaseIds : c = requests[id].caseId
  BY DEF Panel!Open, Tied, PanelTyped, Request
<1>2. PICK upheld \in BOOLEAN : upheld = (FinalRuling(id) = requests[id].ruling)
  OBVIOUS
<1>3. PICK r : Closed(id, r, upheld, {})
  BY <1>2, ClosedRequest DEF Panel!Ignore, Tied
<1>4. cases' = cases /\ caseByEscalation' = caseByEscalation
  BY DEF vars
<1>5. \A x \in EscalationIds : requests'[x] = IF x = id THEN r ELSE requests[x]
  BY <1>3 DEF Closed, Tied, PanelTyped
<1>6. TiedRequest(id) /\ ~requests[id].resolved /\ id # Zero
  BY AddressAssumption DEF Panel!Open, Tied
<1>7. IsFinal(cases[c]) /\ upheld = (cases[c].status = "FINALIZED")
  <2>1. cases[c].ruling \in {"PAY", "REFUND"} /\ cases[c].ruling = requests[id].ruling
    BY <1>1, <1>6, AddressAssumption DEF TiedRequest, Bookkeeping, CaseWellFormed
  <2>2. outcome(c) # "NONE"
    BY <1>1 DEF IgnoredByPanel, FinalRuling
  <2>3. IsFinal(cases[c])
    BY <2>2 DEF outcome, IsFinal
  <2>4. outcome(c) = IF cases[c].status = "FINALIZED" THEN cases[c].ruling ELSE Flipped(cases[c].ruling)
    BY <2>3 DEF outcome, IsFinal
  <2>5. upheld = (outcome(c) = requests[id].ruling)
    BY <1>1, <1>2 DEF FinalRuling
  <2> QED BY <2>1, <2>3, <2>4, <2>5 DEF Flipped
<1>8. PanelTyped'
  BY <1>3 DEF Closed, Tied, PanelTyped
<1>9. ASSUME NEW x \in EscalationIds PROVE TiedRequest(x)'
  <2>1. TiedRequest(x) /\ c # Zero
    BY AddressAssumption DEF Tied
  <2>2. CASE x = id
    BY <1>1, <1>3, <1>4, <1>5, <1>7, <2>1, <2>2 DEF TiedRequest, Closed, IsFinal
  <2>3. CASE x # id
    BY <1>4, <1>5, <2>1, <2>3 DEF TiedRequest
  <2> QED BY <2>2, <2>3
<1>10. ASSUME NEW d \in CaseIds PROVE TiedCase(d)'
  <2>1. TiedCase(d) /\ cases[d].escalationId \in EscalationIds \cup {Zero}
    BY DEF Tied, TypeOK, Case
  <2>2. d = c => cases[d].escalationId = id
    BY <1>1, <1>6, AddressAssumption DEF TiedRequest
  <2>3. cases[d].escalationId = id => ~ (cases[d].status = "FINALIZED" /\ cases[d].challenger # Zero)
    BY <1>6, <2>1 DEF TiedCase, Reviewed
  <2>4. CASE cases[d].escalationId = id
    BY <1>3, <1>4, <1>5, <1>6, <2>1, <2>3, <2>4
       DEF TiedCase, InTime, OverturnedByPanel, Closed
  <2>5. CASE cases[d].escalationId # id
    BY <1>4, <1>5, <2>1, <2>5 DEF TiedCase, Reviewed, InTime, OverturnedByPanel
  <2> QED BY <2>4, <2>5
<1> QED BY <1>8, <1>9, <1>10 DEF Tied

\* The panel decides: the case and its request close with the same verdict, and
\* the ruling stands only with two signers of the panel that was copied.
LEMMA DecisionKeepsTied ==
  ASSUME TypeOK, Bookkeeping, Tied, NEW id \in EscalationIds, Panel!Open(id), ~IgnoredByPanel(id),
         NEW upheld \in BOOLEAN, NEW signers \in SUBSET Signers,
         Panel!Close(id, upheld, signers), resolveEscalation(id, upheld),
         \/ /\ Cardinality(signers) = 2 /\ signers \subseteq requests[id].reviewers
            /\ now <= requests[id].deadline
         \/ ~upheld /\ signers = {} /\ now > requests[id].deadline
  PROVE  Tied'
<1>1. PICK c \in CaseIds : c = requests[id].caseId
  BY DEF Panel!Open, Tied, PanelTyped, Request
<1>2. /\ TiedRequest(id) /\ ~requests[id].resolved /\ id # Zero /\ c # Zero
      /\ c = caseByEscalation[id]
  BY <1>1, AddressAssumption DEF Panel!Open, Tied, TiedRequest
<1>3. PICK r : Closed(id, r, upheld, signers)
  BY ClosedRequest DEF Tied
<1>4. ~IsFinal(cases[c])
  <2>1. cases[c].ruling \in {"PAY", "REFUND"}
    BY <1>1, <1>2 DEF TiedRequest, Bookkeeping, CaseWellFormed
  <2>2. outcome(c) = "NONE"
    BY <1>1 DEF IgnoredByPanel, FinalRuling
  <2>3. cases[c].status = "FINALIZED" => outcome(c) = cases[c].ruling
    BY DEF outcome
  <2>4. cases[c].status = "OVERTURNED" => outcome(c) = Flipped(cases[c].ruling)
    BY DEF outcome
  <2> QED BY <2>1, <2>2, <2>3, <2>4 DEF IsFinal, Flipped
<1>5. PICK k : Decided(c, k, IF upheld THEN "FINALIZED" ELSE "OVERTURNED")
  <2>1. IF upheld THEN _finalize(c) ELSE _overturn(c)
    BY <1>2, <1>4 DEF resolveEscalation
  <2> QED BY <2>1, FinalizedCase, OverturnedCase
<1>6. \A d \in CaseIds : cases'[d] = IF d = c THEN k ELSE cases[d]
  BY <1>5, OneCase DEF Decided
<1>7. \A x \in EscalationIds : requests'[x] = IF x = id THEN r ELSE requests[x]
  BY <1>3 DEF Closed, Tied, PanelTyped
<1>8. caseByEscalation' = caseByEscalation /\ k.escalationId = id /\ k.ruling = cases[c].ruling
  BY <1>1, <1>2, <1>5 DEF Decided, TiedRequest
<1>9. PanelTyped'
  BY <1>3 DEF Closed, Tied, PanelTyped
<1>10. ASSUME NEW x \in EscalationIds PROVE TiedRequest(x)'
  <2>1. TiedRequest(x) /\ requests[x].caseId \in CaseIds \cup {Zero}
    BY DEF Tied, PanelTyped, Request
  <2>2. CASE x = id
    <3>1. r.caseId = c /\ r.ruling = k.ruling /\ r.resolved /\ r.upheld = upheld
      BY <1>1, <1>2, <1>3, <1>8 DEF Closed, TiedRequest
    <3>2. k.status = IF upheld THEN "FINALIZED" ELSE "OVERTURNED"
      BY <1>5 DEF Decided
    <3>3. requests'[x] = r /\ cases'[c] = k /\ caseByEscalation'[x] = c
      BY <1>2, <1>6, <1>7, <1>8, <2>2
    <3> QED BY <1>2, <1>8, <2>2, <3>1, <3>2, <3>3 DEF TiedRequest, IsFinal
  <2>3. CASE x # id
    <3>1. requests[x].caseId # c
      BY <1>1, <1>2, <2>1, <2>3 DEF TiedRequest
    <3> QED BY <1>6, <1>7, <1>8, <2>1, <2>3, <3>1 DEF TiedRequest, IsFinal
  <2> QED BY <2>2, <2>3
<1>11. ASSUME NEW d \in CaseIds PROVE TiedCase(d)'
  <2>1. TiedCase(d) /\ cases[d].escalationId \in EscalationIds \cup {Zero}
    BY DEF Tied, TypeOK, Case
  <2>2. CASE d = c
    <3>1. cases'[d] = k /\ requests'[id] = r
      BY <1>6, <1>7, <2>2
    <3>2. k.status = "FINALIZED" => Reviewed(k, r)
      BY <1>3, <1>5 DEF Decided, Closed, Reviewed
    <3>3. InTime(k, r)
      <4>1. InTime(cases[c], requests[id])
        BY <1>1, <1>2, <2>1, <2>2 DEF TiedCase, TiedRequest
      <4>2. /\ k.escalationDeadline = cases[c].escalationDeadline
            /\ r.deadline = requests[id].deadline
        BY <1>3, <1>5 DEF Decided, Closed
      <4>3. k.status = "OVERTURNED" => OverturnedByPanel(k, r)
        BY <1>3, <1>5 DEF Decided, Closed, OverturnedByPanel
      <4> QED BY <4>1, <4>2, <4>3 DEF InTime
    <3> QED BY <1>2, <1>8, <2>2, <3>1, <3>2, <3>3 DEF TiedCase, Reviewed
  <2>3. CASE d # c
    <3>1. cases[d].escalationId # id
      BY <1>2, <2>1, <2>3 DEF TiedCase
    <3> QED BY <1>6, <1>7, <1>8, <2>1, <2>3, <3>1
            DEF TiedCase, Reviewed, InTime, OverturnedByPanel
  <2> QED BY <2>2, <2>3
<1> QED BY <1>9, <1>10, <1>11 DEF Tied

-----------------------------------------------------------------------------

\* resolve: two different signatures of the copied panel, or the oracle was first.
LEMMA ResolveKeepsTied ==
  ASSUME TypeOK, Bookkeeping, Tied, NEW id \in EscalationIds, NEW upheld \in BOOLEAN,
         NEW signatures \in SignatureLists, AppealResolve(id, upheld, signatures)
  PROVE  Tied'
<1>1. Panel!Open(id)
  BY DEF AppealResolve
<1>2. CASE IgnoredByPanel(id)
  <2>1. Panel!Ignore(id, FinalRuling(id)) /\ UNCHANGED vars
    BY <1>2 DEF AppealResolve, Panel!resolve, IgnoredByPanel
  <2> QED BY <1>1, <1>2, <2>1, IgnoredKeepsTied
<1>3. CASE ~IgnoredByPanel(id)
  <2>1. /\ now <= requests[id].deadline
        /\ Len(signatures) = 2 /\ signatures[1] # signatures[2]
        /\ Panel!Range(signatures) \subseteq requests[id].reviewers
        /\ Panel!Close(id, upheld, Panel!Range(signatures))
        /\ resolveEscalation(id, upheld)
    BY <1>3 DEF AppealResolve, Panel!resolve, IgnoredByPanel, Panel!REQUIRED_SIGNATURES
  <2>2. signatures \in Seq(Signers) /\ DOMAIN signatures = {1, 2}
    BY <2>1, RequestAssumption
  <2>3. Panel!Range(signatures) = {signatures[1], signatures[2]}
    BY <2>2 DEF Panel!Range
  <2>4. signatures[1] \in Signers /\ signatures[2] \in Signers
    <3>1. signatures \in Seq(Signers)
      BY <2>2
    <3>2. PICK s \in Seq(Signers) : s = signatures
      BY <3>1
    <3>3. \A i \in 1 .. Len(s) : s[i] \in Signers
      OBVIOUS
    <3> QED BY <2>1, <3>2, <3>3
  <2>5. Cardinality({signatures[1], signatures[2]}) = 2
    <3>1. /\ IsFiniteSet({signatures[1]}) /\ Cardinality({signatures[1]}) = 1
          /\ signatures[2] \notin {signatures[1]}
      BY <2>1, FS_Singleton
    <3>2. Cardinality({signatures[1]} \cup {signatures[2]}) = 1 + 1
      BY <3>1, FS_AddElement
    <3>3. {signatures[1]} \cup {signatures[2]} = {signatures[1], signatures[2]}
      OBVIOUS
    <3> QED BY <3>2, <3>3
  <2>6. PICK signers \in SUBSET Signers : signers = {signatures[1], signatures[2]}
    BY <2>4
  <2> QED BY <1>1, <1>3, <2>1, <2>3, <2>5, <2>6, DecisionKeepsTied
<1> QED BY <1>2, <1>3

\* timeout: the challenge succeeds, or the oracle was first.
LEMMA TimeoutKeepsTied ==
  ASSUME TypeOK, Bookkeeping, Tied, NEW id \in EscalationIds, AppealTimeout(id)
  PROVE  Tied'
<1>1. Panel!Open(id)
  BY DEF AppealTimeout
<1>2. CASE IgnoredByPanel(id)
  <2>1. Panel!Ignore(id, FinalRuling(id)) /\ UNCHANGED vars
    BY <1>2 DEF AppealTimeout, Panel!timeout, IgnoredByPanel
  <2> QED BY <1>1, <1>2, <2>1, IgnoredKeepsTied
<1>3. CASE ~IgnoredByPanel(id)
  <2>1. /\ Panel!Close(id, FALSE, {}) /\ resolveEscalation(id, FALSE)
        /\ now > requests[id].deadline
    BY <1>3 DEF AppealTimeout, Panel!timeout, IgnoredByPanel
  <2> QED BY <1>1, <1>3, <2>1, DecisionKeepsTied
<1> QED BY <1>2, <1>3

\* Nothing is tied at deployment.
LEMMA InitTied == AppealInit => Tied
<1> SUFFICES ASSUME AppealInit PROVE Tied
  OBVIOUS
<1>1. \A id \in EscalationIds : requests[id] = Panel!NoRequest /\ caseByEscalation[id] = Zero
  BY DEF AppealInit, Init, Panel!PanelInit
<1>2. Panel!NoRequest \in Request /\ Panel!NoRequest.caseId = Zero /\ ~Panel!NoRequest.resolved
  BY DEF Panel!NoRequest, Request, Rulings
<1>3. PanelTyped
  BY <1>1, <1>2 DEF AppealInit, Panel!PanelInit, PanelTyped
<1>4. \A c \in CaseIds : TiedCase(c)
  BY DEF AppealInit, Init, EmptyCase, TiedCase
<1> QED BY <1>1, <1>2, <1>3, <1>4 DEF Tied, TiedRequest

\* Every step of the pair keeps the two records tied.
LEMMA NextTied ==
  ASSUME TypeOK, Bookkeeping, Records, Tied, [AppealNext]_allVars
  PROVE  Tied'
<1>1. CASE UNCHANGED allVars
  <2>1. UNCHANGED <<cases, caseByEscalation, requests, reviewers>>
    BY <1>1 DEF allVars, vars, panelVars
  <2> QED BY <2>1, StillTied DEF Tied, PanelTyped
<1>2. CASE (Tick \/ Operate \/ Participate) /\ UNCHANGED panelVars
  <2>1. CASE cases' = cases /\ caseByEscalation' = caseByEscalation
    BY <1>2, <2>1, StillTied DEF panelVars, Tied, PanelTyped
  <2>2. CASE \E c \in CaseIds : \E k : OwnMove(c, k)
    BY <1>2, <2>2, OwnKeepsTied
  <2> QED BY <1>2, <2>1, <2>2, OwnSteps
<1>3. CASE PanelOwner /\ UNCHANGED vars
  BY <1>3, OwnerKeepsTied
<1>4. ASSUME NEW c \in CaseIds, NEW id \in EscalationIds, AppealEscalate(c, id) PROVE Tied'
  BY <1>4, EscalateKeepsTied
<1>5. ASSUME NEW id \in EscalationIds, NEW upheld \in BOOLEAN, NEW signatures \in SignatureLists,
             AppealResolve(id, upheld, signatures)
      PROVE  Tied'
  BY <1>5, ResolveKeepsTied
<1>6. ASSUME NEW id \in EscalationIds, AppealTimeout(id) PROVE Tied'
  BY <1>6, TimeoutKeepsTied
<1> QED BY <1>1, <1>2, <1>3, <1>4, <1>5, <1>6 DEF AppealNext

\* The two records stay tied for ever.
THEOREM RecordsTied == AppealSpec => []Tied
BY InitTied, NextTied, OracleInvariants, PTL DEF AppealSpec

\* The links the two contracts keep to one another always match.
THEOREM LinksMatch == AppealSpec => []RequestsMatchCases
<1>1. Tied => RequestsMatchCases
  BY DEF Tied, TiedRequest, RequestsMatchCases
<1> QED BY <1>1, RecordsTied, PTL

\* The two contracts never disagree on a verdict, whichever decided first.
THEOREM OneVerdict == AppealSpec => []PanelAgreesWithOracle
<1>1. TypeOK /\ Bookkeeping /\ Tied => PanelAgreesWithOracle
  <2> SUFFICES ASSUME TypeOK, Bookkeeping, Tied, NEW id \in EscalationIds, requests[id].resolved
               PROVE  /\ FinalRuling(id) # "NONE"
                      /\ requests[id].upheld = (FinalRuling(id) = requests[id].ruling)
    BY DEF PanelAgreesWithOracle
  <2>1. PICK c \in CaseIds : c = requests[id].caseId
    BY DEF Tied, TiedRequest, PanelTyped, Request
  <2>2. /\ IsFinal(cases[c]) /\ cases[c].ruling = requests[id].ruling
        /\ requests[id].upheld = (cases[c].status = "FINALIZED")
    BY <2>1 DEF Tied, TiedRequest
  <2>3. cases[c].ruling \in {"PAY", "REFUND"}
    BY <2>2 DEF Bookkeeping, CaseWellFormed, IsFinal
  <2>4. FinalRuling(id) = IF cases[c].status = "FINALIZED" THEN cases[c].ruling
                          ELSE Flipped(cases[c].ruling)
    BY <2>1, <2>2 DEF FinalRuling, outcome, IsFinal
  <2> QED BY <2>2, <2>3, <2>4 DEF Flipped
<1> QED BY <1>1, RecordsTied, OracleInvariants, PTL

\* Every window stays open for as long as it is promised, on every path to a verdict:
\* challenge, escalation, the panel's own and the default of an escalated case.
THEOREM WindowsAreKept == AppealSpec => []WindowsRespected
<1>1. Records /\ Tied => WindowsRespected
  BY DEF Records, RecordKept, Tied, TiedCase, InTime, WindowsRespected
<1> QED BY <1>1, RecordsTied, OracleInvariants, PTL

\* No challenger loses a bond to silence, to one reviewer or to another panel.
THEOREM OnlyReviewersUphold == AppealSpec => []ChallengeFailsOnlyByReview
<1>1. Tied => ChallengeFailsOnlyByReview
  BY DEF Tied, TiedCase, Reviewed, ChallengeFailsOnlyByReview
<1> QED BY <1>1, RecordsTied, PTL

=============================================================================
