----------------------- MODULE ReputationOracleProofs -----------------------
(***************************************************************************)
(* Proofs about the reputation oracle for every set of accounts, every     *)
(* number of completions and every value of bonds, slash and windows: the  *)
(* ETH is accounted for, the counters are exact, what was found fraudulent *)
(* stays without a receipt, stake cannot leave while it is at risk, and no *)
(* score rises unless its agent did something for it.                      *)
(***************************************************************************)
EXTENDS ReputationOracle, SumTheorems

Completion ==
    [agent : Accounts \cup {Zero}, timestamp : Nat, challenged : BOOLEAN, disputed : BOOLEAN,
     counterparty : Accounts \cup {Zero}]

Challenge ==
    [challenger : Accounts \cup {Zero}, timestamp : Nat, resolved : BOOLEAN, deadline : Nat,
     contested : BOOLEAN]

Typed ==
    /\ now \in Nat /\ nextCompletionId \in 0..MaxCompletions
    /\ completions \in [Ids -> Completion]
    /\ challenges \in [Ids -> Challenge]
    /\ completionCount \in [Accounts -> Int] /\ confirmedCount \in [Accounts -> Int]
    /\ disputeCount \in [Accounts -> Int] /\ pendingChallenges \in [Accounts -> Int]
    /\ counterpartyConfirmations \in [Accounts -> [Accounts -> Int]]
    /\ distinctCounterparties \in [Accounts -> Int]
    /\ stake \in [Accounts -> Nat] /\ pendingWithdrawals \in [Accounts -> Nat]
    /\ stakeUnlockAt \in [Accounts -> Nat]
    /\ slashedEthPool \in Nat

\* What one completion with its challenge must be like.
SoundEntry(k, h) ==
    /\ k.agent = Zero => ~k.challenged /\ k.counterparty = Zero
    /\ k.challenged => h.challenger \in Accounts
    /\ k.disputed => k.challenged /\ h.resolved /\ k.counterparty = Zero

Sound ==
    /\ \A id \in Ids : SoundEntry(completions[id], challenges[id])
    /\ \A id \in Ids : Exists(id) =>
          /\ id <= nextCompletionId
          /\ completions[id].timestamp <= now
          /\ completions[id].timestamp + CHALLENGE_ELIGIBILITY <= stakeUnlockAt[Agent(id)]

MineOf(a) == {id \in Ids : Agent(id) = a}
DisputedOf(a) == {id \in Ids : Agent(id) = a /\ completions[id].disputed}
PendingOf(a) == {id \in Ids : Agent(id) = a /\ Pending(id)}
ConfirmedOf(a) == {id \in Ids : Agent(id) = a /\ completions[id].counterparty # Zero}
SignedOf(a, r) == {id \in Ids : Agent(id) = a /\ completions[id].counterparty = r}
PartnersOf(a) == {r \in Accounts : counterpartyConfirmations[a][r] # 0}
AllPending == {id \in Ids : Pending(id)}

Counted ==
    \A a \in Accounts :
        /\ completionCount[a] = Cardinality(MineOf(a))
        /\ disputeCount[a] = Cardinality(DisputedOf(a))
        /\ pendingChallenges[a] = Cardinality(PendingOf(a))
        /\ confirmedCount[a] = Cardinality(ConfirmedOf(a))
        /\ \A r \in Accounts : counterpartyConfirmations[a][r] = Cardinality(SignedOf(a, r))
        /\ distinctCounterparties[a] = Cardinality(PartnersOf(a))

owedTo == [a \in Accounts |-> stake[a] + pendingWithdrawals[a]]

Booked == eth = Total(owedTo, Accounts) + CHALLENGE_BOND * Cardinality(AllPending) + slashedEthPool

IInv == Typed /\ Sound /\ Counted /\ Booked

-----------------------------------------------------------------------------
(* Sets and sums *)

One(p) == IF p THEN 1 ELSE 0

LEMMA IdsFinite == IsFiniteSet(Ids)
BY FS_Interval, AmountAssumption DEF Ids

LEMMA OwedType == Typed => owedTo \in [Accounts -> Int] /\ Total(owedTo, Accounts) \in Int
BY AccountAssumption, TotalType DEF Typed, owedTo

LEMMA PendingType == Cardinality(AllPending) \in Nat
BY IdsFinite, FS_Subset, FS_CardinalityType DEF AllPending

\* The sets are finite.
LEMMA CountTypes ==
  ASSUME NEW a \in Accounts
  PROVE  /\ Cardinality(MineOf(a)) \in Nat /\ Cardinality(DisputedOf(a)) \in Nat
         /\ Cardinality(PendingOf(a)) \in Nat /\ Cardinality(ConfirmedOf(a)) \in Nat
         /\ \A r \in Accounts : Cardinality(SignedOf(a, r)) \in Nat
<1>1. \A A \in SUBSET Ids : Cardinality(A) \in Nat
  BY IdsFinite, FS_Subset, FS_CardinalityType
<1>2. /\ MineOf(a) \in SUBSET Ids /\ DisputedOf(a) \in SUBSET Ids /\ PendingOf(a) \in SUBSET Ids
      /\ ConfirmedOf(a) \in SUBSET Ids /\ \A r \in Accounts : SignedOf(a, r) \in SUBSET Ids
  BY DEF MineOf, DisputedOf, PendingOf, ConfirmedOf, SignedOf
<1> QED BY <1>1, <1>2

\* One entry more, one entry less.
LEMMA OneMore ==
  ASSUME NEW A \in SUBSET Ids, NEW id \in Ids, id \notin A
  PROVE  Cardinality(A \cup {id}) = Cardinality(A) + 1
<1>1. IsFiniteSet(A)
  BY IdsFinite, FS_Subset
<1> QED BY <1>1, FS_AddElement, Zenon

\* What a change to one completion or its challenge does to the sets that are counted.
LEMMA EntryCounts ==
  ASSUME NEW id \in Ids, NEW a \in Accounts, Agent(id) = a, completions'[id].agent = a,
         \A x \in Ids : x # id => completions'[x] = completions[x] /\ challenges'[x] = challenges[x]
  PROVE  /\ \A b \in Accounts :
              /\ MineOf(b)' = MineOf(b)
              /\ Cardinality(DisputedOf(b)') =
                    Cardinality(DisputedOf(b)) + One(b = a /\ completions'[id].disputed)
                                               - One(b = a /\ completions[id].disputed)
              /\ Cardinality(PendingOf(b)') =
                    Cardinality(PendingOf(b)) + One(b = a /\ Pending(id)')
                                              - One(b = a /\ Pending(id))
              /\ Cardinality(ConfirmedOf(b)') =
                    Cardinality(ConfirmedOf(b))
                       + One(b = a /\ completions'[id].counterparty # Zero)
                       - One(b = a /\ completions[id].counterparty # Zero)
              /\ \A r \in Accounts :
                    Cardinality(SignedOf(b, r)') =
                       Cardinality(SignedOf(b, r))
                          + One(b = a /\ completions'[id].counterparty = r)
                          - One(b = a /\ completions[id].counterparty = r)
         /\ Cardinality(AllPending') =
               Cardinality(AllPending) + One(Pending(id)') - One(Pending(id))
<1>1. Ids' = Ids
  BY DEF Ids
<1>2. ASSUME NEW A \in SUBSET Ids, NEW B \in SUBSET Ids, A \ {id} = B \ {id}
      PROVE  Cardinality(B) = Cardinality(A) + One(id \in B) - One(id \in A)
  BY <1>2, IdsFinite, CountChange DEF One
<1>3. ASSUME NEW b \in Accounts
      PROVE  MineOf(b)' = MineOf(b)
  BY <1>1 DEF MineOf, Agent
<1>4. ASSUME NEW b \in Accounts
      PROVE  Cardinality(DisputedOf(b)') =
                Cardinality(DisputedOf(b)) + One(b = a /\ completions'[id].disputed)
                                           - One(b = a /\ completions[id].disputed)
  <2>1. /\ DisputedOf(b) \in SUBSET Ids /\ DisputedOf(b)' \in SUBSET Ids
        /\ DisputedOf(b) \ {id} = DisputedOf(b)' \ {id}
        /\ id \in DisputedOf(b) <=> b = a /\ completions[id].disputed
        /\ id \in DisputedOf(b)' <=> b = a /\ completions'[id].disputed
    BY <1>1 DEF DisputedOf, Agent
  <2>2. Cardinality(DisputedOf(b)') =
           Cardinality(DisputedOf(b)) + One(id \in DisputedOf(b)') - One(id \in DisputedOf(b))
    BY <1>2, <2>1
  <2> QED BY <2>1, <2>2 DEF One
<1>5. /\ Pending(id)' <=> completions'[id].challenged /\ ~challenges'[id].resolved
      /\ \A x \in Ids : x # id => (Pending(x)' <=> Pending(x))
  BY DEF Pending
<1>6. ASSUME NEW b \in Accounts
      PROVE  Cardinality(PendingOf(b)') =
                Cardinality(PendingOf(b)) + One(b = a /\ Pending(id)')
                                          - One(b = a /\ Pending(id))
  <2>1. /\ PendingOf(b) \in SUBSET Ids /\ PendingOf(b)' \in SUBSET Ids
        /\ PendingOf(b) \ {id} = PendingOf(b)' \ {id}
        /\ id \in PendingOf(b) <=> b = a /\ Pending(id)
        /\ id \in PendingOf(b)' <=> b = a /\ Pending(id)'
    BY <1>1, <1>5 DEF PendingOf, Agent, Pending
  <2>2. Cardinality(PendingOf(b)') =
           Cardinality(PendingOf(b)) + One(id \in PendingOf(b)') - One(id \in PendingOf(b))
    BY <1>2, <2>1
  <2> QED BY <2>1, <2>2 DEF One
<1>7. ASSUME NEW b \in Accounts
      PROVE  Cardinality(ConfirmedOf(b)') =
                Cardinality(ConfirmedOf(b))
                   + One(b = a /\ completions'[id].counterparty # Zero)
                   - One(b = a /\ completions[id].counterparty # Zero)
  <2>1. /\ ConfirmedOf(b) \in SUBSET Ids /\ ConfirmedOf(b)' \in SUBSET Ids
        /\ ConfirmedOf(b) \ {id} = ConfirmedOf(b)' \ {id}
        /\ id \in ConfirmedOf(b) <=> b = a /\ completions[id].counterparty # Zero
        /\ id \in ConfirmedOf(b)' <=> b = a /\ completions'[id].counterparty # Zero
    BY <1>1 DEF ConfirmedOf, Agent
  <2>2. Cardinality(ConfirmedOf(b)') =
           Cardinality(ConfirmedOf(b)) + One(id \in ConfirmedOf(b)') - One(id \in ConfirmedOf(b))
    BY <1>2, <2>1
  <2> QED BY <2>1, <2>2 DEF One
<1>8. ASSUME NEW b \in Accounts, NEW r \in Accounts
      PROVE  Cardinality(SignedOf(b, r)') =
                Cardinality(SignedOf(b, r))
                   + One(b = a /\ completions'[id].counterparty = r)
                   - One(b = a /\ completions[id].counterparty = r)
  <2>1. /\ SignedOf(b, r) \in SUBSET Ids /\ SignedOf(b, r)' \in SUBSET Ids
        /\ SignedOf(b, r) \ {id} = SignedOf(b, r)' \ {id}
        /\ id \in SignedOf(b, r) <=> b = a /\ completions[id].counterparty = r
        /\ id \in SignedOf(b, r)' <=> b = a /\ completions'[id].counterparty = r
    BY <1>1 DEF SignedOf, Agent
  <2>2. Cardinality(SignedOf(b, r)') =
           Cardinality(SignedOf(b, r)) + One(id \in SignedOf(b, r)') - One(id \in SignedOf(b, r))
    BY <1>2, <2>1
  <2> QED BY <2>1, <2>2 DEF One
<1>9. Cardinality(AllPending') = Cardinality(AllPending) + One(Pending(id)') - One(Pending(id))
  <2>1. /\ AllPending \in SUBSET Ids /\ AllPending' \in SUBSET Ids
        /\ AllPending \ {id} = AllPending' \ {id}
        /\ id \in AllPending <=> Pending(id)
        /\ id \in AllPending' <=> Pending(id)'
    BY <1>1, <1>5 DEF AllPending, Pending
  <2>2. Cardinality(AllPending') =
           Cardinality(AllPending) + One(id \in AllPending') - One(id \in AllPending)
    BY <1>2, <2>1
  <2> QED BY <2>1, <2>2 DEF One
<1> QED BY <1>3, <1>4, <1>6, <1>7, <1>8, <1>9

\* Counters that follow that change stay exact.
LEMMA CountersFollow ==
  ASSUME Counted, NEW id \in Ids, NEW a \in Accounts,
         Agent(id) = a, completions'[id].agent = a,
         \A x \in Ids : x # id => completions'[x] = completions[x] /\ challenges'[x] = challenges[x],
         UNCHANGED completionCount,
         \A b \in Accounts :
            disputeCount'[b] = disputeCount[b] + One(b = a /\ completions'[id].disputed)
                                               - One(b = a /\ completions[id].disputed),
         \A b \in Accounts :
            pendingChallenges'[b] = pendingChallenges[b] + One(b = a /\ Pending(id)')
                                                         - One(b = a /\ Pending(id)),
         \A b \in Accounts :
            confirmedCount'[b] = confirmedCount[b]
                                    + One(b = a /\ completions'[id].counterparty # Zero)
                                    - One(b = a /\ completions[id].counterparty # Zero),
         \A b, r \in Accounts :
            counterpartyConfirmations'[b][r] =
               counterpartyConfirmations[b][r] + One(b = a /\ completions'[id].counterparty = r)
                                               - One(b = a /\ completions[id].counterparty = r),
         \A b \in Accounts : distinctCounterparties'[b] = Cardinality(PartnersOf(b)')
  PROVE  /\ Counted'
         /\ Cardinality(AllPending') =
               Cardinality(AllPending) + One(Pending(id)') - One(Pending(id))
<1>1. ASSUME NEW b \in Accounts
      PROVE  /\ completionCount'[b] = Cardinality(MineOf(b)')
             /\ disputeCount'[b] = Cardinality(DisputedOf(b)')
             /\ pendingChallenges'[b] = Cardinality(PendingOf(b)')
  BY EntryCounts DEF Counted
<1>2. ASSUME NEW b \in Accounts
      PROVE  /\ confirmedCount'[b] = Cardinality(ConfirmedOf(b)')
             /\ \A r \in Accounts : counterpartyConfirmations'[b][r] = Cardinality(SignedOf(b, r)')
  BY EntryCounts DEF Counted
<1>3. Cardinality(AllPending') = Cardinality(AllPending) + One(Pending(id)') - One(Pending(id))
  BY EntryCounts
<1> QED BY <1>1, <1>2, <1>3 DEF Counted

\* The partners of an agent follow the counts per counterparty.
LEMMA PartnersChange ==
  ASSUME Typed, NEW a \in Accounts, NEW r \in Accounts, NEW n \in Int,
         counterpartyConfirmations' = [counterpartyConfirmations EXCEPT ![a][r] = n]
  PROVE  /\ \A b \in Accounts :
              Cardinality(PartnersOf(b))' =
                 Cardinality(PartnersOf(b)) + One(b = a /\ n # 0)
                    - One(b = a /\ counterpartyConfirmations[a][r] # 0)
         /\ Cardinality(PartnersOf(a)) \in Nat
<1>1. ASSUME NEW b \in Accounts
      PROVE  /\ Cardinality(PartnersOf(b)) \in Nat
             /\ Cardinality(PartnersOf(b))' =
                   Cardinality(PartnersOf(b)) + One(b = a /\ n # 0)
                      - One(b = a /\ counterpartyConfirmations[a][r] # 0)
  <2>1. /\ PartnersOf(b) \in SUBSET Accounts /\ PartnersOf(b)' \in SUBSET Accounts
        /\ PartnersOf(b) \ {r} = PartnersOf(b)' \ {r}
        /\ b = a => (r \in PartnersOf(b)' <=> n # 0)
        /\ b # a => PartnersOf(b)' = PartnersOf(b)
        /\ r \in PartnersOf(b) <=> counterpartyConfirmations[b][r] # 0
    BY DEF PartnersOf, Typed
  <2>2. CASE b = a
    BY <2>1, <2>2, AccountAssumption, CountChange DEF One
  <2>3. CASE b # a
    BY <2>1, <2>3, AccountAssumption, CountChange DEF One
  <2> QED BY <2>2, <2>3
<1> QED BY <1>1

\* A receipt more.
LEMMA PartnerGained ==
  ASSUME Typed, Counted, NEW a \in Accounts, NEW s \in Accounts, NEW n \in Nat,
         counterpartyConfirmations[a][s] = n,
         counterpartyConfirmations' = [counterpartyConfirmations EXCEPT ![a][s] = n + 1],
         distinctCounterparties' =
            IF n = 0 THEN [distinctCounterparties EXCEPT ![a] = distinctCounterparties[a] + 1]
                     ELSE distinctCounterparties
  PROVE  /\ counterpartyConfirmations' \in [Accounts -> [Accounts -> Int]]
         /\ distinctCounterparties' \in [Accounts -> Int]
         /\ \A b, r \in Accounts :
               counterpartyConfirmations'[b][r] =
                  counterpartyConfirmations[b][r] + One(b = a /\ r = s)
         /\ \A b \in Accounts : distinctCounterparties'[b] = Cardinality(PartnersOf(b)')
<1>1. /\ counterpartyConfirmations' \in [Accounts -> [Accounts -> Int]]
      /\ distinctCounterparties' \in [Accounts -> Int]
  <2>1. n + 1 \in Int /\ distinctCounterparties[a] + 1 \in Int
    BY DEF Typed
  <2> QED BY <2>1 DEF Typed
<1>2. \A b, r \in Accounts :
         counterpartyConfirmations'[b][r] =
            counterpartyConfirmations[b][r] + One(b = a /\ r = s)
  BY DEF Typed, One
<1>3. \A b \in Accounts :
         /\ Cardinality(PartnersOf(b))' =
               Cardinality(PartnersOf(b)) + One(b = a /\ n + 1 # 0) - One(b = a /\ n # 0)
         /\ distinctCounterparties[b] = Cardinality(PartnersOf(b))
  <2> DEFINE m == n + 1
  <2>1. m \in Int /\ counterpartyConfirmations' = [counterpartyConfirmations EXCEPT ![a][s] = m]
    OBVIOUS
  <2> HIDE DEF m
  <2>2. \A b \in Accounts :
           Cardinality(PartnersOf(b))' =
              Cardinality(PartnersOf(b)) + One(b = a /\ m # 0)
                 - One(b = a /\ counterpartyConfirmations[a][s] # 0)
    BY <2>1, PartnersChange, ZenonT(60)
  <2> QED BY <2>2 DEF Counted, m
<1>4. ASSUME NEW b \in Accounts PROVE distinctCounterparties'[b] = Cardinality(PartnersOf(b)')
  <2>1. distinctCounterparties[b] \in Int
    BY DEF Typed
  <2>2. distinctCounterparties'[b] = IF b = a /\ n = 0 THEN distinctCounterparties[b] + 1
                                                       ELSE distinctCounterparties[b]
    BY DEF Typed
  <2> QED BY <1>3, <2>1, <2>2 DEF One
<1> QED BY <1>1, <1>2, <1>4

\* A receipt less: the counts never stop at zero.
LEMMA PartnerLost ==
  ASSUME Typed, Counted, NEW a \in Accounts, NEW s \in Accounts, NEW n \in Nat \ {0},
         counterpartyConfirmations[a][s] = n, _decrementCounterparty(a, s)
  PROVE  /\ counterpartyConfirmations' \in [Accounts -> [Accounts -> Int]]
         /\ distinctCounterparties' \in [Accounts -> Int]
         /\ \A b, r \in Accounts :
               counterpartyConfirmations'[b][r] =
                  counterpartyConfirmations[b][r] - One(b = a /\ r = s)
         /\ \A b \in Accounts : distinctCounterparties'[b] = Cardinality(PartnersOf(b)')
<1>1. /\ s \in PartnersOf(a) /\ PartnersOf(a) \in SUBSET Accounts
      /\ distinctCounterparties[a] = Cardinality(PartnersOf(a))
  BY DEF PartnersOf, Counted
<1>2. distinctCounterparties[a] > 0
  <2>1. IsFiniteSet(PartnersOf(a)) /\ PartnersOf(a) # {}
    BY <1>1, AccountAssumption, FS_Subset
  <2>2. Cardinality(PartnersOf(a)) \in Nat /\ Cardinality(PartnersOf(a)) # 0
    BY <2>1, FS_CardinalityType, FS_EmptySet
  <2> QED BY <1>1, <2>2
<1>3. /\ counterpartyConfirmations' = [counterpartyConfirmations EXCEPT ![a][s] = n - 1]
      /\ distinctCounterparties' =
            IF n = 1 THEN [distinctCounterparties EXCEPT ![a] = distinctCounterparties[a] - 1]
                     ELSE distinctCounterparties
  <2>1. (IF n <= 1 THEN 0 ELSE n - 1) = n - 1
    OBVIOUS
  <2> QED BY <1>2, <2>1 DEF _decrementCounterparty
<1>4. /\ counterpartyConfirmations' \in [Accounts -> [Accounts -> Int]]
      /\ distinctCounterparties' \in [Accounts -> Int]
  <2>1. n - 1 \in Int /\ distinctCounterparties[a] - 1 \in Int
    BY DEF Typed
  <2> QED BY <1>3, <2>1 DEF Typed
<1>5. \A b, r \in Accounts :
         counterpartyConfirmations'[b][r] =
            counterpartyConfirmations[b][r] - One(b = a /\ r = s)
  BY <1>3 DEF Typed, One
<1>6. \A b \in Accounts :
         /\ Cardinality(PartnersOf(b))' =
               Cardinality(PartnersOf(b)) + One(b = a /\ n - 1 # 0) - One(b = a /\ n # 0)
         /\ distinctCounterparties[b] = Cardinality(PartnersOf(b))
  <2> DEFINE m == n - 1
  <2>1. m \in Int /\ counterpartyConfirmations' = [counterpartyConfirmations EXCEPT ![a][s] = m]
    BY <1>3
  <2> HIDE DEF m
  <2>2. \A b \in Accounts :
           Cardinality(PartnersOf(b))' =
              Cardinality(PartnersOf(b)) + One(b = a /\ m # 0)
                 - One(b = a /\ counterpartyConfirmations[a][s] # 0)
    BY <2>1, PartnersChange
  <2> QED BY <2>2 DEF Counted, m
<1>7. ASSUME NEW b \in Accounts PROVE distinctCounterparties'[b] = Cardinality(PartnersOf(b)')
  <2>1. distinctCounterparties[b] \in Int
    BY DEF Typed
  <2>2. distinctCounterparties'[b] = IF b = a /\ n = 1 THEN distinctCounterparties[b] - 1
                                                       ELSE distinctCounterparties[b]
    BY <1>3 DEF Typed
  <2> QED BY <1>6, <2>1, <2>2 DEF One
<1> QED BY <1>4, <1>5, <1>7

LEMMA OwedSame ==
  UNCHANGED <<stake, pendingWithdrawals>> => Total(owedTo, Accounts)' = Total(owedTo, Accounts)
BY DEF owedTo, Total, Table, IsTable, First

\* What changes the debt to one account changes the sum by as much.
LEMMA OwedChange ==
  ASSUME Typed, NEW a \in Accounts, NEW d \in Int,
         \A b \in Accounts : stake'[b] + pendingWithdrawals'[b] =
                                stake[b] + pendingWithdrawals[b] + (IF b = a THEN d ELSE 0)
  PROVE  Total(owedTo, Accounts)' = Total(owedTo, Accounts) + d
<1>1. owedTo \in [Accounts -> Int]
  BY OwedType
<1>2. /\ \A b \in Accounts : owedTo'[b] = owedTo[b] + (IF b = a THEN d ELSE 0)
      /\ DOMAIN owedTo' = Accounts /\ owedTo' = [b \in Accounts |-> owedTo'[b]]
  BY DEF owedTo
<1> HIDE DEF owedTo
<1>3. owedTo' \in [Accounts -> Int]
  BY <1>1, <1>2
<1>4. Total(owedTo', Accounts) = Total(owedTo, Accounts) - owedTo[a] + owedTo'[a]
  BY <1>1, <1>2, <1>3, AccountAssumption, TotalChange
<1>5. Total(owedTo, Accounts)' = Total(owedTo', Accounts)
  BY DEF Total, Table, IsTable, First
<1> QED BY <1>1, <1>2, <1>4, <1>5, AccountAssumption, TotalType

\* Twice: an agent pays a challenger, which may be the agent itself.
LEMMA OwedMoves ==
  ASSUME Typed, NEW a \in Accounts, NEW c \in Accounts, NEW lost \in Int, NEW won \in Int,
         \A b \in Accounts : stake'[b] + pendingWithdrawals'[b] =
                                stake[b] + pendingWithdrawals[b] - (IF b = a THEN lost ELSE 0)
                                   + (IF b = c THEN won ELSE 0)
  PROVE  Total(owedTo, Accounts)' = Total(owedTo, Accounts) - lost + won
<1> DEFINE mid == [owedTo EXCEPT ![a] = owedTo[a] - lost]
<1>1. owedTo \in [Accounts -> Int]
  BY OwedType
<1>2. /\ \A b \in Accounts : owedTo'[b] = owedTo[b] - (IF b = a THEN lost ELSE 0)
                                             + (IF b = c THEN won ELSE 0)
      /\ DOMAIN owedTo' = Accounts /\ owedTo' = [b \in Accounts |-> owedTo'[b]]
  <2>1. \A b \in Accounts : /\ owedTo[b] = stake[b] + pendingWithdrawals[b]
                           /\ owedTo'[b] = stake'[b] + pendingWithdrawals'[b]
    BY DEF owedTo
  <2>2. DOMAIN owedTo' = Accounts /\ owedTo' = [b \in Accounts |-> owedTo'[b]]
    BY DEF owedTo
  <2>3. \A b \in Accounts : stake[b] \in Int /\ pendingWithdrawals[b] \in Int
    BY DEF Typed
  <2>4. ASSUME NEW b \in Accounts
        PROVE  owedTo'[b] = owedTo[b] - (IF b = a THEN lost ELSE 0) + (IF b = c THEN won ELSE 0)
    BY <2>1, <2>3
  <2> QED BY <2>2, <2>4
<1> HIDE DEF owedTo
<1>3. owedTo' \in [Accounts -> Int] /\ mid \in [Accounts -> Int]
  BY <1>1, <1>2
<1>4. \A b \in Accounts : mid[b] = owedTo[b] - (IF b = a THEN lost ELSE 0)
  BY <1>1
<1> HIDE DEF mid
<1>5. Total(mid, Accounts) = Total(owedTo, Accounts) - owedTo[a] + mid[a]
  BY <1>1, <1>3, <1>4, AccountAssumption, TotalChange
<1>6. Total(owedTo', Accounts) = Total(mid, Accounts) - mid[c] + owedTo'[c]
  BY <1>2, <1>3, <1>4, AccountAssumption, TotalChange
<1>7. Total(owedTo, Accounts)' = Total(owedTo', Accounts)
  BY DEF Total, Table, IsTable, First
<1>8. Total(owedTo, Accounts) \in Int /\ Total(mid, Accounts) \in Int
  BY <1>1, <1>3, AccountAssumption, TotalType
<1>9. /\ mid[a] = owedTo[a] - lost /\ owedTo'[c] = mid[c] + won
      /\ owedTo[a] \in Int /\ mid[c] \in Int
  <2>1. owedTo[a] \in Int /\ owedTo[c] \in Int /\ mid[c] \in Int
    BY <1>1, <1>3
  <2>2. mid[a] = owedTo[a] - lost /\ mid[c] = owedTo[c] - (IF c = a THEN lost ELSE 0)
    BY <1>4
  <2>3. owedTo'[c] = owedTo[c] - (IF c = a THEN lost ELSE 0) + won
    BY <1>2
  <2> QED BY <2>1, <2>2, <2>3
<1> QED BY <1>5, <1>6, <1>7, <1>8, <1>9

-----------------------------------------------------------------------------
(* The steps *)

\* The deployed contract.
LEMMA InitInv == Init => IInv
<1> SUFFICES ASSUME Init PROVE IInv
  OBVIOUS
<1> USE DEF Init
<1>1. Typed
  BY AmountAssumption DEF Typed, Completion, Challenge, NoCompletion, NoChallenge
<1>2. Sound
  BY DEF Sound, SoundEntry, NoCompletion, Exists, Agent
<1>3. /\ \A a \in Accounts :
            /\ MineOf(a) = {} /\ DisputedOf(a) = {} /\ PendingOf(a) = {} /\ ConfirmedOf(a) = {}
            /\ \A r \in Accounts : SignedOf(a, r) = {}
            /\ PartnersOf(a) = {}
      /\ AllPending = {}
  BY AccountAssumption DEF MineOf, DisputedOf, PendingOf, ConfirmedOf, SignedOf, PartnersOf,
     AllPending, Agent, Pending, NoCompletion
<1>4. Counted
  BY <1>3, FS_EmptySet DEF Counted
<1>5. Booked
  <2>1. owedTo \in [Accounts -> Int] /\ \A a \in Accounts : owedTo[a] = 0
    BY DEF owedTo
  <2>2. Total(owedTo, Accounts) = 0
    BY <2>1, AccountAssumption, TotalOfZeros
  <2>3. CHALLENGE_BOND * Cardinality(AllPending) = 0
    BY <1>3, FS_EmptySet, AmountAssumption
  <2> QED BY <2>2, <2>3 DEF Booked
<1> QED BY <1>1, <1>2, <1>4, <1>5 DEF IInv

\* A step that changes none of the completions, challenges and counters.
LEMMA CountersUntouched ==
  ASSUME IInv,
         UNCHANGED <<completions, challenges, completionCount, receipts, disputeCount,
                     pendingChallenges>>
  PROVE  Counted' /\ Cardinality(AllPending)' = Cardinality(AllPending)
<1>1. AllPending' = AllPending
  BY DEF AllPending, Pending, Ids
<1>2. ASSUME NEW a \in Accounts
      PROVE  /\ MineOf(a)' = MineOf(a) /\ DisputedOf(a)' = DisputedOf(a)
             /\ PendingOf(a)' = PendingOf(a) /\ ConfirmedOf(a)' = ConfirmedOf(a)
             /\ PartnersOf(a)' = PartnersOf(a)
             /\ \A r \in Accounts : SignedOf(a, r)' = SignedOf(a, r)
  BY DEF receipts, MineOf, DisputedOf, PendingOf, ConfirmedOf, SignedOf, PartnersOf, Agent,
         Pending, Ids
<1> QED BY <1>1, <1>2 DEF IInv, Counted, receipts

\* A new entry for a completion keeps soundness and types.
LEMMA EntrySound ==
  ASSUME Typed, Sound, NEW id \in Ids, NEW k \in Completion, NEW h \in Challenge,
         completions' = [completions EXCEPT ![id] = k],
         challenges' = [challenges EXCEPT ![id] = h],
         k.agent = Agent(id), k.timestamp = completions[id].timestamp,
         SoundEntry(k, h),
         UNCHANGED <<now, nextCompletionId, stakeUnlockAt>>
  PROVE  /\ completions' \in [Ids -> Completion] /\ challenges' \in [Ids -> Challenge]
         /\ Sound'
<1>1. /\ completions'[id] = k /\ challenges'[id] = h
      /\ \A x \in Ids : x # id => completions'[x] = completions[x] /\ challenges'[x] = challenges[x]
  BY DEF Typed
<1>2. completions' \in [Ids -> Completion] /\ challenges' \in [Ids -> Challenge]
  BY DEF Typed
<1>3. ASSUME NEW x \in Ids PROVE SoundEntry(completions'[x], challenges'[x])
  <2>1. SoundEntry(completions[x], challenges[x])
    BY DEF Sound
  <2> QED BY <1>1, <2>1
<1>4. ASSUME NEW x \in Ids, Exists(x)'
      PROVE  /\ x <= nextCompletionId
             /\ completions'[x].timestamp <= now
             /\ completions'[x].timestamp + CHALLENGE_ELIGIBILITY <= stakeUnlockAt[completions'[x].agent]
  BY <1>1, <1>4 DEF Sound, Exists, Agent
<1>5. \A x \in Ids : SoundEntry(completions[x], challenges[x])'
  BY <1>3 DEF SoundEntry
<1> QED BY <1>2, <1>4, <1>5 DEF Sound, Agent, Exists, Ids

\* Attesting adds one completion of the sender.
LEMMA AttestStep ==
  ASSUME IInv, NEW a \in Attesters, attestCompletion(a)
  PROVE  IInv'
<1> DEFINE id == nextCompletionId + 1
           k == [NoCompletion EXCEPT !.agent = a, !.timestamp = now]
           h == challenges[id]
<1> USE DEF IInv
<1>1. a \in Accounts /\ a # Zero /\ id \in Ids /\ now \in Nat
  <2>1. nextCompletionId < MaxCompletions
    BY DEF attestCompletion
  <2> QED BY <2>1, AccountAssumption, AmountAssumption DEF Typed, Ids
<1>2. /\ k \in Completion /\ k.agent = a /\ k.timestamp = now
      /\ ~k.challenged /\ ~k.disputed /\ k.counterparty = Zero
  BY <1>1 DEF NoCompletion, Completion
<1>3. /\ ~Exists(id) /\ ~completions[id].challenged /\ ~completions[id].disputed
      /\ completions[id].counterparty = Zero /\ Agent(id) = Zero /\ ~Pending(id)
  BY <1>1 DEF Sound, SoundEntry, Exists, Agent, Pending, Typed
<1>4. /\ completions' = [completions EXCEPT ![id] = k]
      /\ nextCompletionId' = id
      /\ completionCount' = [completionCount EXCEPT ![a] = completionCount[a] + 1]
      /\ stakeUnlockAt' = [stakeUnlockAt EXCEPT ![a] = now + CHALLENGE_ELIGIBILITY]
      /\ UNCHANGED <<now, eth, challenges, confirmedCount, counterpartyConfirmations,
                     distinctCounterparties, disputeCount, stake, pendingChallenges,
                     pendingWithdrawals, slashedEthPool>>
  BY DEF attestCompletion, receipts
<1> HIDE DEF k
<1>5. h \in Challenge /\ challenges' = [challenges EXCEPT ![id] = h]
  BY <1>1, <1>4 DEF Typed
<1>6. Typed'
  <2>1. id \in 0 .. MaxCompletions /\ now + CHALLENGE_ELIGIBILITY \in Nat
    BY <1>1, AmountAssumption DEF Ids
  <2>2. completions' \in [Ids -> Completion]
    BY <1>2, <1>4 DEF Typed
  <2>3. completionCount' \in [Accounts -> Int]
    BY <1>1, <1>4 DEF Typed
  <2>4. stakeUnlockAt' \in [Accounts -> Nat]
    BY <1>1, <1>4, <2>1 DEF Typed
  <2> QED BY <1>4, <2>1, <2>2, <2>3, <2>4 DEF Typed
<1>7. Sound'
  <2>1. ASSUME NEW x \in Ids PROVE SoundEntry(completions'[x], challenges'[x])
    <3>1. CASE x = id
      BY <1>1, <1>2, <1>4, <3>1 DEF Typed, SoundEntry
    <3>2. CASE x # id
      BY <1>4, <3>2 DEF Typed, Sound
    <3> QED BY <3>1, <3>2
  <2>2. \A x \in Ids : SoundEntry(completions[x], challenges[x])'
    BY <2>1 DEF SoundEntry
  <2>3. ASSUME NEW x \in Ids, Exists(x)'
        PROVE  /\ x <= id
               /\ completions'[x].timestamp <= now
               /\ completions'[x].timestamp + CHALLENGE_ELIGIBILITY
                     <= stakeUnlockAt'[completions'[x].agent]
    <3>1. CASE x = id
      BY <1>1, <1>2, <1>4, <3>1, AmountAssumption DEF Typed, Ids
    <3>2. CASE x # id
      <4>1. completions'[x] = completions[x] /\ Exists(x)
        BY <1>4, <2>3, <3>2 DEF Typed, Exists
      <4>2. Agent(x) \in Accounts /\ completions[x].timestamp \in Nat
        BY <4>1 DEF Typed, Completion, Exists, Agent
      <4>3. /\ x <= nextCompletionId /\ completions[x].timestamp <= now
            /\ completions[x].timestamp + CHALLENGE_ELIGIBILITY <= stakeUnlockAt[Agent(x)]
        BY <4>1 DEF Sound
      <4>4. stakeUnlockAt'[Agent(x)] = IF Agent(x) = a THEN now + CHALLENGE_ELIGIBILITY
                                                       ELSE stakeUnlockAt[Agent(x)]
        BY <1>4, <4>2 DEF Typed
      <4>5. completions[x].timestamp + CHALLENGE_ELIGIBILITY <= stakeUnlockAt'[Agent(x)]
        BY <1>1, <4>2, <4>3, <4>4, AmountAssumption
      <4>6. x <= id
        BY <1>1, <4>3 DEF Typed, Ids
      <4> QED BY <4>1, <4>3, <4>5, <4>6 DEF Agent
    <3> QED BY <3>1, <3>2
  <2> QED BY <1>4, <2>2, <2>3 DEF Sound, Exists, Agent, Ids
<1>8. Counted' /\ AllPending' = AllPending
  <2>1. ASSUME NEW b \in Accounts
        PROVE  /\ MineOf(b)' = IF b = a THEN MineOf(b) \cup {id} ELSE MineOf(b)
               /\ DisputedOf(b)' = DisputedOf(b) /\ PendingOf(b)' = PendingOf(b)
               /\ ConfirmedOf(b)' = ConfirmedOf(b)
               /\ \A r \in Accounts : SignedOf(b, r)' = SignedOf(b, r)
               /\ PartnersOf(b)' = PartnersOf(b)
    <3>1. \A x \in Ids : completions'[x] = IF x = id THEN k ELSE completions[x]
      BY <1>4 DEF Typed
    <3>2. Ids' = Ids /\ Accounts' = Accounts /\ b # Zero
      BY AccountAssumption DEF Ids
    <3>3. MineOf(b)' = IF b = a THEN MineOf(b) \cup {id} ELSE MineOf(b)
      BY <1>1, <1>2, <1>3, <3>1, <3>2 DEF MineOf, Agent
    <3>4. DisputedOf(b)' = DisputedOf(b)
      BY <1>1, <1>2, <1>3, <3>1, <3>2 DEF DisputedOf, Agent
    <3>5. PendingOf(b)' = PendingOf(b)
      BY <1>1, <1>2, <1>3, <1>4, <3>1, <3>2 DEF PendingOf, Pending, Agent
    <3>6. ConfirmedOf(b)' = ConfirmedOf(b)
      BY <1>1, <1>2, <1>3, <3>1, <3>2 DEF ConfirmedOf, Agent
    <3>7. \A r \in Accounts : SignedOf(b, r)' = SignedOf(b, r)
      BY <1>1, <1>2, <1>3, <3>1, <3>2, AccountAssumption DEF SignedOf, Agent
    <3>8. PartnersOf(b)' = PartnersOf(b)
      BY <1>4 DEF PartnersOf
    <3> QED BY <3>3, <3>4, <3>5, <3>6, <3>7, <3>8
  <2>2. AllPending' = AllPending
    BY <1>1, <1>2, <1>3, <1>4 DEF AllPending, Pending, Typed, Ids
  <2>3. MineOf(a) \in SUBSET Ids /\ id \notin MineOf(a)
    BY <1>1, <1>3 DEF MineOf
  <2>4. Cardinality(MineOf(a) \cup {id}) = Cardinality(MineOf(a)) + 1
    BY <1>1, <2>3, OneMore
  <2>5. \A b \in Accounts : completionCount'[b] = IF b = a THEN completionCount[a] + 1
                                                         ELSE completionCount[b]
    BY <1>1, <1>4 DEF Typed
  <2> QED BY <1>4, <2>1, <2>2, <2>4, <2>5 DEF Counted
<1>9. Booked'
  BY <1>4, <1>8 DEF Booked, owedTo, Total, Table, IsTable, First
<1> QED BY <1>6, <1>7, <1>8, <1>9

\* A completion whose entry changes but for its agent and its time.
LEMMA RecordTypes ==
  ASSUME NEW c \in Completion, NEW r \in Accounts \cup {Zero}
  PROVE  LET signed == [c EXCEPT !.counterparty = r]
             pending == [c EXCEPT !.challenged = TRUE]
             upheld == [c EXCEPT !.disputed = TRUE, !.counterparty = Zero]
         IN  /\ signed \in Completion /\ signed.agent = c.agent /\ signed.timestamp = c.timestamp
             /\ signed.challenged = c.challenged /\ signed.disputed = c.disputed
             /\ signed.counterparty = r
             /\ pending \in Completion /\ pending.agent = c.agent /\ pending.timestamp = c.timestamp
             /\ pending.challenged /\ pending.disputed = c.disputed
             /\ pending.counterparty = c.counterparty
             /\ upheld \in Completion /\ upheld.agent = c.agent /\ upheld.timestamp = c.timestamp
             /\ upheld.challenged = c.challenged /\ upheld.disputed /\ upheld.counterparty = Zero
<1> DEFINE disputed == [c EXCEPT !.disputed = TRUE]
<1>1. /\ disputed \in Completion /\ disputed.agent = c.agent /\ disputed.timestamp = c.timestamp
      /\ disputed.challenged = c.challenged /\ disputed.disputed
  BY DEF Completion
<1> HIDE DEF disputed
<1>2. LET upheld == [disputed EXCEPT !.counterparty = Zero]
      IN  /\ upheld \in Completion /\ upheld.agent = c.agent /\ upheld.timestamp = c.timestamp
          /\ upheld.challenged = c.challenged /\ upheld.disputed /\ upheld.counterparty = Zero
  BY <1>1 DEF Completion
<1>3. LET signed == [c EXCEPT !.counterparty = r]
      IN  /\ signed \in Completion /\ signed.agent = c.agent /\ signed.timestamp = c.timestamp
          /\ signed.challenged = c.challenged /\ signed.disputed = c.disputed
          /\ signed.counterparty = r
  BY DEF Completion
<1>4. LET pending == [c EXCEPT !.challenged = TRUE]
      IN  /\ pending \in Completion /\ pending.agent = c.agent /\ pending.timestamp = c.timestamp
          /\ pending.challenged /\ pending.disputed = c.disputed
          /\ pending.counterparty = c.counterparty
  BY DEF Completion
<1> QED BY <1>2, <1>3, <1>4 DEF disputed

\* A receipt.
LEMMA ReceiptStep ==
  ASSUME IInv, NEW id \in Ids, NEW sender \in Requesters, attestReceipt(id, sender)
  PROVE  IInv'
<1> DEFINE k == [completions[id] EXCEPT !.counterparty = sender]
<1>1. PICK a \in Accounts : a = Agent(id)
  BY DEF IInv, attestReceipt, Typed, Exists, Agent, Completion
<1>2. /\ Typed /\ Sound /\ Counted /\ Booked
      /\ sender \in Accounts /\ sender # Zero
      /\ completions[id] \in Completion /\ challenges[id] \in Challenge
  BY AccountAssumption DEF IInv, Typed
<1>3. PICK n \in Nat : n = counterpartyConfirmations[a][sender]
  BY <1>2, CountTypes DEF Counted
<1>4. /\ k \in Completion /\ k.agent = a /\ k.timestamp = completions[id].timestamp
      /\ k.challenged = completions[id].challenged /\ k.disputed = completions[id].disputed
      /\ k.counterparty = sender
  BY <1>1, <1>2, RecordTypes, ZenonT(60) DEF Agent
<1>5. /\ completions[id].counterparty = Zero /\ ~completions[id].disputed
      /\ completions' = [completions EXCEPT ![id] = k]
      /\ confirmedCount' = [confirmedCount EXCEPT ![a] = confirmedCount[a] + 1]
      /\ distinctCounterparties' =
            IF n = 0 THEN [distinctCounterparties EXCEPT ![a] = distinctCounterparties[a] + 1]
                     ELSE distinctCounterparties
      /\ counterpartyConfirmations' = [counterpartyConfirmations EXCEPT ![a][sender] = n + 1]
      /\ UNCHANGED <<now, eth, challenges, nextCompletionId, completionCount, stakeUnlockAt,
                     disputeCount, stake, pendingChallenges, pendingWithdrawals, slashedEthPool>>
  BY <1>1, <1>3 DEF attestReceipt
<1> HIDE DEF k
<1>6. SoundEntry(k, challenges[id])
  BY <1>1, <1>2, <1>4, <1>5, AccountAssumption DEF Sound, SoundEntry
<1>7. challenges' = [challenges EXCEPT ![id] = challenges[id]]
  BY <1>2, <1>5 DEF Typed
<1>8. completions' \in [Ids -> Completion] /\ Sound'
  BY <1>1, <1>2, <1>4, <1>5, <1>6, <1>7, EntrySound
<1>9. /\ counterpartyConfirmations' \in [Accounts -> [Accounts -> Int]]
      /\ distinctCounterparties' \in [Accounts -> Int]
      /\ \A b, r \in Accounts :
            counterpartyConfirmations'[b][r] =
               counterpartyConfirmations[b][r] + One(b = a /\ r = sender)
      /\ \A b \in Accounts : distinctCounterparties'[b] = Cardinality(PartnersOf(b)')
  BY <1>2, <1>3, <1>5, PartnerGained
<1>10. confirmedCount' \in [Accounts -> Int]
  BY <1>2, <1>5 DEF Typed
<1>11. Typed'
  BY <1>2, <1>5, <1>8, <1>9, <1>10 DEF Typed, Ids
<1>12. Counted' /\ Cardinality(AllPending') = Cardinality(AllPending)
  <2>1. /\ completions'[id] = k
        /\ \A x \in Ids : x # id => completions'[x] = completions[x] /\ challenges'[x] = challenges[x]
    BY <1>2, <1>5 DEF Typed
  <2>2. Agent(id) = a /\ completions'[id].agent = a /\ (Pending(id)' <=> Pending(id))
    BY <1>1, <1>4, <1>5, <2>1 DEF Pending
  <2>3. /\ ~completions[id].disputed /\ ~completions'[id].disputed
        /\ completions[id].counterparty = Zero /\ completions'[id].counterparty = sender
    BY <1>4, <1>5, <2>1
  <2>4. ASSUME NEW b \in Accounts
        PROVE  disputeCount'[b] = disputeCount[b] + One(b = a /\ completions'[id].disputed)
                                                  - One(b = a /\ completions[id].disputed)
    BY <1>2, <1>5, <2>3 DEF One, Typed
  <2>5. ASSUME NEW b \in Accounts
        PROVE  pendingChallenges'[b] = pendingChallenges[b] + One(b = a /\ Pending(id)')
                                                            - One(b = a /\ Pending(id))
    BY <1>2, <1>5, <2>2 DEF One, Typed
  <2>6. ASSUME NEW b \in Accounts
        PROVE  confirmedCount'[b] = confirmedCount[b]
                                       + One(b = a /\ completions'[id].counterparty # Zero)
                                       - One(b = a /\ completions[id].counterparty # Zero)
    BY <1>2, <1>5, <2>3 DEF One, Typed
  <2>7. ASSUME NEW b \in Accounts, NEW r \in Accounts
        PROVE  counterpartyConfirmations'[b][r] =
                  counterpartyConfirmations[b][r]
                     + One(b = a /\ completions'[id].counterparty = r)
                     - One(b = a /\ completions[id].counterparty = r)
    BY <1>2, <1>9, <2>3, AccountAssumption DEF One, Typed
  <2>8. Counted' /\ Cardinality(AllPending') =
                       Cardinality(AllPending) + One(Pending(id)') - One(Pending(id))
    BY <1>2, <1>5, <1>9, <2>1, <2>2, <2>4, <2>5, <2>6, <2>7, CountersFollow
  <2> QED BY <2>2, <2>8, PendingType DEF One
<1>13. Booked'
  BY <1>2, <1>5, <1>12, OwedSame DEF Booked
<1> QED BY <1>8, <1>11, <1>12, <1>13 DEF IInv

\* A receipt that stands is counted.
LEMMA HeldReceipt ==
  ASSUME Counted, NEW id \in Ids, NEW a \in Accounts, Agent(id) = a,
         NEW s \in Accounts, completions[id].counterparty = s
  PROVE  counterpartyConfirmations[a][s] \in Nat \ {0}
<1>1. id \in SignedOf(a, s) /\ SignedOf(a, s) \in SUBSET Ids
  BY DEF SignedOf
<1>2. IsFiniteSet(SignedOf(a, s)) /\ SignedOf(a, s) # {}
  BY <1>1, IdsFinite, FS_Subset
<1>3. Cardinality(SignedOf(a, s)) \in Nat /\ Cardinality(SignedOf(a, s)) # 0
  BY <1>2, FS_CardinalityType, FS_EmptySet
<1> QED BY <1>3 DEF Counted

\* A receipt withdrawn by who gave it, while a challenge is pending too.
LEMMA RevokeStep ==
  ASSUME IInv, NEW id \in Ids, NEW sender \in Requesters, revokeReceipt(id, sender)
  PROVE  IInv'
<1> DEFINE k == [completions[id] EXCEPT !.counterparty = Zero]
<1>1. PICK a \in Accounts : a = Agent(id)
  BY DEF IInv, revokeReceipt, Typed, Exists, Agent, Completion
<1>2. /\ Typed /\ Sound /\ Counted /\ Booked
      /\ sender \in Accounts /\ sender # Zero
      /\ completions[id] \in Completion /\ challenges[id] \in Challenge
  BY AccountAssumption DEF IInv, Typed
<1>3. completions[id].counterparty = sender /\ ~completions[id].disputed
  BY DEF revokeReceipt
<1>4. PICK n \in Nat \ {0} : counterpartyConfirmations[a][sender] = n
  BY <1>1, <1>2, <1>3, HeldReceipt
<1>5. /\ k \in Completion /\ k.agent = a /\ k.timestamp = completions[id].timestamp
      /\ k.challenged = completions[id].challenged /\ k.disputed = completions[id].disputed
      /\ k.counterparty = Zero
  BY <1>1, <1>2 DEF Agent, Completion
<1>6. /\ completions' = [completions EXCEPT ![id] = k]
      /\ confirmedCount' = [confirmedCount EXCEPT ![a] = confirmedCount[a] - 1]
      /\ _decrementCounterparty(a, sender)
      /\ UNCHANGED <<now, eth, challenges, nextCompletionId, completionCount, stakeUnlockAt,
                     disputeCount, stake, pendingChallenges, pendingWithdrawals, slashedEthPool>>
  BY <1>1 DEF revokeReceipt, activity
<1> HIDE DEF k
<1>7. SoundEntry(k, challenges[id])
  BY <1>1, <1>2, <1>3, <1>5, AccountAssumption DEF Sound, SoundEntry
<1>8. challenges' = [challenges EXCEPT ![id] = challenges[id]]
  BY <1>2, <1>6 DEF Typed
<1>9. completions' \in [Ids -> Completion] /\ Sound'
  BY <1>1, <1>2, <1>5, <1>6, <1>7, <1>8, EntrySound
<1>10. /\ counterpartyConfirmations' \in [Accounts -> [Accounts -> Int]]
       /\ distinctCounterparties' \in [Accounts -> Int]
       /\ \A b, r \in Accounts :
             counterpartyConfirmations'[b][r] =
                counterpartyConfirmations[b][r] - One(b = a /\ r = sender)
       /\ \A b \in Accounts : distinctCounterparties'[b] = Cardinality(PartnersOf(b)')
  BY <1>2, <1>4, <1>6, PartnerLost
<1>11. confirmedCount' \in [Accounts -> Int]
  BY <1>2, <1>6 DEF Typed
<1>12. Typed'
  BY <1>2, <1>6, <1>9, <1>10, <1>11 DEF Typed, Ids
<1>13. Counted' /\ Cardinality(AllPending') = Cardinality(AllPending)
  <2>1. /\ completions'[id] = k
        /\ \A x \in Ids : x # id => completions'[x] = completions[x] /\ challenges'[x] = challenges[x]
    BY <1>2, <1>6 DEF Typed
  <2>2. Agent(id) = a /\ completions'[id].agent = a /\ (Pending(id)' <=> Pending(id))
    BY <1>1, <1>5, <1>6, <2>1 DEF Pending
  <2>3. /\ ~completions[id].disputed /\ ~completions'[id].disputed
        /\ completions[id].counterparty = sender /\ completions'[id].counterparty = Zero
    BY <1>3, <1>5, <2>1
  <2>4. ASSUME NEW b \in Accounts
        PROVE  disputeCount'[b] = disputeCount[b] + One(b = a /\ completions'[id].disputed)
                                                  - One(b = a /\ completions[id].disputed)
    BY <1>2, <1>6, <2>3 DEF One, Typed
  <2>5. ASSUME NEW b \in Accounts
        PROVE  pendingChallenges'[b] = pendingChallenges[b] + One(b = a /\ Pending(id)')
                                                            - One(b = a /\ Pending(id))
    BY <1>2, <1>6, <2>2 DEF One, Typed
  <2>6. ASSUME NEW b \in Accounts
        PROVE  confirmedCount'[b] = confirmedCount[b]
                                       + One(b = a /\ completions'[id].counterparty # Zero)
                                       - One(b = a /\ completions[id].counterparty # Zero)
    BY <1>2, <1>6, <2>3 DEF One, Typed
  <2>7. ASSUME NEW b \in Accounts, NEW r \in Accounts
        PROVE  counterpartyConfirmations'[b][r] =
                  counterpartyConfirmations[b][r]
                     + One(b = a /\ completions'[id].counterparty = r)
                     - One(b = a /\ completions[id].counterparty = r)
    BY <1>2, <1>10, <2>3, AccountAssumption DEF One, Typed
  <2>8. Counted' /\ Cardinality(AllPending') =
                       Cardinality(AllPending) + One(Pending(id)') - One(Pending(id))
    BY <1>2, <1>6, <1>10, <2>1, <2>2, <2>4, <2>5, <2>6, <2>7, CountersFollow
  <2> QED BY <2>2, <2>8, PendingType DEF One
<1>14. Booked'
  BY <1>2, <1>6, <1>13, OwedSame DEF Booked
<1> QED BY <1>12, <1>9, <1>13, <1>14 DEF IInv

\* The bonds of one pending challenge more or less.
LEMMA BondSteps ==
  \A m \in Nat : /\ CHALLENGE_BOND * (m + 1) = CHALLENGE_BOND * m + CHALLENGE_BOND
                 /\ CHALLENGE_BOND * (m - 1) = CHALLENGE_BOND * m - CHALLENGE_BOND
                 /\ CHALLENGE_BOND * m \in Nat
BY AmountAssumption

\* A step that leaves receipts and disputes alone: only the pending count may change.
LEMMA OnlyPending ==
  ASSUME Typed, Counted, NEW id \in Ids, NEW a \in Accounts, Agent(id) = a,
         completions'[id].agent = a, completions'[id].disputed = completions[id].disputed,
         completions'[id].counterparty = completions[id].counterparty,
         \A x \in Ids : x # id => completions'[x] = completions[x] /\ challenges'[x] = challenges[x],
         UNCHANGED <<completionCount, receipts, disputeCount>>,
         \A b \in Accounts :
            pendingChallenges'[b] = pendingChallenges[b] + One(b = a /\ Pending(id)')
                                                         - One(b = a /\ Pending(id))
  PROVE  /\ Counted'
         /\ Cardinality(AllPending') =
               Cardinality(AllPending) + One(Pending(id)') - One(Pending(id))
<1>1. ASSUME NEW b \in Accounts
      PROVE  disputeCount'[b] = disputeCount[b] + One(b = a /\ completions'[id].disputed)
                                                - One(b = a /\ completions[id].disputed)
  BY DEF One, Typed
<1>2. ASSUME NEW b \in Accounts
      PROVE  confirmedCount'[b] = confirmedCount[b]
                                     + One(b = a /\ completions'[id].counterparty # Zero)
                                     - One(b = a /\ completions[id].counterparty # Zero)
  BY DEF One, Typed, receipts
<1>3. ASSUME NEW b \in Accounts, NEW r \in Accounts
      PROVE  counterpartyConfirmations'[b][r] =
                counterpartyConfirmations[b][r]
                   + One(b = a /\ completions'[id].counterparty = r)
                   - One(b = a /\ completions[id].counterparty = r)
  BY DEF One, Typed, receipts
<1>4. ASSUME NEW b \in Accounts PROVE distinctCounterparties'[b] = Cardinality(PartnersOf(b)')
  <2>1. PartnersOf(b)' = PartnersOf(b)
    BY DEF PartnersOf, receipts
  <2> QED BY <2>1 DEF receipts, Counted
<1> QED BY <1>1, <1>2, <1>3, <1>4, CountersFollow

\* A challenge: a bond comes in.
LEMMA ChallengeStep ==
  ASSUME IInv, NEW id \in Ids, NEW sender \in Challengers, challengeCompletion(id, sender)
  PROVE  IInv'
<1> DEFINE k == [completions[id] EXCEPT !.challenged = TRUE]
           h == [NoChallenge EXCEPT !.challenger = sender, !.timestamp = now,
                                    !.deadline = now + CHALLENGE_WINDOW]
<1>1. PICK a \in Accounts : a = Agent(id)
  BY DEF IInv, challengeCompletion, Typed, Exists, Agent, Completion
<1>2. /\ Typed /\ Sound /\ Counted /\ Booked
      /\ sender \in Accounts /\ completions[id] \in Completion
  BY AccountAssumption DEF IInv, Typed
<1>3. /\ k \in Completion /\ k.agent = a /\ k.timestamp = completions[id].timestamp
      /\ k.challenged /\ k.disputed = completions[id].disputed
      /\ k.counterparty = completions[id].counterparty
  BY <1>1, <1>2, RecordTypes DEF Agent
<1>4. h \in Challenge /\ h.challenger = sender /\ ~h.resolved
  <2> DEFINE g == [NoChallenge EXCEPT !.challenger = sender]
             f == [g EXCEPT !.timestamp = now]
  <2>1. now \in Nat /\ now + CHALLENGE_WINDOW \in Nat
    BY <1>2, AmountAssumption DEF Typed
  <2>2. g \in Challenge /\ g.challenger = sender /\ ~g.resolved
    BY <1>2 DEF NoChallenge, Challenge
  <2> HIDE DEF g
  <2>3. f \in Challenge /\ f.challenger = sender /\ ~f.resolved
    BY <2>1, <2>2 DEF Challenge
  <2> HIDE DEF f
  <2>4. LET e == [f EXCEPT !.deadline = now + CHALLENGE_WINDOW]
        IN  e \in Challenge /\ e.challenger = sender /\ ~e.resolved
    BY <2>1, <2>3 DEF Challenge
  <2> QED BY <2>4 DEF f, g
<1>5. /\ ~completions[id].challenged
      /\ completions' = [completions EXCEPT ![id] = k]
      /\ challenges' = [challenges EXCEPT ![id] = h]
      /\ pendingChallenges' = [pendingChallenges EXCEPT ![a] = pendingChallenges[a] + 1]
      /\ eth' = eth + CHALLENGE_BOND
      /\ UNCHANGED <<now, nextCompletionId, completionCount, stakeUnlockAt, receipts,
                     disputeCount, stake, pendingWithdrawals, slashedEthPool>>
  BY <1>1 DEF challengeCompletion, activity
<1> HIDE DEF k, h
<1>6. SoundEntry(k, h)
  BY <1>1, <1>2, <1>3, <1>4, <1>5, AccountAssumption DEF Sound, SoundEntry
<1>7. completions' \in [Ids -> Completion] /\ challenges' \in [Ids -> Challenge] /\ Sound'
  BY <1>1, <1>2, <1>3, <1>4, <1>5, <1>6, EntrySound
<1>8. Typed'
  <2>1. pendingChallenges' \in [Accounts -> Int]
    BY <1>2, <1>5 DEF Typed
  <2> QED BY <1>2, <1>5, <1>7, <2>1 DEF Typed, Ids, receipts
<1>9. Counted' /\ Cardinality(AllPending') = Cardinality(AllPending) + 1
  <2>1. /\ completions'[id] = k /\ challenges'[id] = h
        /\ \A x \in Ids : x # id => completions'[x] = completions[x] /\ challenges'[x] = challenges[x]
    BY <1>2, <1>5 DEF Typed
  <2>2. Agent(id) = a /\ completions'[id].agent = a /\ Pending(id)' /\ ~Pending(id)
    BY <1>1, <1>3, <1>4, <1>5, <2>1 DEF Pending
  <2>3. \A b \in Accounts :
           pendingChallenges'[b] = pendingChallenges[b] + One(b = a /\ Pending(id)')
                                                        - One(b = a /\ Pending(id))
    BY <1>2, <1>5, <2>2 DEF One, Typed
  <2>4. Counted' /\ Cardinality(AllPending') =
                       Cardinality(AllPending) + One(Pending(id)') - One(Pending(id))
    BY <1>2, <1>3, <1>5, <2>1, <2>2, <2>3, OnlyPending, ZenonT(60)
  <2> QED BY <2>2, <2>4, PendingType DEF One
<1>10. Booked'
  <2>1. CHALLENGE_BOND * Cardinality(AllPending') = CHALLENGE_BOND * Cardinality(AllPending)
                                                      + CHALLENGE_BOND
    BY <1>9, PendingType, BondSteps
  <2>2. Total(owedTo, Accounts) \in Int /\ CHALLENGE_BOND * Cardinality(AllPending) \in Nat
    BY <1>2, OwedType, PendingType, BondSteps
  <2> QED BY <1>2, <1>5, <2>1, <2>2, OwedSame, AmountAssumption DEF Booked, Typed
<1> QED BY <1>7, <1>8, <1>9, <1>10 DEF IInv

\* A challenge contested.
LEMMA ContestStep ==
  ASSUME IInv, NEW id \in Ids, contestChallenge(id)
  PROVE  IInv'
<1> DEFINE h == [challenges[id] EXCEPT !.contested = TRUE]
<1>1. /\ Typed /\ Sound /\ Counted /\ Booked
      /\ completions[id] \in Completion /\ challenges[id] \in Challenge
      /\ Pending(id) /\ completions[id].challenged
  BY DEF IInv, Typed, contestChallenge, Pending
<1>2. PICK a \in Accounts : a = Agent(id)
  BY <1>1 DEF Sound, SoundEntry, Completion, Agent
<1>3. /\ h \in Challenge /\ h.challenger = challenges[id].challenger
      /\ h.resolved = challenges[id].resolved
  BY <1>1 DEF Challenge
<1>4. /\ challenges' = [challenges EXCEPT ![id] = h]
      /\ UNCHANGED <<now, eth, completions, nextCompletionId, completionCount, stakeUnlockAt,
                     receipts, disputeCount, stake, pendingChallenges, pendingWithdrawals,
                     slashedEthPool>>
  BY DEF contestChallenge, activity
<1> HIDE DEF h
<1>5. SoundEntry(completions[id], h)
  BY <1>1, <1>3 DEF Sound, SoundEntry
<1>6. completions' = [completions EXCEPT ![id] = completions[id]]
  BY <1>1, <1>4 DEF Typed
<1>7. challenges' \in [Ids -> Challenge] /\ Sound'
  BY <1>1, <1>3, <1>4, <1>5, <1>6, EntrySound DEF Agent
<1>8. Typed'
  BY <1>1, <1>4, <1>7 DEF Typed, Ids, receipts
<1>9. Counted' /\ Cardinality(AllPending') = Cardinality(AllPending)
  <2>1. /\ challenges'[id] = h /\ completions'[id] = completions[id]
        /\ \A x \in Ids : x # id => completions'[x] = completions[x] /\ challenges'[x] = challenges[x]
    BY <1>1, <1>4 DEF Typed
  <2>2. Agent(id) = a /\ completions'[id].agent = a /\ (Pending(id)' <=> Pending(id))
    BY <1>2, <1>3, <2>1 DEF Pending, Agent
  <2>3. \A b \in Accounts :
           pendingChallenges'[b] = pendingChallenges[b] + One(b = a /\ Pending(id)')
                                                        - One(b = a /\ Pending(id))
    BY <1>1, <1>4, <2>2 DEF One, Typed
  <2>4. Counted' /\ Cardinality(AllPending') =
                       Cardinality(AllPending) + One(Pending(id)') - One(Pending(id))
    BY <1>1, <1>4, <2>1, <2>2, <2>3, OnlyPending
  <2> QED BY <2>2, <2>4, PendingType DEF One
<1>10. Booked'
  BY <1>1, <1>4, <1>9, OwedSame DEF Booked
<1> QED BY <1>7, <1>8, <1>9, <1>10 DEF IInv

\* A challenge that ends with nobody found at fault.
LEMMA ClosedWithoutFault ==
  ASSUME IInv, NEW id \in Ids, Pending(id),
         challenges' = [challenges EXCEPT ![id].resolved = TRUE],
         pendingChallenges' = [pendingChallenges EXCEPT ![Agent(id)] = @ - 1],
         UNCHANGED <<now, nextCompletionId, completions, activity, receipts, disputeCount>>
  PROVE  /\ challenges' \in [Ids -> Challenge] /\ pendingChallenges' \in [Accounts -> Int]
         /\ Sound' /\ Counted'
         /\ CHALLENGE_BOND * Cardinality(AllPending') =
               CHALLENGE_BOND * Cardinality(AllPending) - CHALLENGE_BOND
<1> DEFINE h == [challenges[id] EXCEPT !.resolved = TRUE]
<1>1. /\ Typed /\ Sound /\ Counted
      /\ completions[id] \in Completion /\ challenges[id] \in Challenge
      /\ completions[id].challenged
  BY DEF IInv, Typed, Pending
<1>2. PICK a \in Accounts : a = Agent(id)
  BY <1>1 DEF Sound, SoundEntry, Completion, Agent
<1>3. h \in Challenge /\ h.challenger = challenges[id].challenger /\ h.resolved
  BY <1>1 DEF Challenge
<1>4. /\ challenges' = [challenges EXCEPT ![id] = h]
      /\ pendingChallenges' = [pendingChallenges EXCEPT ![a] = pendingChallenges[a] - 1]
  BY <1>2
<1> HIDE DEF h
<1>5. SoundEntry(completions[id], h)
  BY <1>1, <1>3 DEF Sound, SoundEntry
<1>6. completions' = [completions EXCEPT ![id] = completions[id]]
  BY <1>1 DEF Typed
<1>7. challenges' \in [Ids -> Challenge] /\ Sound'
  BY <1>1, <1>3, <1>4, <1>5, <1>6, EntrySound DEF Agent, activity
<1>8. pendingChallenges' \in [Accounts -> Int]
  BY <1>1, <1>4 DEF Typed
<1>9. Counted' /\ Cardinality(AllPending') = Cardinality(AllPending) - 1
  <2>1. /\ challenges'[id] = h /\ completions'[id] = completions[id]
        /\ \A x \in Ids : x # id => completions'[x] = completions[x] /\ challenges'[x] = challenges[x]
    BY <1>1, <1>4 DEF Typed
  <2>2. Agent(id) = a /\ completions'[id].agent = a /\ ~Pending(id)'
    BY <1>2, <1>3, <2>1 DEF Pending, Agent
  <2>3. \A b \in Accounts :
           pendingChallenges'[b] = pendingChallenges[b] + One(b = a /\ Pending(id)')
                                                        - One(b = a /\ Pending(id))
    BY <1>1, <1>4, <2>2 DEF One, Typed
  <2>4. Counted' /\ Cardinality(AllPending') =
                       Cardinality(AllPending) + One(Pending(id)') - One(Pending(id))
    BY <1>1, <2>1, <2>2, <2>3, OnlyPending DEF activity
  <2> QED BY <2>2, <2>4, PendingType DEF One
<1> QED BY <1>7, <1>8, <1>9, PendingType, BondSteps

\* The owner rejects it: the bond goes to the pool.
LEMMA RejectStep ==
  ASSUME IInv, NEW id \in Ids, Pending(id),
         challenges' = [challenges EXCEPT ![id].resolved = TRUE],
         pendingChallenges' = [pendingChallenges EXCEPT ![Agent(id)] = @ - 1],
         slashedEthPool' = slashedEthPool + CHALLENGE_BOND,
         UNCHANGED <<now, eth, control, nextCompletionId, completions, activity, receipts,
                     disputeCount, stake, pendingWithdrawals>>
  PROVE  IInv'
<1>1. /\ challenges' \in [Ids -> Challenge] /\ pendingChallenges' \in [Accounts -> Int]
      /\ Sound' /\ Counted'
      /\ CHALLENGE_BOND * Cardinality(AllPending') =
            CHALLENGE_BOND * Cardinality(AllPending) - CHALLENGE_BOND
  BY ClosedWithoutFault
<1>2. Typed'
  <2>1. slashedEthPool' \in Nat
    BY AmountAssumption DEF IInv, Typed
  <2>2. UNCHANGED <<now, nextCompletionId, completions, completionCount, stakeUnlockAt, receipts,
                    disputeCount, stake, pendingWithdrawals>>
    BY DEF activity
  <2> QED BY <1>1, <2>1, <2>2 DEF IInv, Typed, Ids, receipts
<1>3. Booked'
  <2>1. Total(owedTo, Accounts) \in Int /\ CHALLENGE_BOND * Cardinality(AllPending) \in Nat
    BY OwedType, PendingType, BondSteps DEF IInv
  <2> QED BY <1>1, <2>1, OwedSame, AmountAssumption DEF Booked, IInv, Typed
<1> QED BY <1>1, <1>2, <1>3 DEF IInv

\* The challenger cancels it: the bond is owed to the challenger.
LEMMA CancelStep ==
  ASSUME IInv, NEW id \in Ids, NEW sender \in Challengers, cancelChallenge(id, sender)
  PROVE  IInv'
<1>1. Pending(id) /\ sender \in Accounts
  BY AccountAssumption DEF cancelChallenge
<1>2. /\ challenges' \in [Ids -> Challenge] /\ pendingChallenges' \in [Accounts -> Int]
      /\ Sound' /\ Counted'
      /\ CHALLENGE_BOND * Cardinality(AllPending') =
            CHALLENGE_BOND * Cardinality(AllPending) - CHALLENGE_BOND
  BY <1>1, ClosedWithoutFault DEF cancelChallenge
<1>3. /\ pendingWithdrawals' =
            [pendingWithdrawals EXCEPT ![sender] = pendingWithdrawals[sender] + CHALLENGE_BOND]
      /\ UNCHANGED <<now, eth, nextCompletionId, completions, completionCount, stakeUnlockAt,
                     receipts, disputeCount, stake, slashedEthPool>>
  BY DEF cancelChallenge, activity
<1>4. Typed'
  <2>1. pendingWithdrawals' \in [Accounts -> Nat]
    BY <1>1, <1>3, AmountAssumption DEF IInv, Typed
  <2> QED BY <1>2, <1>3, <2>1 DEF IInv, Typed, Ids, receipts
<1>5. Total(owedTo, Accounts)' = Total(owedTo, Accounts) + CHALLENGE_BOND
  <2>1. ASSUME NEW b \in Accounts
        PROVE  stake'[b] + pendingWithdrawals'[b] =
                  stake[b] + pendingWithdrawals[b] + (IF b = sender THEN CHALLENGE_BOND ELSE 0)
    BY <1>1, <1>3, AmountAssumption DEF IInv, Typed
  <2>2. CHALLENGE_BOND \in Int
    BY AmountAssumption
  <2> QED BY <1>1, <2>1, <2>2, OwedChange DEF IInv
<1>6. Booked'
  <2>1. Total(owedTo, Accounts) \in Int /\ CHALLENGE_BOND * Cardinality(AllPending) \in Nat
    BY OwedType, PendingType, BondSteps DEF IInv
  <2> QED BY <1>2, <1>3, <1>5, <2>1, AmountAssumption DEF Booked, IInv, Typed
<1> QED BY <1>2, <1>4, <1>6 DEF IInv

\* A challenge upheld: the agent's stake pays as far as it goes, the challenger is owed
\* the bond and what the stake paid, and a receipt falls.
LEMMA UpholdStep ==
  ASSUME IInv, NEW id \in Ids, Pending(id), _uphold(id)
  PROVE  IInv'
<1> DEFINE d == [completions[id] EXCEPT !.disputed = TRUE]
           k == [d EXCEPT !.counterparty = Zero]
           h == [challenges[id] EXCEPT !.resolved = TRUE]
<1>1. /\ Typed /\ Sound /\ Counted /\ Booked
      /\ completions[id] \in Completion /\ challenges[id] \in Challenge
      /\ completions[id].challenged /\ ~challenges[id].resolved
  BY DEF IInv, Typed, Pending
<1>2. ~completions[id].disputed
  BY <1>1 DEF Sound, SoundEntry
<1>3. PICK a \in Accounts : a = Agent(id)
  BY <1>1 DEF Sound, SoundEntry, Completion, Agent
<1>4. PICK c \in Accounts : c = challenges[id].challenger
  BY <1>1 DEF Sound, SoundEntry
<1>5. PICK lost \in Nat : lost = Slash(id) /\ lost <= stake[a]
  <2>1. stake[a] \in Nat /\ SLASH_PER_DISPUTE \in Nat
    BY <1>1, AmountAssumption DEF Typed
  <2>2. Slash(id) = IF SLASH_PER_DISPUTE <= stake[a] THEN SLASH_PER_DISPUTE ELSE stake[a]
    BY <1>3, <2>1, MinOfTwo DEF Slash
  <2> QED BY <2>1, <2>2
<1>6. PICK s \in Accounts \cup {Zero} : s = completions[id].counterparty
  BY <1>1 DEF Completion
<1>7. /\ k \in Completion /\ k.agent = a /\ k.timestamp = completions[id].timestamp
      /\ k.challenged /\ k.disputed /\ k.counterparty = Zero
  <2>1. /\ d \in Completion /\ d.agent = a /\ d.timestamp = completions[id].timestamp
        /\ d.challenged /\ d.disputed
    BY <1>1, <1>3 DEF Completion, Agent
  <2> HIDE DEF d
  <2> QED BY <2>1 DEF Completion
<1>8. h \in Challenge /\ h.challenger = c /\ h.resolved
  BY <1>1, <1>4 DEF Challenge
<1>9. completions' = [completions EXCEPT ![id] = k]
  <2>1. [completions EXCEPT ![id].disputed = TRUE, ![id].counterparty = Zero] =
           [completions EXCEPT ![id] = k]
    BY <1>1 DEF Typed
  <2> QED BY <2>1 DEF _uphold
<1>10. /\ challenges' = [challenges EXCEPT ![id] = h]
       /\ disputeCount' = [disputeCount EXCEPT ![a] = disputeCount[a] + 1]
       /\ pendingChallenges' = [pendingChallenges EXCEPT ![a] = pendingChallenges[a] - 1]
       /\ stake' = [stake EXCEPT ![a] = stake[a] - lost]
       /\ pendingWithdrawals' = [pendingWithdrawals EXCEPT ![c] =
                                   pendingWithdrawals[c] + CHALLENGE_BOND + lost]
       /\ s = Zero => UNCHANGED receipts
       /\ s # Zero => /\ confirmedCount' = [confirmedCount EXCEPT ![a] = confirmedCount[a] - 1]
                      /\ _decrementCounterparty(a, s)
       /\ UNCHANGED <<now, eth, nextCompletionId, completionCount, stakeUnlockAt, slashedEthPool>>
  BY <1>3, <1>4, <1>5, <1>6 DEF _uphold, activity
<1> HIDE DEF d, k, h
<1>11. SoundEntry(k, h)
  BY <1>3, <1>4, <1>7, <1>8, AccountAssumption DEF SoundEntry
<1>12. completions' \in [Ids -> Completion] /\ challenges' \in [Ids -> Challenge] /\ Sound'
  BY <1>1, <1>3, <1>7, <1>8, <1>9, <1>10, <1>11, EntrySound
<1>13. /\ counterpartyConfirmations' \in [Accounts -> [Accounts -> Int]]
       /\ distinctCounterparties' \in [Accounts -> Int]
       /\ \A b, r \in Accounts :
             counterpartyConfirmations'[b][r] =
                counterpartyConfirmations[b][r] - One(b = a /\ r = s)
       /\ \A b \in Accounts : distinctCounterparties'[b] = Cardinality(PartnersOf(b)')
       /\ confirmedCount' \in [Accounts -> Int]
       /\ \A b \in Accounts : confirmedCount'[b] = confirmedCount[b] - One(b = a /\ s # Zero)
  <2>1. CASE s = Zero
    <3>1. \A b \in Accounts : PartnersOf(b)' = PartnersOf(b)
      BY <1>10, <2>1 DEF PartnersOf, receipts
    <3>2. \A b, r \in Accounts : counterpartyConfirmations[b][r] \in Int /\ r # s
      BY <1>1, <2>1, AccountAssumption DEF Typed
    <3>3. \A b \in Accounts : confirmedCount[b] \in Int
      BY <1>1 DEF Typed
    <3>4. /\ \A b, r \in Accounts :
                counterpartyConfirmations'[b][r] =
                   counterpartyConfirmations[b][r] - One(b = a /\ r = s)
          /\ \A b \in Accounts : confirmedCount'[b] = confirmedCount[b] - One(b = a /\ s # Zero)
      BY <1>10, <2>1, <3>2, <3>3 DEF One, receipts
    <3> QED BY <1>1, <1>10, <2>1, <3>1, <3>4 DEF receipts, Typed, Counted
  <2>2. CASE s # Zero
    <3>1. s \in Accounts
      BY <2>2
    <3>2. PICK n \in Nat \ {0} : counterpartyConfirmations[a][s] = n
      BY <1>1, <1>3, <1>6, <3>1, HeldReceipt
    <3>3. /\ counterpartyConfirmations' \in [Accounts -> [Accounts -> Int]]
          /\ distinctCounterparties' \in [Accounts -> Int]
          /\ \A b, r \in Accounts :
                counterpartyConfirmations'[b][r] =
                   counterpartyConfirmations[b][r] - One(b = a /\ r = s)
          /\ \A b \in Accounts : distinctCounterparties'[b] = Cardinality(PartnersOf(b)')
      BY <1>1, <1>10, <2>2, <3>1, <3>2, PartnerLost
    <3>4. /\ confirmedCount' \in [Accounts -> Int]
          /\ \A b \in Accounts : confirmedCount'[b] = confirmedCount[b] - One(b = a /\ s # Zero)
      BY <1>1, <1>10, <2>2 DEF Typed, One
    <3> QED BY <3>3, <3>4
  <2> QED BY <2>1, <2>2
<1>14. Typed'
  <2>1. /\ disputeCount' \in [Accounts -> Int] /\ pendingChallenges' \in [Accounts -> Int]
        /\ stake' \in [Accounts -> Nat] /\ pendingWithdrawals' \in [Accounts -> Nat]
    BY <1>1, <1>5, <1>10, AmountAssumption DEF Typed
  <2> QED BY <1>1, <1>10, <1>12, <1>13, <2>1 DEF Typed, Ids
<1>15. Counted' /\ Cardinality(AllPending') = Cardinality(AllPending) - 1
  <2>1. /\ completions'[id] = k /\ challenges'[id] = h
        /\ \A x \in Ids : x # id => completions'[x] = completions[x] /\ challenges'[x] = challenges[x]
    BY <1>1, <1>9, <1>10 DEF Typed
  <2>2. Agent(id) = a /\ completions'[id].agent = a /\ ~Pending(id)' /\ Pending(id)
    BY <1>3, <1>7, <1>8, <2>1 DEF Pending
  <2>3. /\ ~completions[id].disputed /\ completions'[id].disputed
        /\ completions[id].counterparty = s /\ completions'[id].counterparty = Zero
    BY <1>2, <1>6, <1>7, <2>1
  <2>4. ASSUME NEW b \in Accounts
        PROVE  disputeCount'[b] = disputeCount[b] + One(b = a /\ completions'[id].disputed)
                                                  - One(b = a /\ completions[id].disputed)
    BY <1>1, <1>10, <2>3 DEF One, Typed
  <2>5. ASSUME NEW b \in Accounts
        PROVE  pendingChallenges'[b] = pendingChallenges[b] + One(b = a /\ Pending(id)')
                                                            - One(b = a /\ Pending(id))
    BY <1>1, <1>10, <2>2 DEF One, Typed
  <2>6. ASSUME NEW b \in Accounts
        PROVE  confirmedCount'[b] = confirmedCount[b]
                                       + One(b = a /\ completions'[id].counterparty # Zero)
                                       - One(b = a /\ completions[id].counterparty # Zero)
    BY <1>1, <1>13, <2>3 DEF One, Typed
  <2>7. ASSUME NEW b \in Accounts, NEW r \in Accounts
        PROVE  counterpartyConfirmations'[b][r] =
                  counterpartyConfirmations[b][r]
                     + One(b = a /\ completions'[id].counterparty = r)
                     - One(b = a /\ completions[id].counterparty = r)
    BY <1>1, <1>13, <2>3, AccountAssumption DEF One, Typed
  <2>8. Counted' /\ Cardinality(AllPending') =
                       Cardinality(AllPending) + One(Pending(id)') - One(Pending(id))
    BY <1>1, <1>10, <1>13, <2>1, <2>2, <2>4, <2>5, <2>6, <2>7, CountersFollow
  <2> QED BY <2>2, <2>8, PendingType DEF One
<1>16. Booked'
  <2>1. PICK won \in Int : won = CHALLENGE_BOND + lost
    BY AmountAssumption
  <2>2. \A b \in Accounts :
           stake'[b] + pendingWithdrawals'[b] =
              stake[b] + pendingWithdrawals[b] - (IF b = a THEN lost ELSE 0)
                 + (IF b = c THEN won ELSE 0)
    BY <1>1, <1>5, <1>10, <2>1, AmountAssumption DEF Typed
  <2>3. Total(owedTo, Accounts)' = Total(owedTo, Accounts) - lost + won
    <3>1. lost \in Int /\ Typed
      BY <1>1
    <3> QED BY <2>2, <3>1, OwedMoves
  <2>4. CHALLENGE_BOND * Cardinality(AllPending') =
           CHALLENGE_BOND * Cardinality(AllPending) - CHALLENGE_BOND
    BY <1>15, PendingType, BondSteps
  <2>5. Total(owedTo, Accounts) \in Int /\ CHALLENGE_BOND * Cardinality(AllPending) \in Nat
    BY <1>1, OwedType, PendingType, BondSteps
  <2> QED BY <1>1, <1>10, <2>1, <2>3, <2>4, <2>5, AmountAssumption DEF Booked, Typed
<1> QED BY <1>12, <1>14, <1>15, <1>16 DEF IInv

\* Stakes and refunds: what comes in or goes out is what one account is owed more or less.
LEMMA AccountStep ==
  ASSUME IInv, NEW a \in Accounts, NEW d \in Int, eth' = eth + d,
         stake' \in [Accounts -> Nat], pendingWithdrawals' \in [Accounts -> Nat],
         \A b \in Accounts : stake'[b] + pendingWithdrawals'[b] =
                                stake[b] + pendingWithdrawals[b] + (IF b = a THEN d ELSE 0),
         UNCHANGED <<now, nextCompletionId, completions, challenges, activity, receipts,
                     disputeCount, pendingChallenges, slashedEthPool>>
  PROVE  IInv'
<1>1. UNCHANGED <<completionCount, stakeUnlockAt>>
  BY DEF activity
<1>2. Typed'
  BY <1>1 DEF IInv, Typed, Ids, receipts
<1>3. Sound'
  BY <1>1 DEF IInv, Sound, SoundEntry, Exists, Agent, Ids
<1>4. Counted' /\ Cardinality(AllPending)' = Cardinality(AllPending)
  BY <1>1, CountersUntouched
<1>5. Booked'
  <2>1. Total(owedTo, Accounts)' = Total(owedTo, Accounts) + d
    BY OwedChange DEF IInv
  <2>2. Total(owedTo, Accounts) \in Int /\ CHALLENGE_BOND * Cardinality(AllPending) \in Nat
    BY OwedType, PendingType, BondSteps DEF IInv
  <2> QED BY <1>4, <2>1, <2>2 DEF Booked, IInv, Typed
<1> QED BY <1>2, <1>3, <1>4, <1>5 DEF IInv

LEMMA MoneySteps ==
  ASSUME IInv, MoveEth
  PROVE  IInv'
<1>1. /\ stake \in [Accounts -> Nat] /\ pendingWithdrawals \in [Accounts -> Nat]
  BY DEF IInv, Typed
<1>2. ASSUME NEW a \in Accounts, withdrawRefund(a)
      PROVE  IInv'
  <2>1. PICK w \in Nat : w = pendingWithdrawals[a]
    BY <1>1
  <2>2. -w \in Int /\ eth' = eth + (-w)
    <3>1. eth' = eth - w
      BY <1>2, <2>1 DEF withdrawRefund, Send
    <3>2. eth \in Int
      <4>1. Total(owedTo, Accounts) \in Int /\ CHALLENGE_BOND * Cardinality(AllPending) \in Nat
        BY OwedType, PendingType, BondSteps DEF IInv
      <4> QED BY <4>1 DEF IInv, Booked, Typed
    <3> QED BY <3>1, <3>2
  <2>3. pendingWithdrawals' = [pendingWithdrawals EXCEPT ![a] = 0] /\ stake' = stake
    BY <1>2 DEF withdrawRefund
  <2>4. pendingWithdrawals' \in [Accounts -> Nat] /\ stake' \in [Accounts -> Nat]
    BY <1>1, <2>3
  <2>5. \A b \in Accounts : stake'[b] + pendingWithdrawals'[b] =
                               stake[b] + pendingWithdrawals[b] + (IF b = a THEN -w ELSE 0)
    BY <1>1, <2>1, <2>3
  <2> QED BY <1>2, <2>2, <2>4, <2>5, AccountStep DEF withdrawRefund
<1>3. ASSUME NEW a \in Attesters, NEW amount \in Deposits, depositStake(a, amount)
      PROVE  IInv'
  <2>1. a \in Accounts /\ amount \in Nat
    BY AccountAssumption, AmountAssumption
  <2>2. stake' = [stake EXCEPT ![a] = stake[a] + amount] /\ pendingWithdrawals' = pendingWithdrawals
    BY <1>3 DEF depositStake
  <2>3. pendingWithdrawals' \in [Accounts -> Nat] /\ stake' \in [Accounts -> Nat]
    BY <1>1, <2>1, <2>2
  <2>4. \A b \in Accounts : stake'[b] + pendingWithdrawals'[b] =
                               stake[b] + pendingWithdrawals[b] + (IF b = a THEN amount ELSE 0)
    BY <1>1, <2>1, <2>2
  <2> QED BY <1>3, <2>1, <2>3, <2>4, AccountStep DEF depositStake
<1>4. ASSUME NEW a \in Attesters, NEW amount \in Deposits \cup {stake[a]}, withdrawStake(a, amount)
      PROVE  IInv'
  <2>1. a \in Accounts /\ amount <= stake[a]
    BY <1>4, AccountAssumption DEF withdrawStake
  <2>2. PICK w \in Nat : w = amount
    BY <1>1, <2>1, AmountAssumption
  <2>3. -w \in Int /\ eth' = eth + (-w)
    <3>1. eth' = eth - w
      BY <1>4, <2>2 DEF withdrawStake, Send
    <3>2. eth \in Int
      <4>1. Total(owedTo, Accounts) \in Int /\ CHALLENGE_BOND * Cardinality(AllPending) \in Nat
        BY OwedType, PendingType, BondSteps DEF IInv
      <4> QED BY <4>1 DEF IInv, Booked, Typed
    <3> QED BY <3>1, <3>2
  <2>4. stake' = [stake EXCEPT ![a] = stake[a] - w] /\ pendingWithdrawals' = pendingWithdrawals
    BY <1>4, <2>2 DEF withdrawStake
  <2>5. pendingWithdrawals' \in [Accounts -> Nat] /\ stake' \in [Accounts -> Nat]
    BY <1>1, <2>1, <2>2, <2>4
  <2>6. \A b \in Accounts : stake'[b] + pendingWithdrawals'[b] =
                               stake[b] + pendingWithdrawals[b] + (IF b = a THEN -w ELSE 0)
    BY <1>1, <2>1, <2>2, <2>4
  <2> QED BY <1>4, <2>1, <2>3, <2>5, <2>6, AccountStep DEF withdrawStake
<1> QED BY <1>2, <1>3, <1>4 DEF MoveEth

\* Every step keeps the invariant.
LEMMA StepInv == IInv /\ [Next]_vars => IInv'
<1> SUFFICES ASSUME IInv, [Next]_vars PROVE IInv'
  OBVIOUS
<1>1. ASSUME UNCHANGED <<eth, nextCompletionId, completions, challenges, activity, receipts,
                         disputeCount, stake, pendingChallenges, pendingWithdrawals>>,
             now' \in Nat, now <= now', slashedEthPool' = slashedEthPool
      PROVE  IInv'
  <2>1. UNCHANGED <<completionCount, stakeUnlockAt>>
    BY <1>1 DEF activity
  <2>2. Typed'
    BY <1>1, <2>1 DEF IInv, Typed, Ids, receipts
  <2>3. Sound'
    <3>1. ASSUME NEW id \in Ids, Exists(id)
          PROVE  completions[id].timestamp <= now'
      <4>1. completions[id].timestamp \in Nat /\ now \in Nat /\ completions[id].timestamp <= now
        BY <3>1 DEF IInv, Typed, Sound, Completion
      <4> QED BY <1>1, <4>1
    <3>2. \A id \in Ids : SoundEntry(completions[id], challenges[id])'
      BY <1>1 DEF IInv, Sound, SoundEntry
    <3> QED BY <1>1, <2>1, <3>1, <3>2 DEF IInv, Sound, Exists, Agent, Ids
  <2>4. Counted' /\ Cardinality(AllPending)' = Cardinality(AllPending)
    BY <1>1, <2>1, CountersUntouched
  <2>5. Booked'
    BY <1>1, <2>4, OwedSame DEF IInv, Booked
  <2> QED BY <2>2, <2>3, <2>4, <2>5 DEF IInv
<1>2. now \in Nat /\ now <= now /\ now <= now + 1 /\ now + 1 \in Nat
  BY DEF IInv, Typed
<1>3. CASE Tick
  BY <1>1, <1>2, <1>3 DEF Tick
<1>4. CASE OwnerActs
  <2>1. CASE setPaused
    BY <1>1, <1>2, <2>1 DEF setPaused
  <2>2. CASE \E cooldown \in Cooldowns : setAttestCooldown(cooldown)
    BY <1>1, <1>2, <2>2 DEF setAttestCooldown
  <2>3. ASSUME NEW id \in Ids, NEW upheld \in BOOLEAN, resolveChallenge(id, upheld)
        PROVE  IInv'
    BY <2>3, UpholdStep, RejectStep DEF resolveChallenge
  <2>4. ASSUME NEW amount \in {CHALLENGE_BOND, slashedEthPool}, withdrawEthPool(amount)
        PROVE  IInv'
    <3>1. /\ amount \in Nat /\ amount <= slashedEthPool
          /\ eth' = eth - amount /\ slashedEthPool' = slashedEthPool - amount
          /\ UNCHANGED <<now, nextCompletionId, completions, challenges, activity, receipts,
                         disputeCount, stake, pendingChallenges, pendingWithdrawals>>
      BY <2>4, AmountAssumption DEF IInv, Typed, withdrawEthPool, Send
    <3>2. UNCHANGED <<completionCount, stakeUnlockAt>>
      BY <3>1 DEF activity
    <3>3. slashedEthPool' \in Nat
      BY <3>1 DEF IInv, Typed
    <3>4. Typed'
      BY <3>1, <3>2, <3>3 DEF IInv, Typed, Ids, receipts
    <3>5. Sound'
      BY <3>1, <3>2 DEF IInv, Sound, SoundEntry, Exists, Agent, Ids
    <3>6. Counted' /\ Cardinality(AllPending)' = Cardinality(AllPending)
      BY <3>1, <3>2, CountersUntouched
    <3>7. Booked'
      <4>1. Total(owedTo, Accounts) \in Int /\ CHALLENGE_BOND * Cardinality(AllPending) \in Nat
        BY OwedType, PendingType, BondSteps DEF IInv
      <4> QED BY <3>1, <3>6, <4>1, OwedSame DEF IInv, Booked, Typed
    <3> QED BY <3>4, <3>5, <3>6, <3>7 DEF IInv
  <2> QED BY <1>4, <2>1, <2>2, <2>3, <2>4 DEF OwnerActs
<1>5. CASE Attest
  BY <1>5, AttestStep, ReceiptStep, RevokeStep DEF Attest
<1>6. CASE Dispute
  <2>1. ASSUME NEW id \in Ids, finalizeChallenge(id)
        PROVE  IInv'
    BY <2>1, UpholdStep DEF finalizeChallenge
  <2> QED BY <1>6, <2>1, ChallengeStep, ContestStep, CancelStep DEF Dispute
<1>7. CASE MoveEth
  BY <1>7, MoneySteps
<1>8. CASE UNCHANGED vars
  BY <1>1, <1>2, <1>8 DEF vars, control
<1> QED BY <1>3, <1>4, <1>5, <1>6, <1>7, <1>8 DEF Next

-----------------------------------------------------------------------------
(* What follows *)

\* The inductive invariant.
THEOREM OracleKept == Spec => []IInv
BY InitInv, StepInv, PTL DEF Spec

\* What was found fraudulent carries no receipt, whichever came first.
THEOREM FraudStaysBare == Spec => []FraudNeverConfirmed
<1>1. IInv => FraudNeverConfirmed
  BY DEF IInv, Sound, SoundEntry, FraudNeverConfirmed
<1> QED BY <1>1, OracleKept, PTL

\* The counters behind the scores never drift from the completions they summarise.
THEOREM CountersAreExact == Spec => []CountersMatchCompletions
<1>1. IInv => CountersMatchCompletions
  <2> SUFFICES ASSUME IInv, NEW a \in Accounts
               PROVE  LET mine == {id \in Ids : Agent(id) = a}
                          signed == [r \in Accounts |->
                                       {id \in mine : completions[id].counterparty = r}]
                      IN  /\ completionCount[a] = Cardinality(mine)
                          /\ disputeCount[a] = Cardinality({id \in mine : completions[id].disputed})
                          /\ pendingChallenges[a] = Cardinality({id \in mine : Pending(id)})
                          /\ \A r \in Accounts :
                                counterpartyConfirmations[a][r] = Cardinality(signed[r])
                          /\ confirmedCount[a] = Cardinality(UNION {signed[r] : r \in Accounts})
                          /\ distinctCounterparties[a] =
                                Cardinality({r \in Accounts : signed[r] # {}})
    BY DEF CountersMatchCompletions
  <2> DEFINE mine == {id \in Ids : Agent(id) = a}
             signed == [r \in Accounts |-> {id \in mine : completions[id].counterparty = r}]
  <2>1. /\ mine = MineOf(a)
        /\ {id \in mine : completions[id].disputed} = DisputedOf(a)
        /\ {id \in mine : Pending(id)} = PendingOf(a)
        /\ \A r \in Accounts : signed[r] = SignedOf(a, r)
    BY DEF MineOf, DisputedOf, PendingOf, SignedOf
  <2>2. UNION {signed[r] : r \in Accounts} = ConfirmedOf(a)
    <3>1. \A id \in Ids : completions[id].counterparty # Zero <=>
                             \E r \in Accounts : completions[id].counterparty = r
      BY AccountAssumption DEF IInv, Typed, Completion
    <3>2. \A id : id \in UNION {signed[r] : r \in Accounts} <=>
                     id \in mine /\ \E r \in Accounts : completions[id].counterparty = r
      OBVIOUS
    <3> QED BY <3>1, <3>2 DEF ConfirmedOf
  <2>3. {r \in Accounts : signed[r] # {}} = PartnersOf(a)
    <3>1. ASSUME NEW r \in Accounts
          PROVE  signed[r] # {} <=> counterpartyConfirmations[a][r] # 0
      <4>1. signed[r] = SignedOf(a, r) /\ IsFiniteSet(SignedOf(a, r))
        BY <2>1, IdsFinite, FS_Subset DEF SignedOf
      <4>2. Cardinality(SignedOf(a, r)) = 0 <=> SignedOf(a, r) = {}
        BY <4>1, FS_EmptySet
      <4> QED BY <4>1, <4>2 DEF IInv, Counted
    <3> HIDE DEF signed
    <3> QED BY <3>1 DEF PartnersOf
  <2> HIDE DEF mine, signed
  <2>4. /\ completionCount[a] = Cardinality(mine)
        /\ disputeCount[a] = Cardinality({id \in mine : completions[id].disputed})
        /\ pendingChallenges[a] = Cardinality({id \in mine : Pending(id)})
        /\ \A r \in Accounts : counterpartyConfirmations[a][r] = Cardinality(signed[r])
        /\ confirmedCount[a] = Cardinality(UNION {signed[r] : r \in Accounts})
        /\ distinctCounterparties[a] = Cardinality({r \in Accounts : signed[r] # {}})
    BY <2>1, <2>2, <2>3 DEF IInv, Counted
  <2> QED BY <2>4 DEF mine, signed
<1> QED BY <1>1, OracleKept, PTL

\* The sum of the property is the total of what the accounts are owed.
LEMMA SumOfDebts ==
  MapThenSumSet(LAMBDA a : stake[a] + pendingWithdrawals[a], Accounts) = Total(owedTo, Accounts)
<1> DEFINE IsSum(h) == h = [s \in SUBSET Accounts |->
                              IF s = {} THEN 0
                              ELSE stake[First(s)] + pendingWithdrawals[First(s)]
                                      + h[s \ {First(s)}]]
<1>1. ASSUME NEW h PROVE IsSum(h) <=> IsTable(h, owedTo, Accounts)
  <2>1. \A s \in SUBSET Accounts :
           s # {} => owedTo[First(s)] = stake[First(s)] + pendingWithdrawals[First(s)]
    BY DEF First, owedTo
  <2> QED BY <2>1 DEF IsTable
<1>2. MapThenSumSet(LAMBDA a : stake[a] + pendingWithdrawals[a], Accounts) =
         (CHOOSE h : IsSum(h))[Accounts]
  BY DEF MapThenSumSet, MapThenFoldSet, First
<1>3. (CHOOSE h : IsSum(h)) = (CHOOSE h : IsTable(h, owedTo, Accounts))
  <2> HIDE DEF IsSum
  <2> QED BY <1>1, Zenon
<1> QED BY <1>2, <1>3 DEF Total, Table

\* The contract's ETH is exactly what it owes: no subtraction blocks an exit.
THEOREM EthIsAccounted == Spec => []EthAccounted
<1>1. IInv => EthAccounted
  <2> SUFFICES ASSUME IInv PROVE EthAccounted
    OBVIOUS
  <2>1. slashedEthPool >= 0 /\ \A a \in Accounts : stake[a] >= 0 /\ pendingWithdrawals[a] >= 0
    BY DEF IInv, Typed
  <2>2. eth = MapThenSumSet(LAMBDA a : stake[a] + pendingWithdrawals[a], Accounts)
                 + CHALLENGE_BOND * Cardinality({id \in Ids : Pending(id)}) + slashedEthPool
    BY SumOfDebts DEF IInv, Booked, AllPending
  <2> QED BY <2>1, <2>2 DEF EthAccounted
<1> QED BY <1>1, OracleKept, PTL

\* Stake leaves only by an upheld challenge or when nothing of the agent is at risk.
THEOREM StakeIsHeld == Spec => StakeStaysAtRisk
<1> DEFINE Held == \A a \in Accounts :
                      stake'[a] < stake[a] =>
                         \/ \E id \in Ids : Agent(id) = a /\ Upheld(id)
                         \/ \A id \in Ids : Agent(id) = a =>
                               /\ ~Pending(id)
                               /\ Challengeable(id) =>
                                     now = completions[id].timestamp + CHALLENGE_ELIGIBILITY
<1>1. ASSUME IInv, [Next]_vars PROVE Held
  <2>1. stake \in [Accounts -> Nat]
    BY <1>1 DEF IInv, Typed
  <2>2. CASE UNCHANGED stake
    <3>1. \A a \in Accounts : ~(stake'[a] < stake[a])
      BY <2>1, <2>2
    <3> QED BY <3>1
  <2>3. ASSUME NEW id \in Ids, Pending(id), _uphold(id)
        PROVE  Held
    <3>1. PICK x : x = Agent(id)
      OBVIOUS
    <3>2. Upheld(id)
      <4>1. ~completions[id].disputed /\ completions[id] \in Completion
        BY <1>1, <2>3 DEF IInv, Typed, Sound, SoundEntry, Pending
      <4>2. completions'[id].disputed
        BY <1>1, <2>3, <4>1 DEF _uphold, IInv, Typed, Completion
      <4> QED BY <4>1, <4>2 DEF Upheld
    <3>3. \A a \in Accounts : a # x => stake'[a] = stake[a]
      BY <2>1, <2>3, <3>1 DEF _uphold
    <3>4. \A a \in Accounts : stake'[a] < stake[a] => a = x
      BY <2>1, <3>3
    <3> QED BY <3>1, <3>2, <3>4
  <2>4. ASSUME NEW a \in Attesters, NEW amount \in Deposits, depositStake(a, amount)
        PROVE  Held
    <3>1. a \in Accounts /\ amount \in Nat /\ stake' = [stake EXCEPT ![a] = stake[a] + amount]
      BY <2>4, AccountAssumption, AmountAssumption DEF depositStake
    <3>2. \A b \in Accounts : ~(stake'[b] < stake[b])
      BY <2>1, <3>1
    <3> QED BY <3>2
  <2>5. ASSUME NEW a \in Attesters, NEW amount \in Deposits \cup {stake[a]},
               withdrawStake(a, amount)
        PROVE  Held
    <3>1. /\ a \in Accounts /\ now >= stakeUnlockAt[a] /\ pendingChallenges[a] = 0
          /\ stake' = [stake EXCEPT ![a] = stake[a] - amount]
      BY <2>5, AccountAssumption DEF withdrawStake
    <3>2. \A b \in Accounts : b # a => ~(stake'[b] < stake[b])
      BY <2>1, <3>1
    <3>3. PendingOf(a) = {}
      <4>1. IsFiniteSet(PendingOf(a))
        BY IdsFinite, FS_Subset DEF PendingOf
      <4>2. Cardinality(PendingOf(a)) = 0
        BY <1>1, <3>1 DEF IInv, Counted
      <4> QED BY <4>1, <4>2, FS_EmptySet
    <3>4. ASSUME NEW id \in Ids, Agent(id) = a
          PROVE  /\ ~Pending(id)
                 /\ Challengeable(id) =>
                       now = completions[id].timestamp + CHALLENGE_ELIGIBILITY
      <4>1. ~Pending(id)
        BY <3>3, <3>4 DEF PendingOf
      <4>2. completions[id].timestamp + CHALLENGE_ELIGIBILITY <= stakeUnlockAt[a]
        BY <1>1, <3>1, <3>4, AccountAssumption DEF IInv, Sound, Exists, Agent
      <4>3. completions[id].timestamp \in Nat /\ stakeUnlockAt[a] \in Nat /\ now \in Nat
        BY <1>1, <3>1 DEF IInv, Typed, Completion
      <4> QED BY <3>1, <4>1, <4>2, <4>3, AmountAssumption DEF Challengeable
    <3> QED BY <3>2, <3>4
  <2>6. CASE Tick
    BY <2>2, <2>6 DEF Tick
  <2>7. CASE OwnerActs
    <3>1. ASSUME NEW id \in Ids, NEW upheld \in BOOLEAN, resolveChallenge(id, upheld)
          PROVE  Held
      BY <2>2, <2>3, <3>1 DEF resolveChallenge
    <3> HIDE DEF Held
    <3> QED BY <2>2, <2>7, <3>1 DEF OwnerActs, setPaused, setAttestCooldown, withdrawEthPool
  <2>8. CASE Attest
    BY <2>2, <2>8 DEF Attest, attestCompletion, attestReceipt, revokeReceipt
  <2>9. CASE Dispute
    <3>1. ASSUME NEW id \in Ids, finalizeChallenge(id)
          PROVE  Held
      BY <2>3, <3>1 DEF finalizeChallenge
    <3> HIDE DEF Held
    <3> QED BY <2>2, <2>9, <3>1 DEF Dispute, challengeCompletion, contestChallenge, cancelChallenge
  <2>10. CASE MoveEth
    <3>1. ASSUME NEW a \in Accounts, withdrawRefund(a)
          PROVE  Held
      BY <2>2, <3>1 DEF withdrawRefund
    <3> HIDE DEF Held
    <3> QED BY <2>4, <2>5, <2>10, <3>1 DEF MoveEth
  <2>11. CASE UNCHANGED vars
    BY <2>2, <2>11 DEF vars
  <2> HIDE DEF Held
  <2> QED BY <1>1, <2>6, <2>7, <2>8, <2>9, <2>10, <2>11 DEF Next
<1>2. IInv /\ [Next]_vars => [Held]_vars
  BY <1>1
<1> QED BY <1>2, OracleKept, PTL DEF Spec, StakeStaysAtRisk
-----------------------------------------------------------------------------
(* The scores *)

LEMMA DivisionMonotone ==
  ASSUME NEW x \in Nat, NEW y \in Nat, NEW n \in Nat \ {0}, x <= y
  PROVE  x \div n <= y \div n /\ x \div n \in Nat
<1> DEFINE p == x \div n
           q == y \div n
<1>1. p \in Nat /\ q \in Nat /\ n * p <= x /\ y < n * (q + 1)
  OBVIOUS
<1> HIDE DEF p, q
<1>2. n * p < n * (q + 1)
  BY <1>1
<1>3. p < q + 1
  <2> SUFFICES ASSUME p >= q + 1 PROVE FALSE
    BY <1>1
  <2>1. n * p >= n * (q + 1)
    BY <1>1
  <2> QED BY <1>1, <1>2, <2>1
<1>4. p <= q
  BY <1>1, <1>3
<1> QED BY <1>1, <1>4 DEF p, q

LEMMA ProductMonotone ==
  ASSUME NEW x \in Nat, NEW y \in Nat, NEW m \in Nat, NEW n \in Nat, x <= y, m <= n
  PROVE  x * m <= y * n /\ x * m \in Nat /\ y * n \in Nat
<1>1. x * m <= y * m /\ y * m <= y * n
  OBVIOUS
<1> QED BY <1>1

\* The longer ago, the less of a score is left.
LEMMA DecayFalls ==
  ASSUME NEW e \in Int, NEW f \in Int, e <= f
  PROVE  _decayBps(f) <= _decayBps(e) /\ _decayBps(e) \in Nat /\ _decayBps(f) \in Nat
<1>1. DECAY_GRACE \in Nat /\ DECAY_HORIZON \in Nat \ {0}
  BY AmountAssumption
<1> DEFINE rest(t) == DECAY_HORIZON - (t - DECAY_GRACE)
           bps(t) == (rest(t) * BPS_DENOMINATOR) \div DECAY_HORIZON
<1>2. ASSUME NEW t \in Int, t > DECAY_GRACE, t < DECAY_GRACE + DECAY_HORIZON
      PROVE  /\ rest(t) \in Nat /\ rest(t) <= DECAY_HORIZON /\ _decayBps(t) = bps(t)
             /\ bps(t) \in Nat /\ bps(t) <= BPS_DENOMINATOR
  <2>1. rest(t) \in Nat /\ rest(t) <= DECAY_HORIZON /\ _decayBps(t) = bps(t)
    BY <1>1, <1>2 DEF _decayBps
  <2> DEFINE x == rest(t) * BPS_DENOMINATOR
             y == DECAY_HORIZON * BPS_DENOMINATOR
  <2>2. x \in Nat /\ y \in Nat /\ x <= y
    BY <1>1, <2>1 DEF BPS_DENOMINATOR
  <2>3. y \div DECAY_HORIZON = BPS_DENOMINATOR
    BY <1>1 DEF BPS_DENOMINATOR
  <2>4. bps(t) = x \div DECAY_HORIZON
    OBVIOUS
  <2> HIDE DEF x, y, bps, rest
  <2>5. x \div DECAY_HORIZON <= y \div DECAY_HORIZON /\ x \div DECAY_HORIZON \in Nat
    BY <1>1, <2>2, DivisionMonotone
  <2> QED BY <2>1, <2>3, <2>4, <2>5
<1>3. ASSUME NEW t \in Int
      PROVE  /\ t <= DECAY_GRACE => _decayBps(t) = BPS_DENOMINATOR
             /\ t >= DECAY_GRACE + DECAY_HORIZON => _decayBps(t) = 0
  BY <1>1 DEF _decayBps
<1>4. CASE e > DECAY_GRACE /\ f < DECAY_GRACE + DECAY_HORIZON
  <2> DEFINE x == rest(f) * BPS_DENOMINATOR
             y == rest(e) * BPS_DENOMINATOR
  <2>1. e < DECAY_GRACE + DECAY_HORIZON /\ f > DECAY_GRACE
    BY <1>1, <1>4
  <2>2. rest(f) <= rest(e) /\ rest(e) \in Nat /\ rest(f) \in Nat
    BY <1>1, <1>2, <1>4, <2>1
  <2>3. x \in Nat /\ y \in Nat /\ x <= y
    <3> HIDE DEF rest
    <3> QED BY <2>2 DEF BPS_DENOMINATOR
  <2>4. _decayBps(e) = y \div DECAY_HORIZON /\ _decayBps(f) = x \div DECAY_HORIZON
    BY <1>2, <1>4, <2>1
  <2>5. /\ x \div DECAY_HORIZON <= y \div DECAY_HORIZON /\ x \div DECAY_HORIZON \in Nat
        /\ y \div DECAY_HORIZON \in Nat
    <3> HIDE DEF x, y
    <3> QED BY <1>1, <2>3, DivisionMonotone
  <2> QED BY <2>4, <2>5
<1>5. CASE ~(e > DECAY_GRACE /\ f < DECAY_GRACE + DECAY_HORIZON)
  <2>0. BPS_DENOMINATOR \in Nat
    BY DEF BPS_DENOMINATOR
  <2>1. ASSUME NEW t \in Int
        PROVE  _decayBps(t) \in Nat /\ _decayBps(t) <= BPS_DENOMINATOR
    <3> HIDE DEF rest, bps
    <3> QED BY <1>1, <1>2, <1>3, <2>0
  <2>2. e <= DECAY_GRACE \/ f >= DECAY_GRACE + DECAY_HORIZON
    BY <1>1, <1>5
  <2>3. CASE e <= DECAY_GRACE
    BY <1>3, <2>0, <2>1, <2>3
  <2>4. CASE f >= DECAY_GRACE + DECAY_HORIZON
    BY <1>3, <2>0, <2>1, <2>4
  <2> QED BY <2>2, <2>3, <2>4
<1> QED BY <1>4, <1>5

\* Nor does it rise when receipts are lost or disputes are upheld.
LEMMA DecayedFalls ==
  ASSUME now \in Nat, now' \in Nat, now <= now', NEW since \in Nat,
         NEW old \in Int, NEW new \in Int, new <= old,
         NEW was \in Int, NEW is \in Int, was <= is
  PROVE  /\ _decayedScore(new, is, since)' <= _decayedScore(old, was, since)
         /\ _decayedScore(new, is, since)' \in Nat /\ _decayedScore(old, was, since) \in Nat
<1> DEFINE net == IF old > was THEN old - was ELSE 0
           rest == IF new > is THEN new - is ELSE 0
           full == _decayBps(now - since)
           less == _decayBps(now' - since)
<1>1. net \in Nat /\ rest \in Nat /\ rest <= net
  OBVIOUS
<1>2. full \in Nat /\ less \in Nat /\ less <= full
  BY DecayFalls
<1>3. /\ _decayedScore(old, was, since) =
            IF since > 0 /\ net > 0 THEN (net * full) \div BPS_DENOMINATOR ELSE net
      /\ _decayedScore(new, is, since)' =
            IF since > 0 /\ rest > 0 THEN (rest * less) \div BPS_DENOMINATOR ELSE rest
  BY DEF _decayedScore
<1> HIDE DEF net, rest, full, less
<1>4. rest * less <= net * full /\ rest * less \in Nat /\ net * full \in Nat
  BY <1>1, <1>2, ProductMonotone
<1> DEFINE x == rest * less
           y == net * full
<1>5. x \div BPS_DENOMINATOR <= y \div BPS_DENOMINATOR /\ x \div BPS_DENOMINATOR \in Nat
      /\ y \div BPS_DENOMINATOR \in Nat
  <2>1. BPS_DENOMINATOR \in Nat \ {0}
    BY DEF BPS_DENOMINATOR
  <2> HIDE DEF x, y
  <2> QED BY <1>4, <2>1, DivisionMonotone DEF x, y
<1> HIDE DEF x, y
<1> QED BY <1>1, <1>3, <1>5 DEF x, y

\* What a step brought the agent, or that nothing its scores are made of moved in its favour.
Gains(a) ==
    \/ completionCount'[a] > completionCount[a]
    \/ confirmedCount'[a] > confirmedCount[a]
    \/ stake'[a] > stake[a]

Loses(a) ==
    /\ lastActivity'[a] = lastActivity[a]
    /\ confirmedCount'[a] <= confirmedCount[a]
    /\ distinctCounterparties'[a] <= distinctCounterparties[a]
    /\ disputeCount[a] <= disputeCount'[a]
    /\ stake'[a] <= stake[a]

Timed == lastActivity \in [Accounts -> Nat]

LEMMA NothingMoves ==
  ASSUME IInv, NEW a \in Accounts, UNCHANGED <<lastActivity, receipts, disputeCount, stake>>
  PROVE  Loses(a)
<1>1. /\ confirmedCount[a] \in Int /\ distinctCounterparties[a] \in Int /\ disputeCount[a] \in Int
      /\ stake[a] \in Nat
  BY DEF IInv, Typed
<1> QED BY <1>1 DEF Loses, receipts

\* A counterparty less, by a revocation or an upheld dispute.
LEMMA PartnersFall ==
  ASSUME IInv, NEW b \in Accounts, NEW s, _decrementCounterparty(b, s), NEW a \in Accounts
  PROVE  distinctCounterparties'[a] <= distinctCounterparties[a]
<1>1. distinctCounterparties \in [Accounts -> Int]
  BY DEF IInv, Typed
<1>2. \/ distinctCounterparties' = [distinctCounterparties EXCEPT ![b] = distinctCounterparties[b] - 1]
      \/ distinctCounterparties' = distinctCounterparties
  BY DEF _decrementCounterparty
<1> QED BY <1>1, <1>2

LEMMA UpholdLoses ==
  ASSUME IInv, NEW id \in Ids, Pending(id), _uphold(id), NEW a \in Accounts
  PROVE  Loses(a)
<1>1. /\ confirmedCount \in [Accounts -> Int] /\ disputeCount \in [Accounts -> Int]
      /\ distinctCounterparties \in [Accounts -> Int] /\ stake \in [Accounts -> Nat]
      /\ completions[id].challenged
  BY DEF IInv, Typed, Pending
<1>2. PICK b \in Accounts : b = Agent(id)
  BY <1>1 DEF IInv, Typed, Sound, SoundEntry, Completion, Agent
<1>3. PICK lost \in Nat : lost = Slash(id)
  <2>1. stake[b] \in Nat /\ SLASH_PER_DISPUTE \in Nat
    BY <1>1, AmountAssumption
  <2>2. Slash(id) = IF SLASH_PER_DISPUTE <= stake[b] THEN SLASH_PER_DISPUTE ELSE stake[b]
    BY <1>2, <2>1, MinOfTwo DEF Slash
  <2> QED BY <2>1, <2>2
<1>4. /\ disputeCount' = [disputeCount EXCEPT ![b] = disputeCount[b] + 1]
      /\ stake' = [stake EXCEPT ![b] = stake[b] - lost]
      /\ lastActivity' = lastActivity
      /\ \/ UNCHANGED receipts
         \/ /\ confirmedCount' = [confirmedCount EXCEPT ![b] = confirmedCount[b] - 1]
            /\ _decrementCounterparty(b, completions[id].counterparty)
  BY <1>2, <1>3 DEF _uphold, activity
<1>5. disputeCount[a] <= disputeCount'[a] /\ stake'[a] <= stake[a]
  BY <1>1, <1>4
<1>6. CASE UNCHANGED receipts
  BY <1>1, <1>4, <1>5, <1>6 DEF Loses, receipts
<1>7. CASE /\ confirmedCount' = [confirmedCount EXCEPT ![b] = confirmedCount[b] - 1]
           /\ _decrementCounterparty(b, completions[id].counterparty)
  <2>1. confirmedCount'[a] <= confirmedCount[a]
    BY <1>1, <1>7
  <2> QED BY <1>4, <1>5, <1>7, <2>1, PartnersFall DEF Loses
<1> QED BY <1>4, <1>6, <1>7

\* Every step brings an agent something or moves nothing in its favour.
LEMMA ActivityMoves ==
  ASSUME IInv, Timed, [Next]_vars, NEW a \in Accounts
  PROVE  Timed' /\ (Gains(a) \/ Loses(a)) /\ now <= now' /\ now' \in Nat
<1>0. /\ now \in Nat /\ now <= now /\ now <= now + 1 /\ now + 1 \in Nat
      /\ completionCount \in [Accounts -> Int] /\ confirmedCount \in [Accounts -> Int]
      /\ distinctCounterparties \in [Accounts -> Int] /\ stake \in [Accounts -> Nat]
      /\ disputeCount \in [Accounts -> Int]
  BY DEF IInv, Typed
<1> DEFINE Moved == Timed' /\ (Gains(a) \/ Loses(a)) /\ now <= now' /\ now' \in Nat
<1> SUFFICES Moved
  OBVIOUS
<1>1. ASSUME UNCHANGED <<now, lastActivity, receipts, disputeCount, stake>>
      PROVE  Moved
  BY <1>0, <1>1, NothingMoves DEF Timed
<1>2. ASSUME NEW id \in Ids, Pending(id), _uphold(id)
      PROVE  Moved
  <2>1. UNCHANGED <<now, lastActivity>>
    BY <1>2 DEF _uphold, activity
  <2> QED BY <1>0, <1>2, <2>1, UpholdLoses DEF Timed
<1>3. CASE Tick
  BY <1>0, <1>3, NothingMoves DEF Tick, Timed, activity
<1>4. CASE OwnerActs
  <2>1. ASSUME NEW id \in Ids, NEW upheld \in BOOLEAN, resolveChallenge(id, upheld)
        PROVE  Moved
    BY <1>1, <1>2, <2>1 DEF resolveChallenge, activity
  <2>2. CASE setPaused
    BY <1>1, <2>2 DEF setPaused, activity
  <2>3. ASSUME NEW cooldown \in Cooldowns, setAttestCooldown(cooldown)
        PROVE  Moved
    BY <1>1, <2>3 DEF setAttestCooldown, activity
  <2>4. ASSUME NEW amount \in {CHALLENGE_BOND, slashedEthPool}, withdrawEthPool(amount)
        PROVE  Moved
    BY <1>1, <2>4 DEF withdrawEthPool, activity
  <2> HIDE DEF Moved
  <2> QED BY <1>4, <2>1, <2>2, <2>3, <2>4 DEF OwnerActs
<1>5. CASE Attest
  <2>1. ASSUME NEW b \in Attesters, attestCompletion(b)
        PROVE  Moved
    <3>1. /\ b \in Accounts /\ now' = now /\ UNCHANGED <<receipts, disputeCount, stake>>
          /\ completionCount' = [completionCount EXCEPT ![b] = completionCount[b] + 1]
          /\ lastActivity' = [lastActivity EXCEPT ![b] = now]
      BY <2>1, AccountAssumption DEF attestCompletion
    <3>2. Timed' /\ now <= now' /\ now' \in Nat
      BY <1>0, <3>1 DEF Timed
    <3>3. CASE a = b
      BY <1>0, <3>1, <3>2, <3>3 DEF Gains
    <3>4. CASE a # b
      <4>1. lastActivity'[a] = lastActivity[a]
        BY <3>1, <3>4 DEF Timed
      <4>2. Loses(a)
        BY <1>0, <3>1, <4>1 DEF Loses, receipts
      <4> QED BY <3>2, <4>2
    <3> QED BY <3>3, <3>4
  <2>2. ASSUME NEW id \in Ids, NEW sender \in Requesters, attestReceipt(id, sender)
        PROVE  Moved
    <3>1. PICK b \in Accounts : b = Agent(id)
      BY <2>2 DEF IInv, attestReceipt, Typed, Exists, Agent, Completion
    <3>2. /\ now' = now /\ UNCHANGED <<disputeCount, stake>>
          /\ confirmedCount' = [confirmedCount EXCEPT ![b] = confirmedCount[b] + 1]
          /\ lastActivity' = [lastActivity EXCEPT ![b] = now]
          /\ \/ distinctCounterparties' =
                    [distinctCounterparties EXCEPT ![b] = distinctCounterparties[b] + 1]
             \/ distinctCounterparties' = distinctCounterparties
      BY <2>2, <3>1 DEF attestReceipt
    <3>3. Timed' /\ now <= now' /\ now' \in Nat
      BY <1>0, <3>1, <3>2 DEF Timed
    <3>4. CASE a = b
      BY <1>0, <3>1, <3>2, <3>3, <3>4 DEF Gains
    <3>5. CASE a # b
      <4>1. lastActivity'[a] = lastActivity[a]
        BY <3>1, <3>2, <3>5 DEF Timed
      <4>2. Loses(a)
        BY <1>0, <3>1, <3>2, <3>5, <4>1 DEF Loses
      <4> QED BY <3>3, <4>2
    <3> QED BY <3>4, <3>5
  <2>3. ASSUME NEW id \in Ids, NEW sender \in Requesters, revokeReceipt(id, sender)
        PROVE  Moved
    <3>1. PICK b \in Accounts : b = Agent(id)
      BY <2>3 DEF IInv, revokeReceipt, Typed, Exists, Agent, Completion
    <3>2. /\ UNCHANGED <<now, lastActivity, disputeCount, stake>>
          /\ confirmedCount' = [confirmedCount EXCEPT ![b] = confirmedCount[b] - 1]
          /\ _decrementCounterparty(b, sender)
      BY <2>3, <3>1 DEF revokeReceipt, activity
    <3>3. confirmedCount'[a] <= confirmedCount[a]
      BY <1>0, <3>1, <3>2
    <3>4. distinctCounterparties'[a] <= distinctCounterparties[a]
      BY <3>1, <3>2, PartnersFall
    <3> QED BY <1>0, <3>2, <3>3, <3>4 DEF Loses, Timed
  <2> HIDE DEF Moved
  <2> QED BY <1>5, <2>1, <2>2, <2>3 DEF Attest
<1>6. CASE Dispute
  <2>1. ASSUME NEW id \in Ids, finalizeChallenge(id)
        PROVE  Moved
    BY <1>2, <2>1 DEF finalizeChallenge
  <2>2. ASSUME NEW id \in Ids, NEW sender \in Challengers,
               challengeCompletion(id, sender) \/ cancelChallenge(id, sender)
        PROVE  Moved
    BY <1>1, <2>2 DEF challengeCompletion, cancelChallenge, activity
  <2>3. ASSUME NEW id \in Ids, contestChallenge(id)
        PROVE  Moved
    BY <1>1, <2>3 DEF contestChallenge, activity
  <2> HIDE DEF Moved
  <2> QED BY <1>6, <2>1, <2>2, <2>3 DEF Dispute
<1>7. CASE MoveEth
  <2>1. ASSUME NEW b \in Accounts, withdrawRefund(b)
        PROVE  Moved
    BY <1>1, <2>1 DEF withdrawRefund, activity
  <2>2. ASSUME NEW b \in Attesters, NEW amount \in Deposits, depositStake(b, amount)
        PROVE  Moved
    <3>1. /\ b \in Accounts /\ amount \in Nat \ {0}
          /\ UNCHANGED <<now, lastActivity, receipts, disputeCount>>
          /\ stake' = [stake EXCEPT ![b] = stake[b] + amount]
      BY <2>2, AccountAssumption, AmountAssumption DEF depositStake, activity
    <3>2. stake'[a] > stake[a] \/ stake'[a] = stake[a]
      BY <1>0, <3>1
    <3>3. stake'[a] = stake[a] => Loses(a)
      BY <1>0, <3>1 DEF Loses, receipts
    <3> QED BY <1>0, <3>1, <3>2, <3>3 DEF Gains, Timed
  <2>3. ASSUME NEW b \in Attesters, NEW amount \in Deposits \cup {stake[b]}, withdrawStake(b, amount)
        PROVE  Moved
    <3>1. /\ b \in Accounts /\ UNCHANGED <<now, lastActivity, receipts, disputeCount>>
          /\ stake' = [stake EXCEPT ![b] = stake[b] - amount]
      BY <2>3, AccountAssumption DEF withdrawStake, activity
    <3>2. amount \in Nat
      BY <1>0, <3>1, AmountAssumption
    <3>3. stake'[a] <= stake[a]
      BY <1>0, <3>1, <3>2
    <3>4. Loses(a)
      BY <1>0, <3>1, <3>3 DEF Loses, receipts
    <3> QED BY <1>0, <3>1, <3>4 DEF Timed
  <2> HIDE DEF Moved
  <2> QED BY <1>7, <2>1, <2>2, <2>3 DEF MoveEth
<1>8. CASE UNCHANGED vars
  BY <1>1, <1>8 DEF vars, activity
<1> HIDE DEF Moved
<1> QED BY <1>3, <1>4, <1>5, <1>6, <1>7, <1>8 DEF Next

\* Less counted, longer ago and less stake give no higher score.
LEMMA ScoresFall ==
  ASSUME IInv, IInv', Timed, NEW a \in Accounts, Loses(a), now <= now'
  PROVE  /\ getCreditScore(a)' <= getCreditScore(a) /\ getTwoSidedScore(a)' <= getTwoSidedScore(a)
         /\ getCreditScore(a) \in Nat /\ getCreditScore(a)' \in Nat
         /\ getTwoSidedScore(a) \in Nat /\ getTwoSidedScore(a)' \in Nat
<1>1. /\ now \in Nat /\ now' \in Nat /\ stake[a] \in Nat /\ stake'[a] \in Nat
      /\ confirmedCount[a] \in Int /\ confirmedCount'[a] \in Int
      /\ distinctCounterparties[a] \in Int /\ distinctCounterparties'[a] \in Int
      /\ disputeCount[a] \in Int /\ disputeCount'[a] \in Int
  BY DEF IInv, Typed
<1>2. /\ lastActivity'[a] = lastActivity[a] /\ lastActivity[a] \in Nat
      /\ confirmedCount'[a] <= confirmedCount[a]
      /\ distinctCounterparties'[a] <= distinctCounterparties[a]
      /\ disputeCount[a] <= disputeCount'[a] /\ stake'[a] <= stake[a]
  BY DEF Loses, Timed
<1> DEFINE cap == FREE_POINTS + stake[a] \div STAKE_PER_POINT
           newCap == FREE_POINTS + stake'[a] \div STAKE_PER_POINT
<1>3. cap \in Nat /\ newCap \in Nat /\ newCap <= cap
  <2>1. STAKE_PER_POINT \in Nat \ {0}
    BY AmountAssumption
  <2>2. PICK x \in Nat, y \in Nat : x = stake[a] /\ y = stake'[a]
    BY <1>1
  <2>3. y \div STAKE_PER_POINT <= x \div STAKE_PER_POINT
    BY <1>2, <2>1, <2>2, DivisionMonotone
  <2>4. x \div STAKE_PER_POINT \in Nat /\ y \div STAKE_PER_POINT \in Nat
    BY <2>1, <2>2, DivisionMonotone
  <2> QED BY <2>2, <2>3, <2>4 DEF FREE_POINTS
<1>4. ASSUME NEW x \in Nat, NEW y \in Nat, y <= x
      PROVE  Min({y, newCap}) <= Min({x, cap}) /\ Min({y, newCap}) \in Nat /\ Min({x, cap}) \in Nat
  <2> HIDE DEF cap, newCap
  <2>1. Min({y, newCap}) = IF y <= newCap THEN y ELSE newCap
    BY <1>3, MinOfTwo
  <2>2. Min({x, cap}) = IF x <= cap THEN x ELSE cap
    BY <1>3, MinOfTwo
  <2> QED BY <1>3, <1>4, <2>1, <2>2
<1>5. ASSUME NEW old \in Int, NEW new \in Int, new <= old
      PROVE  /\ _capByStake(a, _decayedScore(new, disputeCount[a], lastActivity[a]))'
                   <= _capByStake(a, _decayedScore(old, disputeCount[a], lastActivity[a]))
             /\ _capByStake(a, _decayedScore(new, disputeCount[a], lastActivity[a]))' \in Nat
             /\ _capByStake(a, _decayedScore(old, disputeCount[a], lastActivity[a])) \in Nat
  <2>1. PICK since \in Nat, was \in Int, is \in Int :
           since = lastActivity[a] /\ was = disputeCount[a] /\ is = disputeCount'[a]
    BY <1>1, <1>2
  <2>2. /\ _decayedScore(new, is, since)' <= _decayedScore(old, was, since)
        /\ _decayedScore(new, is, since)' \in Nat /\ _decayedScore(old, was, since) \in Nat
    BY <1>1, <1>2, <1>5, <2>1, DecayedFalls
  <2>3. PICK x \in Nat, y \in Nat :
           x = _decayedScore(old, was, since) /\ y = _decayedScore(new, is, since)' /\ y <= x
    BY <2>2
  <2>4. _capByStake(a, _decayedScore(old, disputeCount[a], lastActivity[a])) = Min({x, cap})
    BY <2>1, <2>3 DEF _capByStake
  <2>5. _capByStake(a, _decayedScore(new, disputeCount[a], lastActivity[a]))' = Min({y, newCap})
    BY <1>2, <2>1, <2>3 DEF _capByStake
  <2> QED BY <1>4, <2>3, <2>4, <2>5
<1> QED BY <1>1, <1>2, <1>5 DEF getCreditScore, getTwoSidedScore

\* Times of activity stay times.
LEMMA TimedStep ==
  ASSUME IInv, Timed, [Next]_vars
  PROVE  Timed'
<1>0. now \in Nat
  BY DEF IInv, Typed
<1>1. ASSUME NEW b, lastActivity' = [lastActivity EXCEPT ![b] = now]
      PROVE  Timed'
  BY <1>0, <1>1 DEF Timed
<1>2. ASSUME UNCHANGED lastActivity
      PROVE  Timed'
  BY <1>2 DEF Timed
<1> SUFFICES Timed'
  OBVIOUS
<1>3. CASE Attest
  <2>1. ASSUME NEW id \in Ids, NEW sender \in Requesters, attestReceipt(id, sender)
        PROVE  Timed'
    BY <1>1, <2>1 DEF attestReceipt
  <2>2. ASSUME NEW id \in Ids, NEW sender \in Requesters, revokeReceipt(id, sender)
        PROVE  Timed'
    BY <1>2, <2>2 DEF revokeReceipt, activity
  <2>3. ASSUME NEW b \in Attesters, attestCompletion(b)
        PROVE  Timed'
    BY <1>1, <2>3 DEF attestCompletion
  <2> QED BY <1>3, <2>1, <2>2, <2>3 DEF Attest
<1>4. CASE Tick \/ UNCHANGED vars
  BY <1>2, <1>4 DEF Tick, vars, activity
<1>5. CASE OwnerActs
  <2>1. ASSUME NEW id \in Ids, NEW upheld \in BOOLEAN, resolveChallenge(id, upheld)
        PROVE  UNCHANGED lastActivity
    BY <2>1 DEF resolveChallenge, _uphold, activity
  <2>2. ASSUME NEW amount \in {CHALLENGE_BOND, slashedEthPool}, withdrawEthPool(amount)
        PROVE  UNCHANGED lastActivity
    BY <2>2 DEF withdrawEthPool, activity
  <2>3. ASSUME NEW cooldown \in Cooldowns, setAttestCooldown(cooldown)
        PROVE  UNCHANGED lastActivity
    BY <2>3 DEF setAttestCooldown, activity
  <2>4. CASE setPaused
    BY <1>2, <2>4 DEF setPaused, activity
  <2> QED BY <1>2, <1>5, <2>1, <2>2, <2>3, <2>4 DEF OwnerActs
<1>6. CASE Dispute
  <2>1. ASSUME NEW id \in Ids, finalizeChallenge(id)
        PROVE  UNCHANGED lastActivity
    BY <2>1 DEF finalizeChallenge, _uphold, activity
  <2>2. ASSUME NEW id \in Ids, NEW sender \in Challengers,
               challengeCompletion(id, sender) \/ cancelChallenge(id, sender)
        PROVE  UNCHANGED lastActivity
    BY <2>2 DEF challengeCompletion, cancelChallenge, activity
  <2>3. ASSUME NEW id \in Ids, contestChallenge(id)
        PROVE  UNCHANGED lastActivity
    BY <2>3 DEF contestChallenge, activity
  <2> QED BY <1>2, <1>6, <2>1, <2>2, <2>3 DEF Dispute
<1>7. CASE MoveEth
  <2>1. ASSUME NEW b \in Accounts, withdrawRefund(b)
        PROVE  UNCHANGED lastActivity
    BY <2>1 DEF withdrawRefund, activity
  <2>2. ASSUME NEW b \in Attesters, NEW amount, depositStake(b, amount) \/ withdrawStake(b, amount)
        PROVE  UNCHANGED lastActivity
    BY <2>2 DEF depositStake, withdrawStake, activity
  <2> QED BY <1>2, <1>7, <2>1, <2>2 DEF MoveEth
<1> QED BY <1>3, <1>4, <1>5, <1>6, <1>7 DEF Next

\* A score never rises by itself (getCreditScore, getTwoSidedScore): in a step that
\* brings the agent no attestation, no receipt and no stake, it keeps its activity
\* time and counts no more, so neither score is higher after the step.
THEOREM ScoresOnlyEarned == Spec => ScoresRiseByActivity
<1> DEFINE Earned ==
        \A a \in Accounts :
            (getCreditScore(a)' > getCreditScore(a) \/ getTwoSidedScore(a)' > getTwoSidedScore(a)) =>
                \/ completionCount'[a] > completionCount[a]
                \/ confirmedCount'[a] > confirmedCount[a]
                \/ stake'[a] > stake[a]
<1>1. Init => Timed
  BY DEF Init, Timed
<1>2. IInv /\ Timed /\ [Next]_vars => Timed'
  BY TimedStep
<1>3. ASSUME IInv, Timed, [Next]_vars
      PROVE  Earned
  <2>1. IInv'
    BY <1>3, StepInv
  <2> SUFFICES ASSUME NEW a \in Accounts
               PROVE  (getCreditScore(a)' > getCreditScore(a) \/ getTwoSidedScore(a)' > getTwoSidedScore(a)) => Gains(a)
    BY DEF Gains
  <2>2. Gains(a) \/ (Loses(a) /\ now <= now')
    BY <1>3, ActivityMoves
  <2>3. CASE Loses(a) /\ now <= now'
    <3>1. PICK was \in Nat, is \in Nat, twoWas \in Nat, twoIs \in Nat :
             /\ was = getCreditScore(a) /\ is = getCreditScore(a)' /\ is <= was
             /\ twoWas = getTwoSidedScore(a) /\ twoIs = getTwoSidedScore(a)' /\ twoIs <= twoWas
      BY <1>3, <2>1, <2>3, ScoresFall
    <3> QED BY <3>1
  <2> QED BY <2>2, <2>3
<1>4. IInv /\ Timed /\ [Next]_vars => [Earned]_vars
  BY <1>3
<1> QED BY <1>1, <1>2, <1>4, OracleKept, PTL DEF Spec, ScoresRiseByActivity
=============================================================================
