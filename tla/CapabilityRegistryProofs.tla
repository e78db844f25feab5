---------------------- MODULE CapabilityRegistryProofs ----------------------
(***************************************************************************)
(* Proofs about the capability registry for every set of accounts and      *)
(* types, every number of tokens and all bonds and penalties: the books    *)
(* balance, and the swap-and-pop index lists what is live.                 *)
(***************************************************************************)
EXTENDS CapabilityRegistry, SumTheorems

Capability ==
    [creator : Accounts \cup {Zero}, bond : Nat, capabilityType : Types \cup {Zero},
     certified : BOOLEAN, slashed : BOOLEAN]

Typed ==
    /\ nextTokenId \in 0..MaxTokens
    /\ holder \in [Ids -> Accounts \cup {Zero}]
    /\ capabilities \in [Ids -> Capability]
    /\ slashedEthPool \in Nat
    /\ capabilitiesByType \in [Types -> Seq(Ids)]
    /\ typeIndexPos \in [Types -> [Ids -> Nat]]

\* Tokens that are not minted yet are nobody's.
NotMintedIsNobodys == \A id \in Ids : id > nextTokenId => ~Live(id)

\* The list of one type and its positions are inverse to one another.
Inverse1(list, pos) ==
    /\ \A id \in Ids : pos[id] # 0 => pos[id] <= Len(list) /\ list[pos[id]] = id
    /\ \A i \in 1..Len(list) : pos[list[i]] = i

Indexed ==
    /\ \A id \in Ids : Live(id) => capabilities[id].capabilityType \in Types
    /\ \A t \in Types, id \in Ids :
          (Live(id) /\ capabilities[id].capabilityType = t) <=> typeIndexPos[t][id] # 0
    /\ \A t \in Types : Inverse1(capabilitiesByType[t], typeIndexPos[t])

bondOf == [id \in Ids |-> capabilities[id].bond]

Booked ==
    /\ eth = slashedEthPool + Total(bondOf, Ids)
    /\ \A id \in Ids : ~Live(id) => capabilities[id].bond = 0

IInv == Typed /\ NotMintedIsNobodys /\ Indexed /\ Booked

\* There are finitely many ids.
LEMMA IdsFinite == IsFiniteSet(Ids)
BY FS_Interval, RegistryAssumption DEF Ids

\* The bonds are integers.
LEMMA BondsType == Typed => bondOf \in [Ids -> Int]
BY DEF Typed, Capability, bondOf

-----------------------------------------------------------------------------
(* The index of one type *)

\* A registration appends its id and notes where.
LEMMA AppendKeepsInverse ==
  ASSUME NEW list \in Seq(Ids), NEW pos \in [Ids -> Nat], Inverse1(list, pos),
         NEW id \in Ids, pos[id] = 0
  PROVE  Inverse1(Append(list, id), [pos EXCEPT ![id] = Len(list) + 1])
<1> DEFINE l == Append(list, id)
           p == [pos EXCEPT ![id] = Len(list) + 1]
<1>1. /\ Len(list) \in Nat /\ Len(l) = Len(list) + 1 /\ l[Len(l)] = id
      /\ \A i \in 1..Len(list) : l[i] = list[i] /\ list[i] \in Ids
  OBVIOUS
<1>2. ASSUME NEW x \in Ids, p[x] # 0 PROVE p[x] <= Len(l) /\ l[p[x]] = x
  BY <1>1, <1>2 DEF Inverse1
<1>3. ASSUME NEW i \in 1..Len(l) PROVE p[l[i]] = i
  <2>1. CASE i = Len(l)
    BY <1>1, <2>1
  <2>2. CASE i # Len(l)
    <3>1. i \in 1..Len(list) /\ l[i] = list[i] /\ list[i] \in Ids /\ pos[list[i]] = i
      BY <1>1, <2>2 DEF Inverse1
    <3> QED BY <3>1
  <2> QED BY <2>1, <2>2
<1> QED BY <1>2, <1>3 DEF Inverse1

\* Swap and pop takes out the one id and keeps every other findable.
LEMMA RemoveKeepsInverse ==
  ASSUME NEW list \in Seq(Ids), NEW pos \in [Ids -> Nat], Inverse1(list, pos),
         NEW id \in Ids, pos[id] # 0
  PROVE  LET last == list[Len(list)]
             l == SubSeq([list EXCEPT ![pos[id]] = last], 1, Len(list) - 1)
             p == [pos EXCEPT ![last] = pos[id], ![id] = 0]
         IN  /\ l \in Seq(Ids) /\ p \in [Ids -> Nat] /\ Inverse1(l, p)
             /\ \A x \in Ids : p[x] # 0 <=> pos[x] # 0 /\ x # id
<1> DEFINE n == Len(list)
           last == list[n]
           moved == [list EXCEPT ![pos[id]] = last]
           l == SubSeq(moved, 1, n - 1)
           p == [pos EXCEPT ![last] = pos[id], ![id] = 0]
<1>1. /\ n \in Nat \ {0} /\ pos[id] \in 1..n /\ list[pos[id]] = id
      /\ last \in Ids /\ pos[last] = n
  BY DEF Inverse1
<1>2. /\ moved \in Seq(Ids) /\ Len(moved) = n
      /\ \A i \in 1..n : moved[i] = IF i = pos[id] THEN last ELSE list[i]
  BY <1>1
<1>3. /\ l \in Seq(Ids) /\ Len(l) = n - 1
      /\ \A i \in 1..(n - 1) : l[i] = IF i = pos[id] THEN last ELSE list[i]
  BY <1>1, <1>2
<1>4. /\ p \in [Ids -> Nat]
      /\ \A x \in Ids : p[x] = IF x = id THEN 0 ELSE IF x = last THEN pos[id] ELSE pos[x]
  BY <1>1
<1> HIDE DEF l, p, moved
<1>5. \A x \in Ids : p[x] # 0 <=> pos[x] # 0 /\ x # id
  BY <1>1, <1>4
<1>6. ASSUME NEW x \in Ids, p[x] # 0 PROVE p[x] <= Len(l) /\ l[p[x]] = x
  <2>1. x # id /\ pos[x] # 0 /\ pos[x] \in 1..n /\ list[pos[x]] = x
    BY <1>4, <1>5, <1>6 DEF Inverse1
  <2>2. CASE x = last
    <3>1. p[x] = pos[id] /\ pos[id] # n
      BY <1>1, <1>4, <2>1, <2>2
    <3>2. pos[id] \in 1..(n - 1)
      BY <1>1, <3>1
    <3>3. l[pos[id]] = x /\ Len(l) = n - 1
      BY <1>3, <2>2, <3>2
    <3> QED BY <1>1, <3>1, <3>2, <3>3
  <2>3. CASE x # last
    <3>1. p[x] = pos[x] /\ pos[x] # n /\ pos[x] # pos[id]
      BY <1>1, <1>4, <2>1, <2>3
    <3>2. pos[x] \in 1..(n - 1)
      BY <1>1, <2>1, <3>1
    <3>3. l[pos[x]] = x /\ Len(l) = n - 1
      BY <1>3, <2>1, <3>1, <3>2
    <3> QED BY <1>1, <3>1, <3>2, <3>3
  <2> QED BY <2>2, <2>3
<1>7. ASSUME NEW i \in 1..Len(l) PROVE p[l[i]] = i
  <2>1. i \in 1..n /\ i # n /\ list[i] \in Ids /\ pos[list[i]] = i
    BY <1>1, <1>3 DEF Inverse1
  <2>2. CASE i = pos[id]
    BY <1>1, <1>3, <1>4, <2>1, <2>2
  <2>3. CASE i # pos[id]
    BY <1>1, <1>3, <1>4, <2>1, <2>3
  <2> QED BY <2>2, <2>3
<1>8. Inverse1(l, p)
  BY <1>6, <1>7 DEF Inverse1
<1> QED BY <1>3, <1>4, <1>5, <1>8 DEF l, p, moved

-----------------------------------------------------------------------------
(* The steps *)

\* The deployed registry is empty.
LEMMA InitInv == Init => IInv
<1> SUFFICES ASSUME Init PROVE IInv
  OBVIOUS
<1>1. Typed /\ NotMintedIsNobodys /\ Indexed
  <2> USE DEF Init
  <2>1. Typed
    BY RegistryAssumption DEF Typed, Capability, NoCapability
  <2>2. NotMintedIsNobodys
    BY DEF NotMintedIsNobodys, Live
  <2>3. Indexed
    BY DEF Indexed, Inverse1, Live
  <2> QED BY <2>1, <2>2, <2>3
<1>2. Booked
  <2>1. bondOf \in [Ids -> Int] /\ \A id \in Ids : bondOf[id] = 0
    BY DEF Init, bondOf, NoCapability
  <2>2. Total(bondOf, Ids) = 0
    BY <2>1, IdsFinite, TotalOfZeros
  <2> QED BY <2>2 DEF Init, Booked, NoCapability
<1> QED BY <1>1, <1>2 DEF IInv

\* One capability changes its bond: the sum changes by as much.
LEMMA BondChange ==
  ASSUME Typed, Typed', NEW id \in Ids,
         \A x \in Ids \ {id} : capabilities'[x].bond = capabilities[x].bond
  PROVE  /\ Total(bondOf, Ids) \in Int
         /\ Total(bondOf, Ids)' = Total(bondOf, Ids) - capabilities[id].bond + capabilities'[id].bond
<1>1. bondOf \in [Ids -> Int] /\ bondOf' \in [Ids -> Int]
  BY BondsType DEF Typed, Capability, bondOf
<1>2. \A x \in Ids : bondOf[x] = capabilities[x].bond /\ bondOf'[x] = capabilities'[x].bond
  BY DEF bondOf
<1> HIDE DEF bondOf
<1>3. Total(bondOf', Ids) = Total(bondOf, Ids) - bondOf[id] + bondOf'[id]
  BY <1>1, <1>2, IdsFinite, TotalChange
<1>4. Total(bondOf, Ids)' = Total(bondOf', Ids)
  BY DEF Ids, Total, Table, IsTable, First
<1> QED BY <1>1, <1>2, <1>3, <1>4, IdsFinite, TotalType

\* A registration.
LEMMA RegisterStep ==
  ASSUME IInv, NEW sender \in Creators, NEW next \in Accounts, NEW t \in Types,
         NEW bond \in Bonds, registerCapability(sender, next, t, bond)
  PROVE  IInv'
<1> DEFINE id == nextTokenId + 1
           list == capabilitiesByType[t]
           pos == typeIndexPos[t]
           k == [NoCapability EXCEPT !.creator = sender, !.bond = bond, !.capabilityType = t]
<1> USE DEF IInv
<1>1. /\ id \in Ids /\ next \in Accounts \cup {Zero} /\ next # Zero
      /\ sender \in Accounts /\ bond \in Nat /\ ~Live(id)
  BY RegistryAssumption DEF registerCapability, Typed, Ids, NotMintedIsNobodys
<1>2. list \in Seq(Ids) /\ pos \in [Ids -> Nat] /\ Inverse1(list, pos) /\ pos[id] = 0
  BY <1>1 DEF Typed, Indexed
<1>3. /\ nextTokenId' = id
      /\ holder' = [holder EXCEPT ![id] = next]
      /\ capabilities' = [capabilities EXCEPT ![id] = k]
      /\ capabilitiesByType' = [capabilitiesByType EXCEPT ![t] = Append(list, id)]
      /\ typeIndexPos' = [typeIndexPos EXCEPT ![t] = [pos EXCEPT ![id] = Len(list) + 1]]
      /\ eth' = eth + bond /\ slashedEthPool' = slashedEthPool
  <2> HIDE DEF IInv
  <2> QED BY DEF registerCapability
<1>k. k \in Capability /\ k.capabilityType = t /\ k.bond = bond
  BY <1>1 DEF NoCapability, Capability
<1> HIDE DEF k
<1>4. Append(list, id) \in Seq(Ids) /\ [pos EXCEPT ![id] = Len(list) + 1] \in [Ids -> Nat]
  BY <1>1, <1>2
<1>5. Inverse1(Append(list, id), [pos EXCEPT ![id] = Len(list) + 1])
  BY <1>1, <1>2, AppendKeepsInverse
<1>6. Typed'
  BY <1>1, <1>3, <1>k, <1>4 DEF Typed, Capability, Ids
<1>7. NotMintedIsNobodys'
  BY <1>1, <1>3, <1>k DEF Typed, NotMintedIsNobodys, Live, Ids
<1>8. Indexed'
  <2>1. \A x \in Ids : Live(x)' => capabilities'[x].capabilityType \in Types
    BY <1>1, <1>3, <1>k DEF Typed, Indexed, Live
  <2>2. ASSUME NEW u \in Types, NEW x \in Ids
        PROVE  (Live(x)' /\ capabilities'[x].capabilityType = u) <=> typeIndexPos'[u][x] # 0
    <3>1. CASE x = id
      BY <1>1, <1>2, <1>3, <1>k, <3>1 DEF Typed, Indexed, Live
    <3>2. CASE x # id
      BY <1>1, <1>2, <1>3, <1>k, <3>2 DEF Typed, Indexed, Live
    <3> QED BY <3>1, <3>2
  <2>3. ASSUME NEW u \in Types PROVE Inverse1(capabilitiesByType'[u], typeIndexPos'[u])
    BY <1>3, <1>5 DEF Typed, Indexed
  <2>4. \A u \in Types : Inverse1(capabilitiesByType[u], typeIndexPos[u])'
    BY <2>3 DEF Inverse1, Ids
  <2> QED BY <2>1, <2>2, <2>4 DEF Indexed, Ids
<1>9. Booked'
  <2>1. /\ Total(bondOf, Ids) \in Int
        /\ Total(bondOf, Ids)' = Total(bondOf, Ids) + bond
    <3>1. capabilities[id].bond = 0 /\ capabilities'[id].bond = bond
      BY <1>1, <1>3, <1>k DEF Booked, Typed
    <3>2. \A x \in Ids \ {id} : capabilities'[x].bond = capabilities[x].bond
      BY <1>3 DEF Typed
    <3> QED BY <1>1, <1>6, <3>1, <3>2, BondChange
  <2>2. \A x \in Ids : ~Live(x)' => capabilities'[x].bond = 0
    BY <1>1, <1>3, <1>k DEF Booked, Typed, Live
  <2> QED BY <1>1, <1>3, <1>k, <2>1, <2>2 DEF Booked, Typed, Ids
<1> QED BY <1>6, <1>7, <1>8, <1>9

\* A step that changes no holder, no index and no type of a capability keeps the index.
LEMMA SameIndex ==
  ASSUME IInv, UNCHANGED <<nextTokenId, capabilitiesByType, typeIndexPos>>,
         holder' \in [Ids -> Accounts \cup {Zero}],
         \A id \in Ids : Live(id)' <=> Live(id),
         capabilities' \in [Ids -> Capability],
         \A id \in Ids : capabilities'[id].capabilityType = capabilities[id].capabilityType
  PROVE  NotMintedIsNobodys' /\ Indexed'
<1>1. NotMintedIsNobodys'
  BY DEF IInv, NotMintedIsNobodys, Ids
<1>2. \A t \in Types : Inverse1(capabilitiesByType[t], typeIndexPos[t])'
  BY DEF IInv, Indexed, Inverse1, Ids
<1> QED BY <1>1, <1>2 DEF IInv, Indexed, Ids

\* A transfer, which leaves the token with somebody.
LEMMA TransferStep ==
  ASSUME IInv, NEW id \in Ids, NEW to \in Accounts, transferFrom(id, to)
  PROVE  IInv'
<1>1. /\ holder' = [holder EXCEPT ![id] = to] /\ to # Zero /\ Live(id)
      /\ UNCHANGED <<eth, nextTokenId, capabilities, slashedEthPool, capabilitiesByType,
                     typeIndexPos>>
  BY RegistryAssumption DEF transferFrom
<1>2. Typed'
  BY <1>1 DEF IInv, Typed, Ids
<1>3. \A x \in Ids : Live(x)' <=> Live(x)
  BY <1>1 DEF IInv, Typed, Live
<1>4. NotMintedIsNobodys' /\ Indexed'
  BY <1>1, <1>2, <1>3, SameIndex DEF Typed, Ids
<1>5. Booked'
  BY <1>1, <1>3 DEF IInv, Booked, bondOf, Ids, Total, Table, IsTable, First
<1> QED BY <1>2, <1>4, <1>5 DEF IInv

\* A step that changes one capability but for its creator and type, and the pool with it.
LEMMA CapabilityStep ==
  ASSUME IInv, NEW id \in Ids, NEW k \in Capability,
         capabilities' = [capabilities EXCEPT ![id] = k],
         k.capabilityType = capabilities[id].capabilityType,
         ~Live(id) => k.bond = 0,
         slashedEthPool' \in Nat,
         eth' = eth + (slashedEthPool' - slashedEthPool) + (k.bond - capabilities[id].bond),
         UNCHANGED <<nextTokenId, holder, capabilitiesByType, typeIndexPos>>
  PROVE  IInv'
<1>1. Typed'
  BY DEF IInv, Typed, Ids
<1>2. \A x \in Ids : Live(x)' <=> Live(x)
  BY DEF Live
<1>3. \A x \in Ids : capabilities'[x].capabilityType = capabilities[x].capabilityType
  BY DEF IInv, Typed
<1>4. NotMintedIsNobodys' /\ Indexed'
  BY <1>1, <1>2, <1>3, SameIndex DEF Typed, Ids
<1>5. /\ Total(bondOf, Ids) \in Int
      /\ Total(bondOf, Ids)' = Total(bondOf, Ids) - capabilities[id].bond + k.bond
  <2>1. /\ capabilities'[id].bond = k.bond
        /\ \A x \in Ids \ {id} : capabilities'[x].bond = capabilities[x].bond
    BY DEF IInv, Typed
  <2> QED BY <1>1, <2>1, BondChange DEF IInv
<1>6. capabilities[id].bond \in Nat /\ k.bond \in Nat /\ slashedEthPool \in Nat
  BY DEF IInv, Typed, Capability
<1>7. Booked'
  <2>1. eth' = slashedEthPool' + Total(bondOf, Ids)'
    BY <1>5, <1>6 DEF IInv, Booked
  <2>2. \A x \in Ids : ~Live(x)' => capabilities'[x].bond = 0
    BY <1>2 DEF IInv, Typed, Booked
  <2> QED BY <2>1, <2>2 DEF Booked, Ids
<1> QED BY <1>1, <1>4, <1>7 DEF IInv

\* A certification.
LEMMA CertifyStep ==
  ASSUME IInv, NEW id \in Ids, NEW sender \in Accounts, certifyCapability(id, sender)
  PROVE  IInv'
<1> DEFINE k == [capabilities[id] EXCEPT !.certified = TRUE]
<1>1. capabilities[id] \in Capability
  BY DEF IInv, Typed
<1>2. k \in Capability /\ k.capabilityType = capabilities[id].capabilityType
      /\ k.bond = capabilities[id].bond /\ k.bond \in Nat
  BY <1>1 DEF Capability
<1>3. /\ capabilities' = [capabilities EXCEPT ![id] = k]
      /\ UNCHANGED <<eth, slashedEthPool, nextTokenId, holder, capabilitiesByType, typeIndexPos>>
  BY DEF certifyCapability
<1> HIDE DEF k
<1>4. eth \in Int /\ slashedEthPool \in Nat
  BY IdsFinite, BondsType, TotalType DEF IInv, Typed, Booked
<1>5. eth' = eth + (slashedEthPool' - slashedEthPool) + (k.bond - capabilities[id].bond)
  BY <1>2, <1>3, <1>4
<1> QED BY <1>2, <1>3, <1>4, <1>5, CapabilityStep DEF IInv, Booked

\* A capability with another bond is a capability of the same type.
LEMMA RecordChange ==
  ASSUME NEW c \in Capability, NEW bond \in Nat
  PROVE  LET k == [c EXCEPT !.bond = bond, !.slashed = TRUE]
             j == [c EXCEPT !.bond = bond]
         IN  /\ k \in Capability /\ k.capabilityType = c.capabilityType /\ k.bond = bond
             /\ j \in Capability /\ j.capabilityType = c.capabilityType /\ j.bond = bond
<1> DEFINE j == [c EXCEPT !.bond = bond]
<1>1. j \in Capability /\ j.capabilityType = c.capabilityType /\ j.bond = bond
  BY DEF Capability
<1> HIDE DEF j
<1>2. LET k == [j EXCEPT !.slashed = TRUE]
      IN  k \in Capability /\ k.capabilityType = j.capabilityType /\ k.bond = j.bond
  BY <1>1 DEF Capability
<1> QED BY <1>1, <1>2 DEF j

\* A slash moves its penalty from the bond to the pool.
LEMMA SlashStep ==
  ASSUME IInv, NEW id \in Ids, NEW sender \in Accounts, NEW penalty \in Penalties,
         slashCapability(id, sender, penalty)
  PROVE  IInv'
<1> DEFINE k == [capabilities[id] EXCEPT !.bond = capabilities[id].bond - penalty,
                                         !.slashed = TRUE]
<1>1. /\ capabilities[id] \in Capability /\ penalty \in Nat
      /\ penalty <= capabilities[id].bond /\ Live(id)
  BY RegistryAssumption DEF IInv, Typed, slashCapability
<1>2. /\ k \in Capability /\ k.capabilityType = capabilities[id].capabilityType
      /\ k.bond = capabilities[id].bond - penalty
  <2>1. capabilities[id].bond - penalty \in Nat
    BY <1>1 DEF Capability
  <2> QED BY <1>1, <2>1, RecordChange
<1>3. /\ capabilities' = [capabilities EXCEPT ![id] = k]
      /\ slashedEthPool' = slashedEthPool + penalty
      /\ UNCHANGED <<eth, nextTokenId, holder, capabilitiesByType, typeIndexPos>>
  BY DEF slashCapability
<1> HIDE DEF k
<1>4. eth \in Int /\ slashedEthPool \in Nat /\ capabilities[id].bond \in Nat
  BY IdsFinite, BondsType, TotalType DEF IInv, Typed, Booked, Capability
<1>5. eth' = eth + (slashedEthPool' - slashedEthPool) + (k.bond - capabilities[id].bond)
  BY <1>1, <1>2, <1>3, <1>4
<1>6. slashedEthPool' \in Nat
  BY <1>1, <1>3, <1>4
<1> QED BY <1>1, <1>2, <1>3, <1>5, <1>6, CapabilityStep

\* The creator's exit: the token is burned, leaves the index and takes its bond along.
LEMMA WithdrawStep ==
  ASSUME IInv, NEW id \in Ids, NEW sender \in Accounts, withdrawBond(id, sender)
  PROVE  IInv'
<1> DEFINE t == capabilities[id].capabilityType
           list == capabilitiesByType[t]
           pos == typeIndexPos[t]
           last == list[Len(list)]
           l == SubSeq([list EXCEPT ![pos[id]] = last], 1, Len(list) - 1)
           p == [pos EXCEPT ![last] = pos[id], ![id] = 0]
           k == [capabilities[id] EXCEPT !.bond = 0]
<1>1. Live(id) /\ t \in Types /\ pos[id] # 0
  BY DEF IInv, Indexed, withdrawBond
<1>2. list \in Seq(Ids) /\ pos \in [Ids -> Nat] /\ Inverse1(list, pos)
  BY <1>1 DEF IInv, Typed, Indexed
<1>3. /\ l \in Seq(Ids) /\ p \in [Ids -> Nat] /\ Inverse1(l, p)
      /\ \A x \in Ids : p[x] # 0 <=> pos[x] # 0 /\ x # id
  <2> HIDE DEF list, pos
  <2> QED BY <1>1, <1>2, RemoveKeepsInverse
<1>4. k \in Capability /\ k.capabilityType = t /\ k.bond = 0
  <2>1. capabilities[id] \in Capability /\ 0 \in Nat
    BY DEF IInv, Typed
  <2> QED BY <2>1, RecordChange
<1>5. /\ holder' = [holder EXCEPT ![id] = Zero]
      /\ capabilities' = [capabilities EXCEPT ![id] = k]
      /\ capabilitiesByType' = [capabilitiesByType EXCEPT ![t] = l]
      /\ typeIndexPos' = [typeIndexPos EXCEPT ![t] = p]
      /\ eth' = eth - capabilities[id].bond
      /\ UNCHANGED <<nextTokenId, slashedEthPool>>
  BY DEF withdrawBond, _removeFromTypeIndex
<1> HIDE DEF l, p, k, last
<1>6. Typed'
  BY <1>1, <1>3, <1>4, <1>5 DEF IInv, Typed, Ids
<1>7. \A x \in Ids : Live(x)' <=> Live(x) /\ x # id
  BY <1>5 DEF IInv, Typed, Live
<1>8. NotMintedIsNobodys'
  BY <1>5, <1>7 DEF IInv, NotMintedIsNobodys, Ids
<1>9. \A x \in Ids : capabilities'[x].capabilityType = capabilities[x].capabilityType
  BY <1>4, <1>5 DEF IInv, Typed
<1>10. Indexed'
  <2>1. ASSUME NEW u \in Types, NEW x \in Ids
        PROVE  (Live(x)' /\ capabilities'[x].capabilityType = u) <=> typeIndexPos'[u][x] # 0
    <3>1. typeIndexPos'[u] = IF u = t THEN p ELSE typeIndexPos[u]
      BY <1>1, <1>5 DEF IInv, Typed
    <3>2. (Live(x) /\ capabilities[x].capabilityType = u) <=> typeIndexPos[u][x] # 0
      BY DEF IInv, Indexed
    <3>3. CASE u = t
      BY <1>3, <1>7, <1>9, <3>1, <3>2, <3>3
    <3>4. CASE u # t
      BY <1>7, <1>9, <3>1, <3>2, <3>4
    <3> QED BY <3>3, <3>4
  <2>2. ASSUME NEW u \in Types PROVE Inverse1(capabilitiesByType'[u], typeIndexPos'[u])
    BY <1>1, <1>3, <1>5 DEF IInv, Typed, Indexed
  <2>3. \A u \in Types : Inverse1(capabilitiesByType[u], typeIndexPos[u])'
    BY <2>2 DEF Inverse1, Ids
  <2>4. \A x \in Ids : Live(x)' => capabilities'[x].capabilityType \in Types
    BY <1>7, <1>9 DEF IInv, Indexed
  <2> QED BY <2>1, <2>3, <2>4 DEF Indexed, Ids
<1>11. Booked'
  <2>1. /\ capabilities'[id].bond = 0
        /\ \A x \in Ids \ {id} : capabilities'[x].bond = capabilities[x].bond
    BY <1>4, <1>5 DEF IInv, Typed
  <2>2. /\ Total(bondOf, Ids) \in Int
        /\ Total(bondOf, Ids)' = Total(bondOf, Ids) - capabilities[id].bond + 0
    BY <1>6, <2>1, BondChange DEF IInv
  <2>3. capabilities[id].bond \in Nat /\ slashedEthPool \in Nat
    BY DEF IInv, Typed, Capability
  <2>4. eth' = slashedEthPool' + Total(bondOf, Ids)'
    BY <1>5, <2>2, <2>3 DEF IInv, Booked
  <2>5. \A x \in Ids : ~Live(x)' => capabilities'[x].bond = 0
    BY <1>7, <2>1 DEF IInv, Booked
  <2> QED BY <2>4, <2>5 DEF Booked, Ids
<1> QED BY <1>6, <1>8, <1>10, <1>11 DEF IInv

\* Every step keeps the books and the index.
LEMMA StepInv == IInv /\ [Next]_vars => IInv'
<1> SUFFICES ASSUME IInv, [Next]_vars PROVE IInv'
  OBVIOUS
<1>1. ASSUME UNCHANGED <<eth, nextTokenId, holder, capabilities, slashedEthPool,
                         capabilitiesByType, typeIndexPos>>
      PROVE  IInv'
  BY <1>1 DEF IInv, Typed, NotMintedIsNobodys, Indexed, Inverse1, Booked, bondOf, Live, Ids,
              Total, Table, IsTable, First
<1>2. ASSUME NEW c \in Certifiers, setCertifier(c) PROVE IInv'
  BY <1>1, <1>2 DEF setCertifier
<1>3. CASE setPaused
  BY <1>1, <1>3 DEF setPaused
<1>4. CASE withdrawEthPool(slashedEthPool)
  <2>1. slashedEthPool \in Nat /\ Total(bondOf, Ids) \in Int
    BY IdsFinite, BondsType, TotalType DEF IInv, Typed
  <2>2. UNCHANGED <<nextTokenId, holder, capabilities, capabilitiesByType, typeIndexPos>>
    BY <1>4 DEF withdrawEthPool
  <2>3. slashedEthPool' = 0 /\ eth' = eth - slashedEthPool
    BY <1>4, <2>1 DEF withdrawEthPool
  <2>4. Typed' /\ NotMintedIsNobodys' /\ Indexed'
    BY <2>2, <2>3 DEF IInv, Typed, NotMintedIsNobodys, Indexed, Inverse1, Live, Ids
  <2>5. Total(bondOf, Ids)' = Total(bondOf, Ids)
    BY <2>2 DEF bondOf, Ids, Total, Table, IsTable, First
  <2>6. Booked'
    BY <2>1, <2>2, <2>3, <2>5 DEF IInv, Booked, Live, Ids
  <2> QED BY <2>4, <2>6 DEF IInv
<1>5. CASE UNCHANGED vars
  BY <1>1, <1>5 DEF vars
<1> QED BY <1>2, <1>3, <1>4, <1>5, RegisterStep, TransferStep, CertifyStep, SlashStep,
           WithdrawStep DEF Next

-----------------------------------------------------------------------------
(* What follows *)

\* The inductive invariant.
THEOREM RegistryKept == Spec => []IInv
BY InitInv, StepInv, PTL DEF Spec

\* The positions number the entries of the list.
LEMMA ListLength ==
  ASSUME IInv, NEW t \in Types
  PROVE  Len(capabilitiesByType[t]) = Cardinality({i \in Ids : typeIndexPos[t][i] # 0})
<1> DEFINE list == capabilitiesByType[t]
           pos == typeIndexPos[t]
           In == {i \in Ids : pos[i] # 0}
           f == [i \in 1..Len(list) |-> list[i]]
<1>1. list \in Seq(Ids) /\ pos \in [Ids -> Nat] /\ Inverse1(list, pos)
  BY DEF IInv, Typed, Indexed
<1>2. f \in Bijection(1..Len(list), In)
  <2>1. f \in [1..Len(list) -> In]
    BY <1>1 DEF Inverse1
  <2>2. \A i, j \in 1..Len(list) : f[i] = f[j] => i = j
    BY <1>1 DEF Inverse1
  <2>3. \A x \in In : \E i \in 1..Len(list) : f[i] = x
    BY <1>1 DEF Inverse1
  <2> QED BY <2>1, <2>2, <2>3 DEF Bijection, Injection, Surjection, IsInjective
<1>3. IsFiniteSet(1..Len(list)) /\ Cardinality(1..Len(list)) = Len(list)
  <2>1. Len(list) \in Nat
    BY <1>1
  <2> HIDE DEF list
  <2>2. PICK n \in Nat : n = Len(list)
    BY <2>1
  <2>3. IsFiniteSet(1..n) /\ Cardinality(1..n) = n
    BY FS_Interval
  <2> QED BY <2>2, <2>3
<1> HIDE DEF f, In, list
<1>4. Cardinality(In) = Cardinality(1..Len(list))
  BY <1>2, <1>3, FS_Bijection DEF ExistsBijection
<1> QED BY <1>3, <1>4 DEF In, list

\* After any order of registrations and removals the index of each type lists its live
\* capabilities, each once and at the position noted for it.
THEOREM IndexIsExact == Spec => []IndexListsLiveCapabilities
<1>1. IInv => IndexListsLiveCapabilities
  BY ListLength DEF IInv, Indexed, Inverse1, IndexListsLiveCapabilities
<1> QED BY <1>1, RegistryKept, PTL

\* The sum of the property is the total of the bonds.
LEMMA SumOfBonds == MapThenSumSet(LAMBDA id : capabilities[id].bond, Ids) = Total(bondOf, Ids)
<1> DEFINE IsSum(h) == h = [s \in SUBSET Ids |->
                              IF s = {} THEN 0
                              ELSE capabilities[First(s)].bond + h[s \ {First(s)}]]
<1>1. ASSUME NEW h PROVE IsSum(h) <=> IsTable(h, bondOf, Ids)
  <2>1. \A s \in SUBSET Ids : s # {} => bondOf[First(s)] = capabilities[First(s)].bond
    BY DEF First, bondOf
  <2> QED BY <2>1 DEF IsTable
<1>2. MapThenSumSet(LAMBDA id : capabilities[id].bond, Ids) = (CHOOSE h : IsSum(h))[Ids]
  BY DEF MapThenSumSet, MapThenFoldSet, First
<1>3. (CHOOSE h : IsSum(h)) = (CHOOSE h : IsTable(h, bondOf, Ids))
  <2> HIDE DEF IsSum
  <2> QED BY <1>1, Zenon
<1> QED BY <1>2, <1>3 DEF Total, Table

\* The contract's ETH is exactly the pool and the bonds: none is paid out twice.
THEOREM EthIsAccounted == Spec => []EthAccounted
<1>1. IInv => EthAccounted
  <2> SUFFICES ASSUME IInv PROVE EthAccounted
    OBVIOUS
  <2>1. slashedEthPool >= 0 /\ \A id \in Ids : capabilities[id].bond >= 0
    BY DEF IInv, Typed, Capability
  <2> HIDE DEF EthAccounted
  <2>2. /\ eth = slashedEthPool + MapThenSumSet(LAMBDA id : capabilities[id].bond, Ids)
        /\ \A id \in Ids : ~Live(id) => capabilities[id].bond = 0
    BY SumOfBonds DEF IInv, Booked
  <2> QED BY <2>1, <2>2 DEF EthAccounted
<1> QED BY <1>1, RegistryKept, PTL
=============================================================================
