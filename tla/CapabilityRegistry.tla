------------------------- MODULE CapabilityRegistry -------------------------
(***************************************************************************)
(* contracts/CapabilityRegistry.sol: creators register capabilities as     *)
(* ERC-721 tokens behind an ETH bond, a certifier certifies or slashes     *)
(* them, and an index by type lists the ones that are live.  A step is a   *)
(* transaction; metadata is left out.  As in RulingOracle, a definition    *)
(* whose name starts with Faulty is the one after it with one mistake.     *)
(***************************************************************************)
EXTENDS Integers, Sequences, FiniteSets, FiniteSetsExt

CONSTANTS
    Accounts, Owner, Zero,
    Types,              \* capability types
    Creators,           \* accounts that register capabilities (bound)
    Certifiers,         \* addresses the owner appoints (bound)
    InitialCertifier,
    MaxTokens,          \* registrations in all (bound)
    Bonds,              \* values registrations are sent with (bound)
    Penalties,          \* penalties certifiers try (bound)
    MIN_BOND

ASSUME RegistryAssumption ==
    /\ Owner \in Accounts /\ Zero \notin Accounts
    /\ IsFiniteSet(Accounts) /\ IsFiniteSet(Types)
    /\ Creators \subseteq Accounts
    /\ Certifiers \subseteq Accounts \cup {Zero} /\ InitialCertifier \in Accounts
    /\ MaxTokens \in Nat /\ Bonds \subseteq Nat /\ Penalties \subseteq Nat
    /\ MIN_BOND \in Nat \ {0}

Ids == 1..MaxTokens

VARIABLES
    eth,                \* the contract's own balance
    paused,
    certifier,
    nextTokenId,        \* _nextTokenId
    holder,             \* ERC-721: _ownerOf
    capabilities,       \* _capabilities
    slashedEthPool,
    capabilitiesByType,
    typeIndexPos        \* _typeIndexPos

vars == <<eth, paused, certifier, nextTokenId, holder, capabilities, slashedEthPool,
          capabilitiesByType, typeIndexPos>>

NoCapability ==
    [creator |-> Zero, bond |-> 0, capabilityType |-> Zero, certified |-> FALSE,
     slashed |-> FALSE]

Init ==
    /\ eth = 0 /\ paused = FALSE
    /\ certifier = InitialCertifier
    /\ nextTokenId = 0
    /\ holder = [id \in Ids |-> Zero]
    /\ capabilities = [id \in Ids |-> NoCapability]
    /\ slashedEthPool = 0
    /\ capabilitiesByType = [t \in Types |-> << >>]
    /\ typeIndexPos = [t \in Types |-> [id \in Ids |-> 0]]

Live(id) == holder[id] # Zero

-----------------------------------------------------------------------------

setCertifier(c) ==
    /\ c # Zero
    /\ certifier' = c
    /\ UNCHANGED <<eth, paused, nextTokenId, holder, capabilities, slashedEthPool,
                   capabilitiesByType, typeIndexPos>>

setPaused ==
    /\ paused' = ~paused
    /\ UNCHANGED <<eth, certifier, nextTokenId, holder, capabilities, slashedEthPool,
                   capabilitiesByType, typeIndexPos>>

\* _safeMint calls a creator that is a contract before the capability is written.
\* The guard keeps that callback out of every handler, but not out of the ERC-721
\* transfer: the token may have a new holder when the registration goes on.
registerCapability(sender, next, capabilityType, bond) ==
    LET id == nextTokenId + 1
    IN  /\ id <= MaxTokens
        /\ ~paused
        /\ bond >= MIN_BOND
        /\ nextTokenId' = id
        /\ holder' = [holder EXCEPT ![id] = next]
        /\ capabilities' = [capabilities EXCEPT ![id] =
                              [NoCapability EXCEPT !.creator = sender, !.bond = bond,
                                                   !.capabilityType = capabilityType]]
        /\ capabilitiesByType' = [capabilitiesByType EXCEPT ![capabilityType] = Append(@, id)]
        /\ typeIndexPos' = [typeIndexPos EXCEPT ![capabilityType][id] =
                              Len(capabilitiesByType[capabilityType]) + 1]
        /\ eth' = eth + bond
        /\ UNCHANGED <<paused, certifier, slashedEthPool>>

\* ERC-721 transferFrom: creator and bond stay as they are.
transferFrom(id, to) ==
    /\ Live(id)
    /\ holder' = [holder EXCEPT ![id] = to]
    /\ UNCHANGED <<eth, paused, certifier, nextTokenId, capabilities, slashedEthPool,
                   capabilitiesByType, typeIndexPos>>

certifyCapability(id, sender) ==
    /\ ~paused
    /\ sender \in {certifier, Owner}
    /\ Live(id)
    /\ capabilities' = [capabilities EXCEPT ![id].certified = TRUE]
    /\ UNCHANGED <<eth, paused, certifier, nextTokenId, holder, slashedEthPool,
                   capabilitiesByType, typeIndexPos>>

\* A penalty of 0 marks the capability all the same.
slashCapability(id, sender, penalty) ==
    /\ ~paused
    /\ sender \in {certifier, Owner}
    /\ Live(id)
    /\ penalty <= capabilities[id].bond
    /\ capabilities' = [capabilities EXCEPT ![id].bond = @ - penalty, ![id].slashed = TRUE]
    /\ slashedEthPool' = slashedEthPool + penalty
    /\ UNCHANGED <<eth, paused, certifier, nextTokenId, holder, capabilitiesByType,
                   typeIndexPos>>

\* Moves the last entry without noting its new place.
FaultyRemoveFromTypeIndex(t, id) ==
    LET pos == typeIndexPos[t][id]
        list == capabilitiesByType[t]
        lastId == list[Len(list)]
        moved == [list EXCEPT ![pos] = lastId]
    IN  /\ capabilitiesByType' = [capabilitiesByType EXCEPT ![t] = SubSeq(moved, 1, Len(list) - 1)]
        /\ typeIndexPos' = [typeIndexPos EXCEPT ![t][id] = 0]

\* Swap and pop: the last entry takes the place of the removed one.
_removeFromTypeIndex(t, id) ==
    LET pos == typeIndexPos[t][id]
        list == capabilitiesByType[t]
        lastId == list[Len(list)]
        moved == [list EXCEPT ![pos] = lastId]
    IN  /\ capabilitiesByType' = [capabilitiesByType EXCEPT ![t] = SubSeq(moved, 1, Len(list) - 1)]
        /\ typeIndexPos' = [typeIndexPos EXCEPT ![t] = [@ EXCEPT ![lastId] = pos, ![id] = 0]]

\* Keeps the bond on the books of the burned token.
FaultyWithdrawBond(id, sender) ==
    /\ Live(id)
    /\ sender = capabilities[id].creator
    /\ capabilities[id].bond # 0
    /\ _removeFromTypeIndex(capabilities[id].capabilityType, id)
    /\ holder' = [holder EXCEPT ![id] = Zero]
    /\ eth' = eth - capabilities[id].bond
    /\ UNCHANGED <<paused, certifier, nextTokenId, capabilities, slashedEthPool>>

\* Asks for the token as well as for having created it.
FaultyHolderWithdrawBond(id, sender) ==
    /\ Live(id)
    /\ sender = capabilities[id].creator /\ sender = holder[id]
    /\ capabilities[id].bond # 0
    /\ capabilities' = [capabilities EXCEPT ![id].bond = 0]
    /\ _removeFromTypeIndex(capabilities[id].capabilityType, id)
    /\ holder' = [holder EXCEPT ![id] = Zero]
    /\ eth' = eth - capabilities[id].bond
    /\ UNCHANGED <<paused, certifier, nextTokenId, slashedEthPool>>

\* The creator's exit, whoever holds the token by then.  Not pausable.
withdrawBond(id, sender) ==
    /\ Live(id)
    /\ sender = capabilities[id].creator
    /\ capabilities[id].bond # 0
    /\ capabilities' = [capabilities EXCEPT ![id].bond = 0]
    /\ _removeFromTypeIndex(capabilities[id].capabilityType, id)
    /\ holder' = [holder EXCEPT ![id] = Zero]
    /\ eth' = eth - capabilities[id].bond
    /\ UNCHANGED <<paused, certifier, nextTokenId, slashedEthPool>>

withdrawEthPool(amount) ==
    /\ amount # 0 /\ amount <= slashedEthPool
    /\ slashedEthPool' = slashedEthPool - amount
    /\ eth' = eth - amount
    /\ UNCHANGED <<paused, certifier, nextTokenId, holder, capabilities, capabilitiesByType,
                   typeIndexPos>>

-----------------------------------------------------------------------------

Next ==
    \/ \E c \in Certifiers : setCertifier(c)
    \/ setPaused
    \/ \E sender \in Creators, next \in Accounts, t \in Types, bond \in Bonds :
          registerCapability(sender, next, t, bond)
    \/ \E id \in Ids, to \in Accounts : transferFrom(id, to)
    \/ \E id \in Ids, sender \in Accounts : certifyCapability(id, sender)
    \/ \E id \in Ids, sender \in Accounts, penalty \in Penalties :
          slashCapability(id, sender, penalty)
    \/ \E id \in Ids, sender \in Accounts : withdrawBond(id, sender)
    \/ withdrawEthPool(slashedEthPool)

Spec == Init /\ [][Next]_vars

-----------------------------------------------------------------------------
(* Properties *)

\* The contract's ETH is exactly the pool and the bonds on record, and a burned
\* capability has none: however a bond was cut, it is paid out once, and no checked
\* subtraction reverts for want of it.
EthAccounted ==
    /\ eth = slashedEthPool + MapThenSumSet(LAMBDA id : capabilities[id].bond, Ids)
    /\ \A id \in Ids : capabilities[id].bond >= 0 /\ (~Live(id) => capabilities[id].bond = 0)
    /\ slashedEthPool >= 0

\* The index of a type lists its live capabilities, each once and none burned, and
\* the stored positions find them, after any order of removals; so a removal never
\* reads outside the list or takes another capability out with it.
IndexListsLiveCapabilities ==
    \A t \in Types, id \in Ids :
        LET pos == typeIndexPos[t][id]
            list == capabilitiesByType[t]
        IN  /\ (Live(id) /\ capabilities[id].capabilityType = t) <=> pos # 0
            /\ pos # 0 => pos <= Len(list) /\ list[pos] = id
            /\ Len(list) = Cardinality({i \in Ids : typeIndexPos[t][i] # 0})

\* A creator can always take the rest of its bond out: no pause, no slash, no
\* transfer of the token and no removal of another capability stands in the way.
CreatorCanExit ==
    \A id \in Ids :
        capabilities[id].bond > 0 => ENABLED withdrawBond(id, capabilities[id].creator)

=============================================================================
