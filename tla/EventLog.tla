------------------------------ MODULE EventLog ------------------------------
(***************************************************************************)
(* The chain as the backend sees it: a sequence of blocks, each with the   *)
(* log it carries and the state the two indexed contracts are in after it. *)
(* Which logs can follow which is what ReputationOracleNetwork.sol and     *)
(* CapabilityRegistry.sol allow, of their state only what their logs tell: *)
(* ReputationOracle and CapabilityRegistry model them in full.             *)
(*                                                                         *)
(* A block carries one log at most and its timestamp is its height.  The   *)
(* logs that only raise an alert (pause, pool withdrawal, new certifier)   *)
(* are one kind, OwnerActed.                                               *)
(***************************************************************************)
EXTENDS Integers, Sequences

CONSTANTS
    Agents,
    Parties,            \* counterparties
    Nobody,             \* address(0)
    MaxCompletions, MaxCapabilities,    \* ids in use (bounds)
    Profiles,           \* metadata of an agent
    DECAY_GRACE, DECAY_HORIZON

ASSUME EventLogAssumption ==
    /\ Nobody \notin Agents \cup Parties
    /\ MaxCompletions \in Nat /\ MaxCapabilities \in Nat
    /\ DECAY_GRACE \in Nat /\ DECAY_HORIZON \in Nat \ {0}

Completions == 1..MaxCompletions
Capabilities == 1..MaxCapabilities

Genesis ==
    [completions |-> [i \in Completions |->
        [agent |-> Nobody, counterparty |-> Nobody, challenged |-> FALSE, pending |-> FALSE,
         disputed |-> FALSE]],
     capabilities |-> [i \in Capabilities |->
        [registered |-> FALSE, live |-> FALSE, certified |-> FALSE, slashed |-> FALSE,
         creator |-> Nobody]],
     agentMetadataCID |-> [a \in Agents |-> Nobody],
     lastActivity |-> [a \in Agents |-> 0]]

NoLog == [kind |-> "None"]

-----------------------------------------------------------------------------

CompletionLogs(w, i) ==
    LET c == w.completions[i]
    IN  IF c.agent = Nobody
        THEN IF \A j \in 1..(i - 1) : w.completions[j].agent # Nobody
             THEN {[kind |-> "SelfAttested", id |-> i, agent |-> a] : a \in Agents}
             ELSE {}
        ELSE {e \in
                  {[kind |-> "ReceiptAttested", id |-> i, agent |-> c.agent, counterparty |-> r] :
                      r \in Parties} : c.counterparty = Nobody /\ ~c.disputed /\ ~c.pending}
             \cup {e \in {[kind |-> "ReceiptRevoked", id |-> i]} : c.counterparty # Nobody}
             \cup {e \in {[kind |-> "ChallengeSubmitted", id |-> i]} : ~c.challenged}
             \cup {e \in {[kind |-> "ChallengeResolved", id |-> i, upheld |-> TRUE],
                          [kind |-> "ChallengeResolved", id |-> i, upheld |-> FALSE],
                          [kind |-> "ChallengeCancelled", id |-> i]} : c.pending}

CapabilityLogs(w, i) ==
    LET k == w.capabilities[i]
    IN  IF ~k.registered
        THEN {e \in {[kind |-> "CapabilityRegistered", id |-> i, creator |-> a] : a \in Agents} :
                 \A j \in 1..(i - 1) : w.capabilities[j].registered}
        ELSE {e \in {[kind |-> "CapabilityCertified", id |-> i],
                     [kind |-> "CapabilitySlashed", id |-> i],
                     [kind |-> "BondWithdrawn", id |-> i]} : k.live}

\* The logs of certain kinds that the contracts may emit in state w.
LogsIn(w, kinds) ==
    {e \in {NoLog, [kind |-> "OwnerActed"]}
           \cup (UNION {CompletionLogs(w, i) : i \in Completions})
           \cup (UNION {CapabilityLogs(w, i) : i \in Capabilities})
           \cup {[kind |-> "AgentRegistered", agent |-> a, cid |-> c] :
                    a \in Agents, c \in Profiles} : e.kind \in kinds}

\* The state of the contracts after a log in a block with timestamp ts.
StateAfter(w, e, ts) ==
    CASE e.kind = "SelfAttested" ->
            [w EXCEPT !.completions[e.id].agent = e.agent, !.lastActivity[e.agent] = ts]
      [] e.kind = "ReceiptAttested" ->
            [w EXCEPT !.completions[e.id].counterparty = e.counterparty,
                      !.lastActivity[e.agent] = ts]
      [] e.kind = "ReceiptRevoked" ->
            [w EXCEPT !.completions[e.id].counterparty = Nobody]
      [] e.kind = "ChallengeSubmitted" ->
            [w EXCEPT !.completions[e.id].challenged = TRUE, !.completions[e.id].pending = TRUE]
      [] e.kind = "ChallengeResolved" ->
            LET c == w.completions[e.id]
            IN  [w EXCEPT !.completions[e.id] =
                    [c EXCEPT !.pending = FALSE, !.disputed = e.upheld,
                              !.counterparty = IF e.upheld THEN Nobody ELSE c.counterparty]]
      [] e.kind = "ChallengeCancelled" ->
            [w EXCEPT !.completions[e.id].pending = FALSE]
      [] e.kind = "CapabilityRegistered" ->
            [w EXCEPT !.capabilities[e.id] =
                [@ EXCEPT !.registered = TRUE, !.live = TRUE, !.creator = e.creator]]
      [] e.kind = "CapabilityCertified" ->
            [w EXCEPT !.capabilities[e.id].certified = TRUE]
      [] e.kind = "CapabilitySlashed" ->
            [w EXCEPT !.capabilities[e.id].slashed = TRUE]
      [] e.kind = "BondWithdrawn" ->
            [w EXCEPT !.capabilities[e.id].live = FALSE]
      [] e.kind = "AgentRegistered" -> [w EXCEPT !.agentMetadataCID[e.agent] = e.cid]
      [] OTHER -> w

\* The contract's decay: whole after DECAY_GRACE, nothing DECAY_HORIZON later.
_decayedScore(count, disputes, lastAct, now) ==
    LET net == IF count > disputes THEN count - disputes ELSE 0
        decayed == now - lastAct - DECAY_GRACE
        decayBps == CASE decayed <= 0             -> 10000
                      [] decayed >= DECAY_HORIZON -> 0
                      [] OTHER -> ((DECAY_HORIZON - decayed) * 10000) \div DECAY_HORIZON
    IN  IF lastAct > 0 THEN (net * decayBps) \div 10000 ELSE net

-----------------------------------------------------------------------------

StateAt(chain, n) == IF n = 0 THEN Genesis ELSE chain[n].state

\* Block hashes are numbers that are never used twice; 0 stands for no block.
HashAt(chain, n) == IF n \in 1..Len(chain) THEN chain[n].hash ELSE 0

Extended(chain, hash, e) ==
    LET n == Len(chain) + 1
    IN  Append(chain, [number |-> n, hash |-> hash, log |-> e,
                       state |-> StateAfter(StateAt(chain, n - 1), e, n)])

=============================================================================
