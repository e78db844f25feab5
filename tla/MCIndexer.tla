----------------------------- MODULE MCIndexer -----------------------------
(***************************************************************************)
(* The indexer on short chains.  One agent is enough for the counters; two *)
(* completions of one counterparty make its receipts count once.  Logs of  *)
(* the two contracts touch different tables, so they get chains of their   *)
(* own; on the chains with both kinds the agent registers itself and a     *)
(* capability, attests and gets a receipt, so that discovery has a score   *)
(* to show.  On each of them calls fail, nodes lack blocks, and processes  *)
(* are lost.  Forks need only a log that is applied at once, one that      *)
(* needs a call, and none.  In three scenarios retention deletes all       *)
(* markers but those of the last block.  A rebuild that failing calls cut  *)
(* off counts receipts again and again, without end, so those calls and    *)
(* receipts meet no deep reorganisation.                                   *)
(***************************************************************************)
EXTENDS Indexer

CONSTANTS agent, buyer

Reputation ==
    {"SelfAttested", "ReceiptAttested", "ReceiptRevoked", "ChallengeSubmitted",
     "ChallengeResolved", "ChallengeCancelled"}

Registry ==
    {"None", "CapabilityRegistered", "CapabilityCertified", "CapabilitySlashed",
     "BondWithdrawn"}

Sorts == {"None", "OwnerActed", "CapabilityRegistered"}

Ranking == {"CapabilityRegistered", "CapabilityCertified", "SelfAttested", "ReceiptAttested"}

Rulings == {"SelfAttested", "ChallengeSubmitted", "ChallengeResolved"}

Scenario(faults, kinds, height) ==
    [faults |-> faults, kinds |-> kinds, height |-> height, markerBlocks |-> 0]

Pruning(s) == [s EXCEPT !.markerBlocks = 1]

NodeFails ==
    {Scenario({"rpc"}, Reputation, 5), Scenario({"rpc", "hash", "null"}, Reputation, 4),
     Pruning(Scenario({"null"}, Ranking, 5)), Scenario({"rpc"}, Registry, 4),
     Scenario({"rpc"}, (Ranking \ {"ReceiptAttested"}) \cup {"AgentRegistered"}, 4),
     Scenario({"rpc", "hash", "fork"}, Sorts, 3)}

ProcessIsLost ==
    {Pruning(Scenario({"restart", "rpc"},
                      Reputation \ {"ReceiptRevoked", "ChallengeCancelled"}, 4)),
     Pruning(Scenario({"restart"}, Ranking, 4)),
     Scenario({"restart"}, Registry, 4),
     Scenario({"crash", "rpc"}, Reputation, 4), Scenario({"crash"}, Ranking, 4),
     Scenario({"crash", "fork"}, Sorts \ {"None"}, 3)}

\* No cursor is sure of its logs any more, but alerts are, and the index keeps up.
GuardsAreLost == {Scenario({"hash", "restart", "reorg"}, {"None", "OwnerActed"}, 3)}

ChainIsReorganised ==
    {Scenario({"reorg"}, Rulings, 4),
     Scenario({"reorg", "rpc", "null"}, Rulings \cup {"OwnerActed"}, 3),
     Scenario({"reorg", "rpc"}, Registry, 3),
     Scenario({"reorg", "crash"}, Reputation \ {"ChallengeSubmitted"}, 3)}

MCScenarios == NodeFails \cup ProcessIsLost \cup ChainIsReorganised \cup GuardsAreLost

RegistryUnderFailingCalls == {Scenario({"rpc"}, Registry, 4)}
NothingFails == {Scenario({}, Reputation, 3)}
OneRestart == {Scenario({"restart"}, Reputation, 5)}
=============================================================================
