------------------------------ MODULE IndexDb ------------------------------
(***************************************************************************)
(* packages/backend/src/index_db.ts: the tables of the indexer, as one     *)
(* record that survives the process, and the writes to them as functions   *)
(* from one content of the database to the next.  applyLog is what         *)
(* indexer.ts does with each kind of log, but for its awaited calls.       *)
(*                                                                         *)
(* A row that is missing reads as zeros (COALESCE), so a row of zeros and  *)
(* no row are one value.  There is one type of capability; bonds and the   *)
(* CIDs of capabilities are left out: they are copied and never branched   *)
(* on.  forgotten is an observation: the markers that retention deleted.   *)
(***************************************************************************)
EXTENDS EventLog, FiniteSets

EmptyDb ==
    [scores |-> [a \in Agents |->
        [completions |-> 0, confirmed |-> 0, disputes |-> 0, lastActivity |-> 0]],
     completions |-> [i \in Completions |-> Nobody],        \* the agent of each row
     receipts |-> [i \in Completions |-> [agent |-> Nobody, counterparty |-> Nobody]],
     confirmations |-> [a \in Agents |-> [r \in Parties |-> 0]],
     distinct |-> [a \in Agents |-> 0],
     capabilities |-> [i \in Capabilities |->
        [creator |-> Nobody, certified |-> FALSE, slashed |-> FALSE]],
     identity |-> [a \in Agents |-> Nobody],
     alerts |-> {}, indexedLogs |-> {}, forgotten |-> {},
     lastBlock |-> 0,                                       \* 0: null, or the start block less 1
     lastHash |-> 0]                                        \* 0: null or ""

AtLeastZero(n) == IF n < 0 THEN 0 ELSE n

-----------------------------------------------------------------------------

alreadyIndexed(db, hash) == \E m \in db.indexedLogs : m.hash = hash

markIndexed(db, b) ==
    [db EXCEPT !.indexedLogs = @ \cup {[hash |-> b.hash, block |-> b.number]}]

\* Deletes the markers below the cutoff, none if keep is 0.
pruneIndexedLogs(db, currentBlock, keep) ==
    LET old == {m \in db.indexedLogs : keep > 0 /\ m.block < currentBlock - keep}
    IN  [db EXCEPT !.indexedLogs = @ \ old, !.forgotten = @ \cup old]

SameAlert(row, alert) ==
    row.kind = alert.kind /\ row.block = alert.block /\ row.tx = alert.tx

\* The ids that subscribers see are in Webhooks; here they tell copies of an alert apart.
Alert(db, b) ==
    LET copies == {row \in db.alerts :
                      row.kind = b.log.kind /\ row.block = b.number /\ row.tx = b.hash}
    IN  [id |-> Cardinality(copies) + 1, kind |-> b.log.kind, block |-> b.number, tx |-> b.hash]

\* Records an alert each time its log is applied.
FaultyRecordAlert(db, b) ==
    [db EXCEPT !.alerts = @ \cup {Alert(db, b)}]

recordAlert(db, b) ==
    IF \E row \in db.alerts : SameAlert(row, Alert(db, b))
    THEN db
    ELSE [db EXCEPT !.alerts = @ \cup {Alert(db, b)}]

\* Keeps a row it finds, with the certification and the slash in it.
upsertIndexedCapability(db, i, creator) == [db EXCEPT !.capabilities[i].creator = creator]

HasRow(db, i) == db.capabilities[i].creator # Nobody

UpdateCapability(db, i, next) ==
    IF HasRow(db, i) THEN [db EXCEPT !.capabilities[i] = next] ELSE db

certifyIndexedCapability(db, i) ==
    UpdateCapability(db, i, [db.capabilities[i] EXCEPT !.certified = TRUE])

slashIndexedCapability(db, i) ==
    UpdateCapability(db, i, [db.capabilities[i] EXCEPT !.slashed = TRUE])

deleteIndexedCapability(db, i) ==
    [db EXCEPT !.capabilities[i] = EmptyDb.capabilities[i]]

bumpAgent(db, a, delta) ==
    [db EXCEPT !.scores[a] =
        [completions |-> @.completions + delta.completions,
         confirmed |-> AtLeastZero(@.confirmed + delta.confirmed),
         disputes |-> @.disputes + delta.disputes,
         lastActivity |-> IF delta.lastActivity > @.lastActivity THEN delta.lastActivity
                                                                 ELSE @.lastActivity]]

NoDelta == [completions |-> 0, confirmed |-> 0, disputes |-> 0, lastActivity |-> 0]

bumpCounterparty(db, a, r, delta) ==
    LET cur == db.confirmations[a][r]
        next == cur + delta
    IN  [db EXCEPT !.confirmations[a][r] = AtLeastZero(next),
                   !.distinct[a] = CASE next <= 0 /\ cur > 0 -> AtLeastZero(@ - 1)
                                     [] next > 0 /\ cur = 0 -> @ + 1
                                     [] OTHER -> @]

\* INSERT OR IGNORE: the first row written for an id stays.
recordIndexedCompletion(db, i, a) ==
    IF db.completions[i] = Nobody THEN [db EXCEPT !.completions[i] = a] ELSE db

addReceiptIndex(db, i, a, r) ==
    [db EXCEPT !.receipts[i] = [agent |-> a, counterparty |-> r]]

deleteReceiptIndex(db, i) ==
    [db EXCEPT !.receipts[i] = [agent |-> Nobody, counterparty |-> Nobody]]

setAgentIdentity(db, a, cid) == [db EXCEPT !.identity[a] = cid]

\* Leaves the scores to the replay, which adds to them.
FaultyResetIndexerDerived(db, fromBlock) ==
    [db EXCEPT !.alerts = {row \in @ : row.block < fromBlock},
               !.receipts = EmptyDb.receipts, !.identity = EmptyDb.identity,
               !.indexedLogs = {}, !.forgotten = {}]

\* Completions, capabilities and the counts per counterparty stay as they are.
resetIndexerDerived(db, fromBlock) ==
    [db EXCEPT !.alerts = {row \in @ : row.block < fromBlock},
               !.scores = EmptyDb.scores,
               !.receipts = EmptyDb.receipts, !.identity = EmptyDb.identity,
               !.indexedLogs = {}, !.forgotten = {}]

-----------------------------------------------------------------------------

\* A receipt, if there is one, is taken back by its counterparty or by a dispute.
DropReceipt(db, i, a) ==
    LET r == db.receipts[i].counterparty
    IN  IF a = Nobody \/ r = Nobody THEN deleteReceiptIndex(db, i)
        ELSE deleteReceiptIndex(
                bumpCounterparty(bumpAgent(db, a, [NoDelta EXCEPT !.confirmed = -1]), a, r, -1),
                i)

applyRegistryEvent(db, b) ==
    LET e == b.log
    IN  CASE e.kind = "CapabilityRegistered" -> upsertIndexedCapability(db, e.id, e.creator)
          [] e.kind = "CapabilityCertified"  -> certifyIndexedCapability(db, e.id)
          [] e.kind = "CapabilitySlashed"    -> recordAlert(slashIndexedCapability(db, e.id), b)
          [] e.kind = "BondWithdrawn"        -> recordAlert(deleteIndexedCapability(db, e.id), b)
          [] OTHER                           -> recordAlert(db, b)

applyRonEvent(db, b, ts) ==
    LET e == b.log
    IN  CASE e.kind = "SelfAttested" ->
                bumpAgent(recordIndexedCompletion(db, e.id, e.agent), e.agent,
                          [NoDelta EXCEPT !.completions = 1, !.lastActivity = ts])
          [] e.kind = "ReceiptAttested" ->
                bumpCounterparty(
                    bumpAgent(addReceiptIndex(db, e.id, e.agent, e.counterparty), e.agent,
                              [NoDelta EXCEPT !.confirmed = 1, !.lastActivity = ts]),
                    e.agent, e.counterparty, 1)
          [] e.kind = "ReceiptRevoked" -> DropReceipt(db, e.id, db.receipts[e.id].agent)
          [] e.kind = "ChallengeResolved" /\ e.upheld /\ db.completions[e.id] # Nobody ->
                LET a == db.completions[e.id]
                IN  DropReceipt(bumpAgent(recordAlert(db, b), a, [NoDelta EXCEPT !.disputes = 1]),
                                e.id, a)
          [] e.kind = "AgentRegistered" -> setAgentIdentity(db, e.agent, e.cid)
          [] OTHER -> recordAlert(db, b)

RegistryKinds ==
    {"CapabilityRegistered", "CapabilityCertified", "CapabilitySlashed", "BondWithdrawn",
     "OwnerActed"}

\* ts is what the server takes for the timestamp of the block.
applyLog(db, b, ts) ==
    IF b.log.kind \in RegistryKinds THEN applyRegistryEvent(db, b) ELSE applyRonEvent(db, b, ts)

=============================================================================
