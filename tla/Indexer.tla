------------------------------ MODULE Indexer ------------------------------
(***************************************************************************)
(* packages/backend/src/indexer.ts: the poll loop that follows the chain   *)
(* into the database of IndexDb.  Node runs a poll from one awaited call   *)
(* to the next without interruption, so a step is the answer to a call of  *)
(* the RPC node and the code that runs up to the next call.  startIndexer  *)
(* asks for the head first, and nothing catches a failure of that call but *)
(* a handler that logs it.  The first poll of a process runs alone; after  *)
(* it a timer starts polls, whether or not an earlier one has ended.       *)
(*                                                                         *)
(* Writes are committed one by one.  The model lets a process die while it *)
(* waits for an answer and, with the fault "crash", also between applying  *)
(* a log and marking it, but not between two writes of one handler.        *)
(* The counters of indexerStatus and the retention of alerts, which        *)
(* Webhooks models, are left out.                                          *)
(*                                                                         *)
(* As in RulingOracle, a definition whose name starts with Faulty is the   *)
(* definition after it with one mistake.                                   *)
(***************************************************************************)
EXTENDS IndexedDiscovery, FiniteSets, FiniteSetsExt

CONSTANTS
    Polls,              \* polls that may be under way at once (bound)
    Scenarios,          \* what goes wrong, kinds of log, height of the chain (bounds),
                        \* and for how many blocks markers are kept (0: for ever)
    MaxMined,           \* blocks mined in all, orphaned ones included (bound)
    MaxRestarts,        \* restarts in all (bound)
    CONFIRMATIONS, CHUNK_SIZE, MAX_CHUNKS

ASSUME IndexerAssumption ==
    /\ \A s \in Scenarios :
          /\ s.faults \subseteq
                {"rpc", "hash", "null", "restart", "crash", "fork", "reorg"}
          /\ s.height \in Nat /\ s.markerBlocks \in Nat
    /\ Polls # {} /\ MaxMined \in Nat /\ MaxRestarts \in Nat
    /\ CONFIRMATIONS \in Nat /\ CHUNK_SIZE \in Nat \ {0} /\ MAX_CHUNKS \in Nat \ {0}

VARIABLES
    scenario,
    chain,              \* what the RPC node answers from
    mined,              \* blocks mined so far
    restarts,           \* restarts so far
    settled,            \* deepest block that has ever had CONFIRMATIONS on top
    db,                 \* SQLite
    indexer,            \* how far startIndexer is: it waits for the head, for the first
                        \* poll, has set the timer, or was rejected
    polls               \* the local variables of each poll under way

vars == <<scenario, chain, mined, restarts, settled, db, indexer, polls>>

\* pc names the call a poll waits for; next holds what the range has left, and ts what
\* stands for the timestamp of its first block.
NoPoll == [pc |-> "idle", safeHead |-> 0, cursor |-> 0, stored |-> 0, from |-> 0, to |-> 0,
           chunks |-> 0, next |-> << >>, ts |-> 0]

Init ==
    /\ scenario \in Scenarios
    /\ chain = << >> /\ mined = 0 /\ restarts = 0 /\ settled = 0
    /\ db = EmptyDb
    /\ indexer = "starting"
    /\ polls = [p \in Polls |-> NoPoll]

-----------------------------------------------------------------------------
(* The chain *)

Mine ==
    /\ Len(chain) < scenario.height /\ mined < MaxMined
    /\ \E e \in LogsIn(StateAt(chain, Len(chain)), scenario.kinds) :
          chain' = Extended(chain, mined + 1, e)
    /\ mined' = mined + 1
    /\ settled' = IF Len(chain) + 1 - CONFIRMATIONS > settled
                  THEN Len(chain) + 1 - CONFIRMATIONS ELSE settled
    /\ UNCHANGED <<scenario, restarts, db, indexer, polls>>

\* A fork replaces blocks that never had CONFIRMATIONS on top, a reorg any blocks, but
\* not in the middle of a poll.  The new branch can still overtake the old one.
Reorganise(keep) ==
    /\ keep < Len(chain)
    /\ keep + MaxMined - mined >= settled + CONFIRMATIONS
    /\ \/ "fork" \in scenario.faults /\ keep >= settled
       \/ "reorg" \in scenario.faults /\ \A p \in Polls : polls[p].pc = "idle"
    /\ chain' = SubSeq(chain, 1, keep)
    /\ UNCHANGED <<scenario, mined, restarts, settled, db, indexer, polls>>

-----------------------------------------------------------------------------
(* pollOnce and indexRange *)

LesserOf(a, b) == IF a <= b THEN a ELSE b

\* Poll p goes on with q, and nothing else runs between applying a log and marking it.
\* The end of the first poll is where the timer is set.
Continue(p, q) ==
    /\ \A o \in Polls \ {p} : polls[o].pc # "mark"
    /\ polls' = [polls EXCEPT ![p] = q]
    /\ indexer' = IF q.pc = "idle" THEN "polling" ELSE indexer

ChunkEnd(q) == LesserOf(q.safeHead, q.from + CHUNK_SIZE)

\* The head of the while loop: ask for the logs of the next chunk, or be done.
NextChunk(q) ==
    IF q.from < q.safeHead /\ q.chunks < MAX_CHUNKS
    THEN [q EXCEPT !.pc = "logs", !.to = ChunkEnd(q)]
    ELSE NoPoll

\* A poll that gets to its end deletes old markers.
Proceed(p, q, d) ==
    LET next == NextChunk(q)
    IN  /\ db' = IF next.pc = "idle"
                 THEN pruneIndexedLogs(d, d.lastBlock, scenario.markerBlocks) ELSE d
        /\ Continue(p, next)

\* The head of the for loop: skip blocks without a log, which the answer does not have,
\* and what is indexed; after the last log of the range
\* pollOnce moves the cursor and asks for the hash of the block it moved to.
NextLog(p, q, d) ==
    LET new == {i \in DOMAIN q.next :
                    q.next[i].log # NoLog /\ ~alreadyIndexed(d, q.next[i].hash)}
    IN  IF new = {}
        THEN /\ db' = [d EXCEPT !.lastBlock = q.to]
             /\ Continue(p, [q EXCEPT !.pc = "hash", !.next = << >>])
        ELSE /\ db' = d
             /\ Continue(p, [q EXCEPT !.pc = "stamp", !.next = SubSeq(@, Min(new), Len(@))])

RestOf(q) == [q EXCEPT !.next = Tail(@), !.ts = 0]

\* getBlockNumber, which a process needs once before its first poll.  No timer is set,
\* and no poll ever made, if this one call fails.
startIndexer ==
    /\ indexer = "starting"
    /\ indexer' \in {"first"} \cup (IF "rpc" \in scenario.faults THEN {"failed"} ELSE {})
    /\ UNCHANGED <<scenario, chain, mined, restarts, settled, db, polls>>

\* getBlockNumber.  The cursor and its hash are read before the next call.
startPoll(p) ==
    LET q == [NoPoll EXCEPT !.safeHead = Len(chain) - CONFIRMATIONS]
    IN  /\ polls[p].pc = "idle"
        /\ \/ indexer = "polling"
           \/ indexer = "first" /\ \A o \in Polls : polls[o].pc = "idle"
        /\ IF db.lastBlock > 0
           THEN /\ Continue(p, [q EXCEPT !.pc = "check", !.cursor = db.lastBlock,
                                         !.stored = db.lastHash])
                /\ db' = db
           ELSE Proceed(p, q, db)
        /\ UNCHANGED <<scenario, chain, mined, restarts, settled>>

\* What a call for the hash of block n may answer; a failure is caught and reads as 0.
HashAnswers(n) == {HashAt(chain, n)} \cup (IF "hash" \in scenario.faults THEN {0} ELSE {})

\* getBlock(cursor): a different hash there means that the index follows a dead fork.
checkHash(p, answer) ==
    LET q == polls[p]
        reorg == q.stored # 0 /\ answer # 0 /\ q.stored # answer
    IN  /\ q.pc = "check"
        /\ Proceed(p, [q EXCEPT !.from = IF reorg THEN 0 ELSE q.cursor],
                   IF reorg THEN resetIndexerDerived(db, q.cursor) ELSE db)
        /\ UNCHANGED <<scenario, chain, mined, restarts, settled>>

\* Starts one block too far on.
FaultyGetLogs(p) ==
    /\ polls[p].pc = "logs"
    /\ LET range == SubSeq(chain, polls[p].from + 2, LesserOf(polls[p].to, Len(chain)))
       IN  NextLog(p, [polls[p] EXCEPT !.next = range], db)
    /\ UNCHANGED <<scenario, chain, mined, restarts, settled>>

getLogs(p) ==
    /\ polls[p].pc = "logs"
    /\ LET range == SubSeq(chain, polls[p].from + 1, LesserOf(polls[p].to, Len(chain)))
       IN  NextLog(p, [polls[p] EXCEPT !.next = range], db)
    /\ UNCHANGED <<scenario, chain, mined, restarts, settled>>

NeedsCall(b) == b.log.kind \in {"CapabilityRegistered", "SelfAttested"}

\* What the timestamp of a block is taken for: the clock of the server, here the newest
\* timestamp, if the node has a null for the block.
Timestamps(b) ==
    {b.number} \cup (IF "null" \in scenario.faults THEN {Len(chain)} ELSE {})

\* getBlock for the timestamp.  Most logs are applied at once, two need another call.
blockTs(p) ==
    LET b == Head(polls[p].next)
    IN  /\ polls[p].pc = "stamp"
        /\ \E ts \in Timestamps(b) :
              /\ db' = IF NeedsCall(b) THEN db ELSE applyLog(db, b, ts)
              /\ Continue(p, [polls[p] EXCEPT !.pc = IF NeedsCall(b) THEN "enrich" ELSE "mark",
                                              !.ts = ts])
        /\ UNCHANGED <<scenario, chain, mined, restarts, settled>>

\* Calls that nothing catches before poll does: the poll ends where it stands.
failPoll(p) ==
    /\ "rpc" \in scenario.faults
    /\ polls[p].pc \in {"logs", "stamp"}
    /\ Continue(p, NoPoll)
    /\ UNCHANGED <<scenario, chain, mined, restarts, settled, db>>

\* getCapability reverts for a capability that is gone by now; getCompletion may
\* fail, but its failure is caught before the log is applied.
Enrichable(b) ==
    b.log.kind = "CapabilityRegistered" =>
        StateAt(chain, Len(chain)).capabilities[b.log.id].live

enrich(p) ==
    LET b == Head(polls[p].next)
    IN  /\ polls[p].pc = "enrich"
        /\ Enrichable(b)
        /\ db' = applyLog(db, b, polls[p].ts)
        /\ Continue(p, [polls[p] EXCEPT !.pc = "mark"])
        /\ UNCHANGED <<scenario, chain, mined, restarts, settled>>

\* Gives the poll up for a capability that cannot be read.
FaultySkipLog(p) ==
    LET b == Head(polls[p].next)
    IN  /\ polls[p].pc = "enrich"
        /\ b.log.kind = "CapabilityRegistered"
        /\ "rpc" \in scenario.faults \/ ~Enrichable(b)
        /\ Continue(p, NoPoll)
        /\ UNCHANGED <<scenario, chain, mined, restarts, settled, db>>

\* The failed log is left unmarked and the loop goes on.
skipLog(p) ==
    LET b == Head(polls[p].next)
    IN  /\ polls[p].pc = "enrich"
        /\ b.log.kind = "CapabilityRegistered"
        /\ "rpc" \in scenario.faults \/ ~Enrichable(b)
        /\ NextLog(p, RestOf(polls[p]), db)
        /\ UNCHANGED <<scenario, chain, mined, restarts, settled>>

markLog(p) ==
    /\ polls[p].pc = "mark"
    /\ NextLog(p, RestOf(polls[p]), markIndexed(db, Head(polls[p].next)))
    /\ UNCHANGED <<scenario, chain, mined, restarts, settled>>

\* getBlock(to).
storeHash(p, answer) ==
    LET q == polls[p]
    IN  /\ q.pc = "hash"
        /\ Proceed(p, [q EXCEPT !.from = q.to, !.chunks = @ + 1], [db EXCEPT !.lastHash = answer])
        /\ UNCHANGED <<scenario, chain, mined, restarts, settled>>

\* A server whose indexer was rejected runs on without it, until somebody restarts it.
restart ==
    /\ indexer # "starting"
    /\ \/ indexer = "failed" /\ restarts' = restarts
       \/ /\ restarts < MaxRestarts /\ restarts' = restarts + 1
          /\ \/ "crash" \in scenario.faults
             \/ "restart" \in scenario.faults /\ \A p \in Polls : polls[p].pc # "mark"
    /\ polls' = [p \in Polls |-> NoPoll]
    /\ indexer' = "starting"
    /\ UNCHANGED <<scenario, chain, mined, settled, db>>

-----------------------------------------------------------------------------

Poll(p) ==
    \/ startPoll(p)
    \/ \E answer \in HashAnswers(polls[p].cursor) : checkHash(p, answer)
    \/ getLogs(p)
    \/ blockTs(p)
    \/ failPoll(p)
    \/ enrich(p)
    \/ skipLog(p)
    \/ markLog(p)
    \/ \E answer \in HashAnswers(polls[p].to) : storeHash(p, answer)

Next ==
    \/ Mine
    \/ \E keep \in 0..MaxMined : Reorganise(keep)
    \/ startIndexer
    \/ \E p \in Polls : Poll(p)
    \/ restart

\* Blocks keep coming, the call of startIndexer is answered or fails, the timer starts
\* polls for ever, and a call that ends a poll when it fails, for logs or for the timestamp
\* of one block, succeeds at some time if it is made again and again.  The others never
\* need to, and nobody need restart a server that does not poll.
Fairness ==
    /\ WF_vars(Mine)
    /\ WF_vars(startIndexer)
    /\ \A p \in Polls :
          /\ WF_vars(Poll(p))
          /\ SF_vars(getLogs(p))
          /\ \A n \in 1..MaxMined : SF_vars(blockTs(p) /\ Head(polls[p].next).number = n)

Spec == Init /\ [][Next]_vars /\ Fairness

-----------------------------------------------------------------------------
(* Properties *)

\* Hashes of the logs whose effects are in the tables.
Applied ==
    {m.hash : m \in db.indexedLogs \cup db.forgotten} \cup
    {Head(polls[p].next).hash : p \in {p \in Polls : polls[p].pc = "mark"}}

\* The index follows the chain and not a dead fork.
Canonical == Applied \subseteq {chain[n].hash : n \in 1..Len(chain)}

\* The block of the last applied log, and the contracts' state after it.
IndexedTo == Max({0} \cup {n \in 1..Len(chain) : chain[n].hash \in Applied})
Indexed == StateAt(chain, IndexedTo)

CompletionsOf(w, a) == {i \in Completions : w.completions[i].agent = a}
ConfirmedOf(w, a) == {i \in CompletionsOf(w, a) : w.completions[i].counterparty # Nobody}
DisputedOf(w, a) == {i \in CompletionsOf(w, a) : w.completions[i].disputed}
PairOf(w, a, r) == {i \in CompletionsOf(w, a) : w.completions[i].counterparty = r}
PartnersOf(w, a) == {r \in Parties : PairOf(w, a, r) # {}}

\* The distinct counterparties of each agent, the count that ranks discovery, are
\* the contract's own.
DiversityMatchesChain ==
    Canonical =>
        \A a \in Agents : db.distinct[a] = Cardinality(PartnersOf(Indexed, a))

Without(faults) == scenario.faults \cap faults = {}

\* Two of these three together, a failing call for a hash, a lost process and a deep
\* reorganisation, can cut a rebuild off and leave a cursor that nothing belies and
\* nothing covers: the logs below it are then missing.
LostGuardsAreAlone ==
    \A one, other \in {{"hash"}, {"restart", "crash"}, {"reorg"}} :
        one = other \/ Without(one) \/ Without(other)

\* After a deep reorganisation a completion may have the number of an orphaned one of
\* another agent, whose row stays.
RowsAgree ==
    \A i \in Completions :
        Indexed.completions[i].agent \in {Nobody, db.completions[i]}

\* The counters that are bumped log by log are what a count over the contract's
\* completions gives: whichever guard of a rebuild is lost no log is missed, and none
\* is counted twice but the one that a process died on before it was marked; no activity
\* is taken for older than it is, nor for newer if the node has every block it tells of.
ScoresMatchChain ==
    Canonical /\ LostGuardsAreAlone =>
        \A a \in Agents :
            LET s == db.scores[a]
            IN  /\ s.completions >= Cardinality(CompletionsOf(Indexed, a))
                /\ s.lastActivity >= Indexed.lastActivity[a]
                /\ RowsAgree => s.disputes >= Cardinality(DisputedOf(Indexed, a))
                /\ Without({"crash"}) =>
                      /\ s.completions = Cardinality(CompletionsOf(Indexed, a))
                      /\ RowsAgree => /\ s.confirmed = Cardinality(ConfirmedOf(Indexed, a))
                                      /\ s.disputes = Cardinality(DisputedOf(Indexed, a))
                /\ Without({"crash", "null"}) => s.lastActivity = Indexed.lastActivity[a]

\* The score that the contract gives an agent at the last applied block but for the
\* cap by its stake, which the index does not know.
ChainScore(a, detected, now) ==
    _decayedScore(
        RankingCount(detected, Cardinality(CompletionsOf(Indexed, a)),
                     Cardinality(ConfirmedOf(Indexed, a)), Cardinality(PartnersOf(Indexed, a))),
        Cardinality(DisputedOf(Indexed, a)), Indexed.lastActivity[a], now)

\* What survives a rebuild counts on top of itself, and only a crash counts twice.
CountedOnce(detected) ==
    /\ Without({"crash", "reorg"})
    /\ detected.useCredit => Without({"restart"})

\* Whatever discovery lists was certified, and in the registry, at some block no older
\* than the last one applied, and is shown with its creator's profile, unless the blocks
\* that say so are orphaned.  Whenever it is asked, and whichever score it ranks by, it
\* shows the contract's uncapped score, "so the index score matches on-chain exactly"
\* (indexer.ts:176), and a higher one only if the node did not have a block.
DiscoveryMatchesChain ==
    Canonical /\ LostGuardsAreAlone =>
        \A detected \in Detections, now \in IndexedTo..(IndexedTo + DECAY_GRACE + DECAY_HORIZON) :
            \A item \in queryIndexedDiscovery(db, detected, 0, now) :
                /\ Without({"reorg"}) =>
                      /\ \E n \in IndexedTo..Len(chain) :
                            LET k == StateAt(chain, n).capabilities[item.capabilityId]
                            IN  k.certified /\ k.live /\ k.creator = item.agentAddress
                      /\ \E n \in IndexedTo..Len(chain) :
                            item.identityCID = StateAt(chain, n).agentMetadataCID[item.agentAddress]
                /\ CountedOnce(detected) =>
                      LET onChain == ChainScore(item.agentAddress, detected, now)
                      IN  /\ item.score >= onChain
                          /\ Without({"null"}) => item.score = onChain

\* A log the cursor has passed is not asked for again unless the stored hash belies
\* the cursor, so it must be applied: every one but a registration that was skipped,
\* and but for what LostGuardsAreAlone tells of.
CursorCoversLogs ==
    LostGuardsAreAlone /\ db.lastHash \in {0, HashAt(chain, db.lastBlock)} =>
        \A n \in 1..Len(chain) :
            /\ n <= db.lastBlock
            /\ chain[n].log # NoLog
            /\ chain[n].log.kind # "CapabilityRegistered"
            => chain[n].hash \in {m.hash : m \in db.indexedLogs \cup db.forgotten}

AlertKinds ==
    {"CapabilitySlashed", "BondWithdrawn", "OwnerActed", "ChallengeSubmitted",
     "ChallengeResolved", "ChallengeCancelled"}

CallsForAlert(n) == chain[n].log.kind \in AlertKinds
TellsOf(row, n) == row.kind = chain[n].log.kind /\ row.block = n /\ row.tx = chain[n].hash

\* Every applied log that calls for an alert has raised one, and one only, however
\* often its block was polled; but for those of orphaned blocks below the cursor, which a
\* rebuild keeps, no alert is raised for anything else.
AlertsMatchLogs ==
    Canonical =>
        /\ \A n \in 1..Len(chain) :
              CallsForAlert(n) /\ chain[n].hash \in Applied =>
                  \E row \in db.alerts : TellsOf(row, n)
        /\ \A row, other \in db.alerts : SameAlert(row, other) => row = other
        /\ Without({"reorg"}) =>
              \A row \in db.alerts : \E n \in 1..Len(chain) : CallsForAlert(n) /\ TellsOf(row, n)

\* The index keeps up with a chain whose node fails again and again: a capability that
\* can never be read does not hold up what comes after it, and nothing but a call that
\* fails while the server starts keeps it from polling.
EventuallyIndexed == []<>(indexer = "failed") \/ []<>(db.lastBlock >= settled)

\* What was slashed by the last applied block is not listed: "Returns certified,
\* non-slashed agents sorted by score" (LITEPAPER.md:116).
SlashedNeverListed ==
    Canonical => \A i \in Listed(db) : ~Indexed.capabilities[i].slashed

=============================================================================
