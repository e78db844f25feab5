-------------------------- MODULE IndexedDiscovery --------------------------
(***************************************************************************)
(* The read path of packages/backend/src/indexer.ts: what GET /discover    *)
(* answers from the tables of IndexDb, with a score that the server        *)
(* computes from the counters, the decay constants it has read from the    *)
(* contract, and its own clock.  Paging cuts this list and is left out.    *)
(***************************************************************************)
EXTENDS IndexDb

\* What startIndexer has found out.  A probe that fails, for whatever reason, reads as
\* a contract without the feature, and the credit score is probed last.
Detections ==
    {[useTwoSided |-> FALSE, useCredit |-> FALSE], [useTwoSided |-> TRUE, useCredit |-> FALSE],
     [useTwoSided |-> TRUE, useCredit |-> TRUE]}

\* Decays from the last activity on, without the grace.
FaultyDecayedScore(count, disputes, lastActivity, now) ==
    LET net == AtLeastZero(count - disputes)
        elapsed == now - lastActivity
        bps == ((DECAY_HORIZON - elapsed) * 10000) \div DECAY_HORIZON
    IN  IF net = 0 \/ lastActivity = 0 THEN net
        ELSE IF elapsed >= DECAY_HORIZON THEN 0 ELSE (net * bps) \div 10000

decayedScore(count, disputes, lastActivity, now) ==
    LET net == AtLeastZero(count - disputes)
        elapsed == now - lastActivity
        decayed == elapsed - DECAY_GRACE
        bps == ((DECAY_HORIZON - decayed) * 10000) \div DECAY_HORIZON
    IN  IF net = 0 \/ lastActivity = 0 \/ elapsed <= DECAY_GRACE THEN net
        ELSE IF decayed >= DECAY_HORIZON THEN 0 ELSE (net * bps) \div 10000

RankingCount(detected, completions, confirmed, distinct) ==
    CASE detected.useCredit -> distinct
      [] detected.useTwoSided /\ ~detected.useCredit -> confirmed
      [] OTHER -> completions

Listed(db) ==
    {i \in Capabilities : HasRow(db, i) /\ db.capabilities[i].certified /\ ~db.capabilities[i].slashed}

queryIndexedDiscovery(db, detected, minScore, now) ==
    {item \in
        {LET a == db.capabilities[i].creator
             s == db.scores[a]
             count == RankingCount(detected, s.completions, s.confirmed, db.distinct[a])
         IN  [capabilityId |-> i, agentAddress |-> a, identityCID |-> db.identity[a],
              disputes |-> s.disputes, completions |-> count,
              score |-> decayedScore(count, s.disputes, s.lastActivity, now)] : i \in Listed(db)} :
     item.score >= minScore}

=============================================================================
