------------------------------ MODULE Webhooks ------------------------------
(***************************************************************************)
(* packages/backend/src/webhooks.ts: the dispatcher that posts the alerts  *)
(* of the indexer to one subscriber, with the rows it keeps in SQLite and  *)
(* the three things that happen to the table of alerts under it: the       *)
(* indexer records, its retention prunes, a rebuild deletes and replays.   *)
(*                                                                         *)
(* Node runs a poll from one awaited fetch to the next without             *)
(* interruption.  Polls overlap when a batch outlasts the interval.  Time  *)
(* is counted in poll intervals and NEXT_ATTEMPT is kept as the time left. *)
(* Every block raises one alert; a block is rebuilt with the transaction   *)
(* it had or with another one.  The counters that are only reported are    *)
(* left out.  A definition whose name starts with Faulty is the one after  *)
(* it with one mistake.                                                    *)
(***************************************************************************)
EXTENDS Naturals, FiniteSets

CONSTANTS
    Polls,              \* polls that may be under way at once (bound)
    MaxBlocks,          \* blocks of the chain (bound)
    MaxRebuilds,        \* rebuilds of the index in all (bound)
    MaxRestarts,        \* restarts in all (bound)
    maxPerPoll,         \* TAOP_WEBHOOK_MAX_PER_POLL
    alertsKeep,         \* DB_RETENTION_ALERTS
    MAX_BACKOFF         \* MAX_BACKOFF_MS in poll intervals

ASSUME WebhooksAssumption ==
    /\ MaxBlocks \in Nat /\ MaxRebuilds \in Nat /\ MaxRestarts \in Nat
    /\ maxPerPoll \in Nat \ {0} /\ alertsKeep \in Nat /\ MAX_BACKOFF \in Nat \ {0}

VARIABLES
    alerts,             \* the table: id, block, transaction
    nextId,             \* sqlite_sequence of the table
    indexed,            \* the block the indexer has reached
    rebuilds, restarts,
    cursor,             \* webhook_last_alert_id
    streak,             \* webhook_fail_streak, up to where the backoff saturates
    wait,               \* webhook_next_attempt_ms less now
    config,             \* what loadWebhookConfig makes of the environment
    process,            \* of the server
    polls,              \* the alerts a poll has read and not dealt with, and its call
    received            \* what the subscriber has accepted

alertVars == <<alerts, nextId, indexed, rebuilds>>
meta == <<cursor, streak, wait>>
server == <<restarts, config, process>>
vars == <<alertVars, meta, server, polls, received>>

Alerts == [id : Nat \ {0}, block : 1..MaxBlocks, tx : 0..MaxRebuilds]
Configs == {"valid", "none", "invalid"}
NoPoll == [pc |-> "idle", batch |-> {}]

Init ==
    /\ alerts = {} /\ nextId = 1 /\ indexed = 0 /\ rebuilds = 0
    /\ cursor = 0 /\ streak = 0 /\ wait = 0
    /\ config \in Configs /\ process = "starting" /\ restarts = 0
    /\ polls = [p \in Polls |-> NoPoll]
    /\ received = {}

-----------------------------------------------------------------------------
(* The table of alerts: index_db.ts *)

\* A key that is not AUTOINCREMENT follows the largest id in the table.
FaultyRecordAlert(b, t) ==
    IF \E a \in alerts : a.block = b /\ a.tx = t
    THEN UNCHANGED <<alerts, nextId>>
    ELSE \E id \in 1..nextId :
            /\ \A a \in alerts : a.id < id
            /\ id = 1 \/ \E a \in alerts : a.id = id - 1
            /\ alerts' = alerts \cup {[id |-> id, block |-> b, tx |-> t]}
            /\ nextId' = id + 1

recordAlert(b, t) ==
    IF \E a \in alerts : a.block = b /\ a.tx = t
    THEN UNCHANGED <<alerts, nextId>>
    ELSE /\ alerts' = alerts \cup {[id |-> nextId, block |-> b, tx |-> t]}
         /\ nextId' = nextId + 1

\* The indexer applies the log of the next block.
applyLog ==
    /\ indexed < MaxBlocks
    /\ indexed' = indexed + 1
    /\ \E t \in 0..rebuilds : recordAlert(indexed + 1, t)
    /\ UNCHANGED <<rebuilds, meta, server, polls, received>>

\* The hash at the cursor differs: the alerts from that block on go, and every block
\* is indexed again.
resetIndexerDerived ==
    /\ indexed > 0 /\ rebuilds < MaxRebuilds
    /\ alerts' = {a \in alerts : a.block < indexed}
    /\ indexed' = 0
    /\ rebuilds' = rebuilds + 1
    /\ UNCHANGED <<nextId, meta, server, polls, received>>

Newer(id) == {a \in alerts : a.id > id}

\* Oldest first, at most limit of them.
listAlertsAfter(id, limit) ==
    {a \in Newer(id) : Cardinality({b \in Newer(id) : b.id < a.id}) < limit}

\* Unless a subscriber is configured nothing is held back for it.
KeptForDelivery(a) == config = "valid" /\ a.id > cursor

\* Has no regard for what is still to be delivered.
FaultyPruneAlerts ==
    /\ alertsKeep > 0
    /\ alerts' = {a \in alerts : Cardinality(Newer(a.id)) < alertsKeep}
    /\ UNCHANGED <<nextId, indexed, rebuilds, meta, server, polls, received>>

\* At the end of a poll of the indexer.
pruneAlerts ==
    /\ alertsKeep > 0
    /\ alerts' = {a \in alerts : Cardinality(Newer(a.id)) < alertsKeep \/ KeptForDelivery(a)}
    /\ UNCHANGED <<nextId, indexed, rebuilds, meta, server, polls, received>>

-----------------------------------------------------------------------------
(* pollWebhooksOnce: what follows names the step by the answer it acts on *)

Oldest(S) == {a \in S : \A b \in S : a.id <= b.id}

LesserOf(a, b) == IF a <= b THEN a ELSE b

Backoff(s) == LesserOf(2 ^ s, MAX_BACKOFF)

\* Poll p goes on with what is left of its batch.
Continue(p, batch) ==
    polls' = [polls EXCEPT ![p] =
                IF batch = {} THEN NoPoll ELSE [pc |-> "sent", batch |-> batch]]

\* A poll that comes too early puts the next attempt off.
FaultyStartPoll(p) ==
    /\ process = "running" /\ config = "valid"
    /\ polls[p].pc = "idle"
    /\ IF wait = 0
       THEN Continue(p, listAlertsAfter(cursor, maxPerPoll)) /\ UNCHANGED wait
       ELSE wait' = Backoff(streak) /\ UNCHANGED polls
    /\ UNCHANGED <<alertVars, cursor, streak, server, received>>

\* The timer, or startWebhookDispatcher itself.
startPoll(p) ==
    /\ process = "running" /\ config = "valid"
    /\ polls[p].pc = "idle"
    /\ wait = 0
    /\ Continue(p, listAlertsAfter(cursor, maxPerPoll))
    /\ UNCHANGED <<alertVars, meta, server, received>>

\* The subscriber accepts the request; its answer is under way.
accept(p) ==
    /\ polls[p].pc = "sent"
    /\ received' = received \cup Oldest(polls[p].batch)
    /\ polls' = [polls EXCEPT ![p].pc = "accepted"]
    /\ UNCHANGED <<alertVars, meta, server>>

\* deliverAlert returns.
delivered(p) ==
    /\ polls[p].pc = "accepted"
    /\ \E alert \in Oldest(polls[p].batch) :
          /\ cursor' = alert.id
          /\ Continue(p, polls[p].batch \ {alert})
    /\ streak' = 0 /\ wait' = 0
    /\ UNCHANGED <<alertVars, server, received>>

\* Goes on with the next alert of the batch.
FaultyFail(p) ==
    /\ polls[p].pc # "idle"
    /\ streak' = LesserOf(streak + 1, MAX_BACKOFF)
    /\ wait' = Backoff(streak + 1)
    /\ Continue(p, polls[p].batch \ Oldest(polls[p].batch))
    /\ UNCHANGED <<alertVars, cursor, server, received>>

\* deliverAlert throws: an error status, no connection, or a timeout, which may come
\* after the subscriber has accepted.
fail(p) ==
    /\ polls[p].pc # "idle"
    /\ streak' = LesserOf(streak + 1, MAX_BACKOFF)
    /\ wait' = Backoff(streak + 1)
    /\ Continue(p, {})
    /\ UNCHANGED <<alertVars, cursor, server, received>>

-----------------------------------------------------------------------------
(* The server and the clock *)

startWebhookDispatcher ==
    /\ process = "starting"
    /\ process' = "running"
    /\ UNCHANGED <<alertVars, meta, restarts, config, polls, received>>

\* The timer stops; a poll under way goes on until the process ends.
stopWebhookDispatcher ==
    /\ process = "running" /\ restarts < MaxRestarts
    /\ process' = "stopping"
    /\ UNCHANGED <<alertVars, meta, restarts, config, polls, received>>

\* The process ends, or is killed, and the next one may find another environment.
restart ==
    /\ restarts < MaxRestarts
    /\ restarts' = restarts + 1
    /\ process' = "starting"
    /\ config' \in Configs
    /\ polls' = [p \in Polls |-> NoPoll]
    /\ UNCHANGED <<alertVars, meta, received>>

Tick ==
    /\ wait > 0
    /\ wait' = wait - 1
    /\ UNCHANGED <<alertVars, cursor, streak, server, polls, received>>

Dispatch(p) == startPoll(p) \/ accept(p) \/ delivered(p) \/ fail(p)

Next ==
    \/ applyLog \/ resetIndexerDerived \/ pruneAlerts
    \/ \E p \in Polls : Dispatch(p)
    \/ startWebhookDispatcher \/ stopWebhookDispatcher \/ restart
    \/ Tick

\* The interval timer fires for ever, a call ends, a stopped process is started again,
\* and a subscriber that is asked again and again accepts and answers at some time.
Fairness ==
    /\ WF_vars(startWebhookDispatcher)
    /\ WF_vars(process = "stopping" /\ restart)
    /\ WF_vars(Tick)
    /\ \A p \in Polls :
          WF_vars(Dispatch(p)) /\ WF_vars(startPoll(p)) /\ SF_vars(accept(p)) /\ SF_vars(delivered(p))

Spec == Init /\ [][Next]_vars /\ Fairness

-----------------------------------------------------------------------------
(* Properties *)

\* What the cursor counts as delivered the subscriber has accepted, whatever polls
\* overlap and move the cursor back, whatever is deleted and replayed under it, and
\* wherever the process dies: at-least-once (webhooks.ts:4-5).
CursorMeansReceived == \A a \in alerts : a.id <= cursor => a \in received

\* An alert reaches the subscriber for the first time only after every older alert
\* of the table: "ordered" (webhooks.ts:275), for a subscriber that drops repetitions.
FirstDeliveriesInOrder ==
    \A a \in received, b \in alerts : b.id < a.id => b \in received

\* Retention removes no alert that a configured subscriber has not accepted
\* (OPERATIONS.md:166), although the cursor it reads may have moved back or on.
RetentionKeepsUndelivered ==
    [][pruneAlerts /\ config = "valid" => alerts \ alerts' \subseteq received]_vars

\* However often the subscriber fails, an alert that stays in the table reaches it,
\* unless the next process finds no subscriber to deliver to.
EventuallyDelivered ==
    \A n \in 1..(MaxBlocks * (MaxRebuilds + 1)) :
        (\E a \in alerts : a.id = n) ~>
            \/ \E a \in received : a.id = n
            \/ \A a \in alerts : a.id # n
            \/ config # "valid"

=============================================================================
