--------------------------- MODULE WebhooksProofs ---------------------------
(***************************************************************************)
(* Proofs about Webhooks, for any number of overlapping polls, rebuilds    *)
(* and restarts, any batch size and any retention.                         *)
(*                                                                         *)
(* CursorMeansReceived is not inductive: a poll moves the cursor to an     *)
(* alert it read some time ago, past whatever the table holds by then.     *)
(* What makes that sound is BatchesInOrder: every alert older than one in  *)
(* a batch is in the same batch or has been received, because a batch is   *)
(* read oldest first from a cursor that covers only received alerts, and   *)
(* every alert recorded later has a greater id.                            *)
(***************************************************************************)
EXTENDS Webhooks, FiniteSetTheorems, TLAPS

\* Every alert that the table, a poll or the subscriber knows.
Known == alerts \cup received \cup UNION {polls[p].batch : p \in Polls}

\* The variables have their types, and the table is finite.  The backoff is left out:
\* no prover knows that a power of 2 is a number.
Typed ==
    /\ alerts \subseteq Alerts /\ IsFiniteSet(alerts)
    /\ received \subseteq Alerts
    /\ nextId \in Nat \ {0} /\ indexed \in 0..MaxBlocks
    /\ rebuilds \in 0..MaxRebuilds /\ restarts \in 0..MaxRestarts
    /\ cursor \in Nat
    /\ config \in Configs /\ process \in {"starting", "running", "stopping"}
    /\ polls \in [Polls -> [pc : {"idle", "sent", "accepted"}, batch : SUBSET Alerts]]

\* An id is given once.
IdsUnique ==
    /\ \A a \in Known : a.id < nextId
    /\ \A a, b \in Known : a.id = b.id => a = b

\* No alert older than one in a batch is left out.
BatchesInOrder ==
    \A p \in Polls : \A a \in polls[p].batch, b \in alerts :
        b.id < a.id => b \in received \/ b \in polls[p].batch

\* The alert whose answer is under way has been received.
AnswersFollow ==
    \A p \in Polls : polls[p].pc = "accepted" => Oldest(polls[p].batch) \subseteq received

\* The cursor is an id that has been given.
CursorUsed == cursor < nextId

IInv ==
    /\ Typed
    /\ CursorUsed
    /\ IdsUnique
    /\ BatchesInOrder
    /\ AnswersFollow
    /\ CursorMeansReceived
    /\ FirstDeliveriesInOrder

-----------------------------------------------------------------------------

\* The batch a poll reads is part of the table, above the cursor, and leaves no
\* older alert out.
LEMMA BatchIsOldest ==
    ASSUME IsFiniteSet(alerts), alerts \subseteq Alerts, NEW id \in Nat,
           NEW limit \in Nat \ {0}
    PROVE  /\ listAlertsAfter(id, limit) \subseteq Newer(id)
           /\ \A a \in listAlertsAfter(id, limit), b \in Newer(id) :
                 b.id < a.id => b \in listAlertsAfter(id, limit)
<1>1. listAlertsAfter(id, limit) \subseteq Newer(id)
  BY DEF listAlertsAfter
<1>2. ASSUME NEW a \in listAlertsAfter(id, limit), NEW b \in Newer(id), b.id < a.id
      PROVE  b \in listAlertsAfter(id, limit)
  <2> DEFINE Below(c) == {d \in Newer(id) : d.id < c.id}
  <2>1. a \in Alerts /\ b \in Alerts /\ Newer(id) \subseteq Alerts /\ Newer(id) \subseteq alerts
    BY <1>1 DEF Newer
  <2>2. Below(b) \subseteq Below(a)
    BY <1>2, <2>1 DEF Alerts
  <2>3. IsFiniteSet(Below(a))
    <3>1. Below(a) \subseteq alerts
      BY <2>1
    <3> QED BY <3>1, FS_Subset
  <2>4. IsFiniteSet(Below(b)) /\ Cardinality(Below(b)) <= Cardinality(Below(a))
    BY <2>2, <2>3, FS_Subset
  <2>5. Cardinality(Below(a)) \in Nat /\ Cardinality(Below(b)) \in Nat
    BY <2>3, <2>4, FS_CardinalityType
  <2>6. Cardinality(Below(a)) < limit
    BY DEF listAlertsAfter
  <2>7. Cardinality(Below(b)) < limit
    BY <2>4, <2>5, <2>6
  <2> HIDE DEF Below
  <2>8. listAlertsAfter(id, limit) = {c \in Newer(id) : Cardinality(Below(c)) < limit}
    BY DEF listAlertsAfter, Below
  <2> QED BY <2>7, <2>8
<1> QED BY <1>1, <1>2


\* The invariant holds at the start: there is no alert.
LEMMA InitEstablishes == WebhooksAssumption /\ Init => IInv
<1> SUFFICES ASSUME WebhooksAssumption, Init PROVE IInv
  OBVIOUS
<1>1. Known = {}
  BY DEF Init, Known, NoPoll
<1>2. Typed
  BY FS_EmptySet DEF Init, Typed, WebhooksAssumption, NoPoll
<1> QED BY <1>1, <1>2 DEF Init, IInv, IdsUnique, BatchesInOrder, AnswersFollow,
      CursorUsed, CursorMeansReceived, FirstDeliveriesInOrder, NoPoll

\* A step that leaves the polls and the subscriber alone and adds to the table nothing
\* but an alert under the next id keeps the invariant.
LEMMA TableStep ==
    ASSUME IInv, Typed',
           UNCHANGED <<cursor, polls, received>>,
           \/ alerts' \subseteq alerts /\ nextId' = nextId
           \/ \E a \in Alerts : a.id = nextId /\ alerts' = alerts \cup {a} /\ nextId' = nextId + 1
    PROVE  IInv'
<1> USE DEF IInv
<1>1. nextId \in Nat /\ nextId' \in Nat /\ nextId <= nextId' /\ cursor \in Nat
  BY DEF Typed
<1>2. \A a \in alerts' \cup received \cup UNION {polls[p].batch : p \in Polls} : a.id \in Nat
  BY DEF Typed, Alerts
<1>3. \A a \in alerts' : a \in alerts \/ (a.id = nextId /\ nextId < nextId')
  BY <1>1
<1>4. Known' = alerts' \cup received \cup UNION {polls[p].batch : p \in Polls}
  BY DEF Known
<1>5. \A a \in Known' : a \in Known \/ (a.id = nextId /\ nextId < nextId')
  BY <1>3, <1>4 DEF Known
<1>6. IdsUnique'
  <2>1. \A a \in Known' : a.id < nextId'
    BY <1>1, <1>2, <1>4, <1>5 DEF IdsUnique
  <2>2. ASSUME NEW a \in Known', NEW b \in Known', a.id = b.id PROVE a = b
    <3>1. CASE a \in Known /\ b \in Known
      BY <2>2, <3>1 DEF IdsUnique
    <3>2. CASE a \notin Known \/ b \notin Known
      <4>1. a.id = nextId /\ b.id = nextId
        BY <1>5, <2>2, <3>2
      <4>2. a \notin Known /\ b \notin Known
        BY <1>1, <4>1 DEF IdsUnique
      <4>3. a \in alerts' \ alerts /\ b \in alerts' \ alerts
        BY <1>4, <4>2 DEF Known
      <4> QED BY <4>3
    <3> QED BY <3>1, <3>2
  <2> QED BY <2>1, <2>2 DEF IdsUnique
<1>7. \A a \in received \cup UNION {polls[p].batch : p \in Polls} : a.id < nextId
  BY DEF IdsUnique, Known
<1>8. BatchesInOrder'
  <2> SUFFICES ASSUME NEW p \in Polls, NEW a \in polls[p].batch, NEW b \in alerts', b.id < a.id
               PROVE  b \in received \/ b \in polls[p].batch
    BY DEF BatchesInOrder
  <2>1. b \in alerts
    BY <1>1, <1>2, <1>3, <1>7
  <2> QED BY <2>1 DEF BatchesInOrder
<1>9. CursorMeansReceived'
  <2> SUFFICES ASSUME NEW a \in alerts', a.id <= cursor PROVE a \in received
    BY DEF CursorMeansReceived
  <2> QED BY <1>1, <1>3 DEF CursorMeansReceived, CursorUsed
<1>10. FirstDeliveriesInOrder'
  <2> SUFFICES ASSUME NEW a \in received, NEW b \in alerts', b.id < a.id PROVE b \in received
    BY DEF FirstDeliveriesInOrder
  <2>1. b \in alerts
    BY <1>1, <1>2, <1>3, <1>7
  <2> QED BY <2>1 DEF FirstDeliveriesInOrder
<1>11. AnswersFollow' /\ CursorUsed'
  BY <1>1 DEF AnswersFollow, CursorUsed, Oldest
<1> QED BY <1>6, <1>8, <1>9, <1>10, <1>11

\* A step of one poll that leaves the table alone keeps the invariant if what is left of
\* the batch, the cursor and what is received fit together.
LEMMA PollStep ==
    ASSUME IInv, Typed', NEW p \in Polls,
           UNCHANGED <<alerts, nextId>>,
           polls' = [polls EXCEPT ![p] = polls'[p]],
           polls'[p].batch \subseteq alerts \cup polls[p].batch,
           received \subseteq received', received' \subseteq received \cup polls[p].batch,
           \A a \in polls'[p].batch, b \in alerts :
                b.id < a.id => b \in received' \/ b \in polls'[p].batch,
           polls'[p].pc = "accepted" => Oldest(polls'[p].batch) \subseteq received',
           cursor' < nextId,
           \A a \in alerts : a.id <= cursor' => a \in received',
           \A a \in received', b \in alerts : b.id < a.id => b \in received'
    PROVE  IInv'
<1> USE DEF IInv
<1>1. \A o \in Polls \ {p} : polls'[o] = polls[o]
  BY DEF Typed
<1>2. Known' \subseteq Known
  <2>1. \A o \in Polls : polls'[o].batch \subseteq Known
    BY <1>1 DEF Known
  <2> QED BY <2>1 DEF Known
<1>3. IdsUnique'
  BY <1>2 DEF IdsUnique
<1>4. BatchesInOrder'
  <2> SUFFICES ASSUME NEW o \in Polls, NEW a \in polls'[o].batch, NEW b \in alerts, b.id < a.id
               PROVE  b \in received' \/ b \in polls'[o].batch
    BY DEF BatchesInOrder
  <2>1. CASE o = p
    BY <2>1
  <2>2. CASE o # p
    BY <1>1, <2>2 DEF BatchesInOrder
  <2> QED BY <2>1, <2>2
<1>5. AnswersFollow'
  <2> SUFFICES ASSUME NEW o \in Polls, polls'[o].pc = "accepted"
               PROVE  Oldest(polls'[o].batch) \subseteq received'
    BY DEF AnswersFollow, Oldest
  <2>1. CASE o = p
    BY <2>1
  <2>2. CASE o # p
    <3>1. polls'[o] = polls[o]
      BY <1>1, <2>2
    <3>2. Oldest(polls[o].batch) \subseteq received
      BY <3>1 DEF AnswersFollow
    <3> QED BY <3>1, <3>2
  <2> QED BY <2>1, <2>2
<1>6. CursorMeansReceived' /\ FirstDeliveriesInOrder' /\ CursorUsed'
  BY DEF CursorMeansReceived, FirstDeliveriesInOrder, CursorUsed
<1> QED BY <1>3, <1>4, <1>5, <1>6

\* Every step keeps the types.
LEMMA StepTyped == WebhooksAssumption /\ IInv /\ [Next]_vars => Typed'
<1> SUFFICES ASSUME WebhooksAssumption, Typed, BatchesInOrder, [Next]_vars PROVE Typed'
  BY DEF IInv
<1> USE DEF Typed, vars, alertVars, meta, server
<1>1. \A S : S \subseteq alerts => IsFiniteSet(S) /\ S \subseteq Alerts
  BY FS_Subset
<1>2. ASSUME NEW t \in 0..rebuilds, NEW b \in 1..MaxBlocks, recordAlert(b, t)
      PROVE  alerts' \subseteq Alerts /\ IsFiniteSet(alerts') /\ nextId' \in Nat \ {0}
  <2> DEFINE new == [id |-> nextId, block |-> b, tx |-> t]
  <2>1. new \in Alerts
    BY WebhooksAssumption DEF Alerts, WebhooksAssumption
  <2>2. IsFiniteSet(alerts \cup {new})
    BY FS_AddElement
  <2> QED BY <1>2, <2>1, <2>2 DEF recordAlert
<1>3. ASSUME NEW p \in Polls, NEW batch \in SUBSET Alerts, Continue(p, batch)
      PROVE  polls' \in [Polls -> [pc : {"idle", "sent", "accepted"}, batch : SUBSET Alerts]]
  BY <1>3 DEF Continue, NoPoll
<1>4. CASE applyLog
  <2>1. indexed + 1 \in 1..MaxBlocks
    BY <1>4 DEF applyLog, WebhooksAssumption
  <2> QED BY <1>2, <1>4, <2>1 DEF applyLog, WebhooksAssumption
<1>5. CASE resetIndexerDerived
  BY <1>1, <1>5 DEF resetIndexerDerived, WebhooksAssumption
<1>6. CASE pruneAlerts
  BY <1>1, <1>6 DEF pruneAlerts
<1>7. ASSUME NEW p \in Polls, startPoll(p) PROVE Typed'
  <2>1. listAlertsAfter(cursor, maxPerPoll) \subseteq Alerts
    BY DEF listAlertsAfter, Newer
  <2> QED BY <1>3, <1>7, <2>1 DEF startPoll
<1>8. ASSUME NEW p \in Polls, accept(p) PROVE Typed'
  BY <1>8 DEF accept, Oldest
<1>9. ASSUME NEW p \in Polls, delivered(p) PROVE Typed'
  <2>1. PICK alert \in Oldest(polls[p].batch) :
            cursor' = alert.id /\ Continue(p, polls[p].batch \ {alert})
    BY <1>9 DEF delivered
  <2>2. alert \in Alerts /\ polls[p].batch \ {alert} \in SUBSET Alerts
    BY DEF Oldest
  <2>3. cursor' \in Nat
    BY <2>1, <2>2 DEF Alerts
  <2> QED BY <1>3, <1>9, <2>1, <2>2, <2>3 DEF delivered
<1>10. ASSUME NEW p \in Polls, fail(p) PROVE Typed'
  BY <1>3, <1>10 DEF fail
<1>11. CASE startWebhookDispatcher \/ stopWebhookDispatcher \/ restart \/ Tick
  BY <1>11 DEF startWebhookDispatcher, stopWebhookDispatcher, restart, Tick, NoPoll,
      WebhooksAssumption
<1>12. CASE UNCHANGED vars
  BY <1>12
<1> QED BY <1>4, <1>5, <1>6, <1>7, <1>8, <1>9, <1>10, <1>11, <1>12 DEF Next, Dispatch

\* The inductive step.
LEMMA StepKeeps == WebhooksAssumption /\ IInv /\ [Next]_vars => IInv'
<1> SUFFICES ASSUME WebhooksAssumption, IInv, [Next]_vars PROVE IInv'
  OBVIOUS
<1>1. Typed'
  BY StepTyped
<1>2. Typed
  BY DEF IInv
<1> USE DEF vars, alertVars, meta, server
<1>3. CASE applyLog
  <2>1. PICK t \in 0..rebuilds : recordAlert(indexed + 1, t)
    BY <1>3 DEF applyLog
  <2>2. indexed + 1 \in 1..MaxBlocks
    BY <1>2, <1>3 DEF applyLog, Typed, WebhooksAssumption
  <2> DEFINE new == [id |-> nextId, block |-> indexed + 1, tx |-> t]
  <2>3. new \in Alerts /\ new.id = nextId
    BY <1>2, <2>2 DEF Alerts, Typed, WebhooksAssumption
  <2>4. \/ alerts' \subseteq alerts /\ nextId' = nextId
        \/ alerts' = alerts \cup {new} /\ nextId' = nextId + 1
    BY <2>1 DEF recordAlert
  <2> QED BY <1>1, <1>3, <2>3, <2>4, TableStep DEF applyLog
<1>4. CASE resetIndexerDerived
  BY <1>1, <1>4, TableStep DEF resetIndexerDerived
<1>5. CASE pruneAlerts
  BY <1>1, <1>5, TableStep DEF pruneAlerts
<1>6. ASSUME NEW p \in Polls, startPoll(p) PROVE IInv'
  <2> DEFINE batch == listAlertsAfter(cursor, maxPerPoll)
  <2>1. /\ batch \subseteq Newer(cursor)
        /\ \A a \in batch, b \in Newer(cursor) : b.id < a.id => b \in batch
    BY <1>2, BatchIsOldest DEF Typed, WebhooksAssumption
  <2>2. polls'[p].batch = batch /\ polls'[p].pc # "accepted" /\ polls' = [polls EXCEPT ![p] = polls'[p]]
    BY <1>2, <1>6 DEF startPoll, Continue, NoPoll, Typed
  <2> HIDE DEF batch
  <2>3. batch \subseteq alerts
    BY <2>1 DEF Newer
  <2>4. ASSUME NEW a \in batch, NEW b \in alerts, b.id < a.id
        PROVE  b \in received \/ b \in batch
    <3>1. CASE b.id <= cursor
      BY <3>1 DEF IInv, CursorMeansReceived
    <3>2. CASE ~(b.id <= cursor)
      <4>1. b \in Newer(cursor)
        BY <1>2, <3>2 DEF Newer, Typed, Alerts
      <4> QED BY <2>1, <2>4, <4>1
    <3> QED BY <3>1, <3>2
  <2>5. UNCHANGED <<alerts, nextId, cursor, received>>
    BY <1>6 DEF startPoll
  <2>6. /\ cursor' < nextId
        /\ \A a \in alerts : a.id <= cursor' => a \in received'
        /\ \A a \in received', b \in alerts : b.id < a.id => b \in received'
    BY <2>5 DEF IInv, CursorUsed, CursorMeansReceived, FirstDeliveriesInOrder
  <2> QED BY <1>1, <2>2, <2>3, <2>4, <2>5, <2>6, PollStep
<1>7. ASSUME NEW p \in Polls, accept(p) PROVE IInv'
  <2>1. /\ polls'[p].batch = polls[p].batch /\ polls' = [polls EXCEPT ![p] = polls'[p]]
        /\ UNCHANGED <<alerts, nextId, cursor>>
    BY <1>2, <1>7 DEF accept, Typed
  <2>2. received' = received \cup Oldest(polls[p].batch) /\ Oldest(polls[p].batch) \subseteq polls[p].batch
    BY <1>7 DEF accept, Oldest
  <2>3. \A a \in polls[p].batch, b \in alerts :
            b.id < a.id => b \in received' \/ b \in polls[p].batch
    BY <2>2 DEF IInv, BatchesInOrder
  <2>4. ASSUME NEW a \in received', NEW b \in alerts, b.id < a.id PROVE b \in received'
    <3>1. CASE a \in received
      BY <2>2, <2>4, <3>1 DEF IInv, FirstDeliveriesInOrder
    <3>2. CASE a \in Oldest(polls[p].batch)
      <4>1. a \in Alerts /\ b \in Alerts
        BY <1>2, <2>2, <3>2 DEF Typed
      <4>2. b \notin polls[p].batch
        BY <2>4, <3>2, <4>1 DEF Oldest, Alerts
      <4> QED BY <2>2, <2>3, <2>4, <3>2, <4>2
    <3> QED BY <2>2, <3>1, <3>2
  <2>5. \A a \in alerts : a.id <= cursor' => a \in received'
    BY <2>1, <2>2 DEF IInv, CursorMeansReceived
  <2>6. cursor' < nextId
    BY <2>1 DEF IInv, CursorUsed
  <2> QED BY <1>1, <2>1, <2>2, <2>3, <2>4, <2>5, <2>6, PollStep
<1>8. ASSUME NEW p \in Polls, delivered(p) PROVE IInv'
  <2>1. PICK alert \in Oldest(polls[p].batch) :
            cursor' = alert.id /\ Continue(p, polls[p].batch \ {alert})
    BY <1>8 DEF delivered
  <2>2. UNCHANGED <<alerts, nextId, received>> /\ alert \in received
    BY <1>8 DEF delivered, IInv, AnswersFollow
  <2>3. /\ polls'[p].batch = polls[p].batch \ {alert} /\ polls'[p].pc # "accepted"
        /\ polls' = [polls EXCEPT ![p] = polls'[p]]
    BY <1>2, <2>1 DEF Continue, NoPoll, Typed
  <2>4. alert \in polls[p].batch /\ alert \in Known /\ alert \in Alerts
    BY <1>2 DEF Oldest, Known, Typed
  <2>5. \A a \in polls'[p].batch, b \in alerts :
            b.id < a.id => b \in received \/ b \in polls'[p].batch
    BY <2>2, <2>3 DEF IInv, BatchesInOrder
  <2>6. ASSUME NEW a \in alerts, a.id <= cursor' PROVE a \in received
    <3>1. a \in Alerts /\ a \in Known
      BY <1>2 DEF Typed, Known
    <3>2. CASE a.id = alert.id
      BY <2>2, <2>4, <3>1, <3>2 DEF IInv, IdsUnique
    <3>3. CASE a.id < alert.id
      <4>1. a \notin polls[p].batch
        BY <2>4, <3>1, <3>3 DEF Oldest, Alerts
      <4> QED BY <2>4, <3>3, <4>1 DEF IInv, BatchesInOrder
    <3> QED BY <2>1, <2>4, <2>6, <3>1, <3>2, <3>3 DEF Alerts
  <2>7. cursor' < nextId
    BY <2>1, <2>4 DEF IInv, IdsUnique
  <2>8. \A a \in received, b \in alerts : b.id < a.id => b \in received
    BY DEF IInv, FirstDeliveriesInOrder
  <2> QED BY <1>1, <2>2, <2>3, <2>5, <2>6, <2>7, <2>8, PollStep
<1>9. ASSUME NEW p \in Polls, fail(p) PROVE IInv'
  <2>1. /\ polls'[p].batch = {} /\ polls'[p].pc # "accepted"
        /\ polls' = [polls EXCEPT ![p] = polls'[p]]
        /\ UNCHANGED <<alerts, nextId, cursor, received>>
    BY <1>2, <1>9 DEF fail, Continue, NoPoll, Typed
  <2>2. /\ cursor' < nextId
        /\ \A a \in alerts : a.id <= cursor' => a \in received'
        /\ \A a \in received', b \in alerts : b.id < a.id => b \in received'
    BY <2>1 DEF IInv, CursorUsed, CursorMeansReceived, FirstDeliveriesInOrder
  <2> QED BY <1>1, <2>1, <2>2, PollStep
<1>10. CASE startWebhookDispatcher \/ stopWebhookDispatcher \/ Tick \/ UNCHANGED vars
  BY <1>1, <1>10, TableStep DEF startWebhookDispatcher, stopWebhookDispatcher, Tick
<1>11. CASE restart
  <2>1. UNCHANGED <<alerts, nextId, cursor, received>> /\ polls' = [p \in Polls |-> NoPoll]
    BY <1>11 DEF restart
  <2>2. \A p \in Polls : polls'[p].batch = {} /\ polls'[p].pc # "accepted"
    BY <2>1 DEF NoPoll
  <2>3. Known' \subseteq Known
    BY <2>1, <2>2 DEF Known
  <2>4. IdsUnique' /\ BatchesInOrder' /\ AnswersFollow'
    BY <2>1, <2>2, <2>3 DEF IInv, IdsUnique, BatchesInOrder, AnswersFollow
  <2>5. CursorUsed' /\ CursorMeansReceived' /\ FirstDeliveriesInOrder'
    BY <2>1 DEF IInv, CursorUsed, CursorMeansReceived, FirstDeliveriesInOrder
  <2> QED BY <1>1, <2>4, <2>5 DEF IInv
<1> QED BY <1>3, <1>4, <1>5, <1>6, <1>7, <1>8, <1>9, <1>10, <1>11 DEF Next, Dispatch

-----------------------------------------------------------------------------

\* The inductive invariant holds throughout.
THEOREM DeliveryKept == Spec => []IInv
<1>1. Init => IInv
  BY InitEstablishes, WebhooksAssumption
<1>2. IInv /\ [Next]_vars => IInv'
  BY StepKeeps, WebhooksAssumption
<1> QED BY <1>1, <1>2, PTL DEF Spec

\* At-least-once: what the cursor covers has been received.
THEOREM AtLeastOnce == Spec => []CursorMeansReceived
<1>1. IInv => CursorMeansReceived
  BY DEF IInv
<1> QED BY <1>1, DeliveryKept, PTL

\* First deliveries come in the order of the ids.
THEOREM Ordered == Spec => []FirstDeliveriesInOrder
<1>1. IInv => FirstDeliveriesInOrder
  BY DEF IInv
<1> QED BY <1>1, DeliveryKept, PTL

\* Retention holds back what is still to be delivered.
THEOREM RetentionSafe == Spec => RetentionKeepsUndelivered
<1>1. IInv => (pruneAlerts /\ config = "valid" => alerts \ alerts' \subseteq received)
  <2> SUFFICES ASSUME IInv, pruneAlerts, config = "valid", NEW a \in alerts \ alerts'
               PROVE  a \in received
    OBVIOUS
  <2>1. ~(a.id > cursor)
    BY DEF pruneAlerts, KeptForDelivery
  <2>2. a.id \in Nat /\ cursor \in Nat
    BY DEF IInv, Typed, Alerts
  <2> QED BY <2>1, <2>2 DEF IInv, CursorMeansReceived
<1> QED BY <1>1, DeliveryKept, PTL DEF RetentionKeepsUndelivered

=============================================================================
