-------------------------- MODULE DeploymentProofs --------------------------
(***************************************************************************)
(* Proofs about the deployment scripts, for every number of runs, every    *)
(* setting and network, and wherever a script dies: the keys of the agents *)
(* are kept, what a file describes is out of the deployer's hands once its *)
(* transactions are mined, and a ruling oracle is described when it is     *)
(* wired.                                                                  *)
(***************************************************************************)
EXTENDS RulingDeployment, SumTheorems

(* Types *)

Keys == Nat \cup {NoOne}
Envs == UNION {s.envs : s \in Scenarios}

Lock(env) ==
    [delay |-> env.delay, proposers |-> Addresses(Proposers(env)),
     executors |-> Addresses(Executors(env))]

Locks ==
    {Lock(env) : env \in Envs}
    \cup {[delay |-> 0, proposers |-> {Deployer}, executors |-> {Deployer}],
          [delay |-> 0, proposers |-> {}, executors |-> {}]}

Operations == [c : Contracts, salt : Nat]
Owners == {Deployer, NoOne} \cup {Timelock(n) : n \in Sets}

Chain ==
    [owner : [Contracts -> Owners], pendingOwner : [Contracts -> Owners], timelock : [Sets -> Locks],
     waiting : SUBSET [op : Operations, ready : Nat], executed : SUBSET Operations]

Transaction ==
    [call : {"transferOwnership", "schedule", "execute"}, c : Contracts, from : {Deployer, Safe},
     salt : Nat, delay : Nat]

Chains == {s.chain : s \in Scenarios} \cup {"sepolia"}
Paper == {NoOne, Broken} \cup [chain : Chains, n : Sets, agent : Keys]
Batch == [c : Contracts, salt : Nat \ {0}, delay : Nat]

Files ==
    [env : Keys, backups : SUBSET Keys, live : Paper, staged : Paper, batch : {NoOne} \cup Batch]

Deploying == {"ron", "registry", "timelock"}
Handled == {"fund", "backup", "upsert", "writeKey", "describe", "writeOut"}

Points == {"idle", "handover", "verifyKey"} \cup Deploying \cup Handled

Run ==
    [script : {"none", "local", "base", "verify"}, pc : Points,
     env : Envs \cup {NoOne}, n : Sets, sent : Nat, agent : Keys, envKey : Keys, ok : BOOLEAN]

Observations ==
    [sets : Sets, keys : Nat, salts : Nat, stored : SUBSET Nat, throwaway : SUBSET Keys,
     accepted : SUBSET Sets, verified : SUBSET Sets]

TypeOK ==
    /\ scenario \in Scenarios /\ now \in Nat /\ chain \in Chain
    /\ mempool \in Seq(Transaction) /\ files \in Files /\ run \in Run /\ seen \in Observations
    /\ run.pc \notin {"idle", "verifyKey"} => run.env \in Envs
    /\ run.pc \in Handled => run.agent \in Nat

-----------------------------------------------------------------------------
(* Lemmas *)

\* What holds of 0 and passes from each number to the next holds of n.
LEMMA Climb ==
  ASSUME NEW n \in Nat, NEW Good, 0 \in Good, \A i \in 1..n : i - 1 \in Good => i \in Good
  PROVE  n \in Good
<1> DEFINE Bad == {i \in 1..n : i \notin Good}
<1> SUFFICES ASSUME Bad # {} PROVE FALSE
  OBVIOUS
<1> DEFINE i == Min(Bad)
<1>1. i \in Bad /\ \A k \in Bad : i <= k
  <2>1. Bad \in SUBSET (1..n)
    OBVIOUS
  <2> HIDE DEF Bad
  <2> QED BY <2>1, MinOfInterval
<1> HIDE DEF i
<1>2. i \in 1..n /\ i \notin Good
  BY <1>1
<1>3. i - 1 \in Good
  <2>1. CASE i = 1
    BY <2>1
  <2>2. CASE i # 1
    BY <1>1, <1>2, <2>2
  <2> QED BY <2>1, <2>2
<1> QED BY <1>2, <1>3

\* The fold of the queue exists.
LEMMA MinedSteps ==
  ASSUME NEW txs, NEW ch, Len(txs) \in Nat
  PROVE  \E after :
            /\ Mined(txs, ch) = after[Len(txs)]
            /\ \A k \in 0..Len(txs) :
                  after[k] = IF k = 0 THEN ch ELSE Apply(txs[k], after[k - 1])
<1> DEFINE n == Len(txs)
           Row(f, k) == IF k = 0 THEN ch ELSE Apply(txs[k], f[k - 1])
           Folded(f) == f = [k \in 0..n |-> Row(f, k)]
           Upto(f, i) == \A k \in 0..i : f[k] = Row(f, k)
           Good == {i \in 0..n : \E f : Upto(f, i)}
<1>1. 0 \in Good
  <2> DEFINE f == [k \in 0..n |-> ch]
  <2>1. Upto(f, 0)
    OBVIOUS
  <2> HIDE DEF f, Upto
  <2> QED BY <2>1
<1>2. ASSUME NEW i \in 1..n, i - 1 \in Good
      PROVE  i \in Good
  <2>1. PICK f : Upto(f, i - 1)
    BY <1>2
  <2> DEFINE g == [k \in 0..n |-> Row(f, k)]
  <2>2. ASSUME NEW k \in 0..i PROVE g[k] = Row(g, k)
    <3>1. k \in 0..n /\ (k # 0 => k - 1 \in 0..(i - 1) /\ k - 1 \in 0..n)
      OBVIOUS
    <3>2. g[k] = Row(f, k)
      BY <3>1
    <3>3. k # 0 => g[k - 1] = f[k - 1]
      BY <2>1, <3>1
    <3> QED BY <3>2, <3>3
  <2>3. Upto(g, i)
    BY <2>2
  <2> HIDE DEF g, Upto
  <2> QED BY <2>3
<1>3. n \in Good
  <2> HIDE DEF Good
  <2> QED BY <1>1, <1>2, Climb
<1>4. \E f : Folded(f)
  <2>1. PICK f : Upto(f, n)
    BY <1>3
  <2> DEFINE g == [k \in 0..n |-> f[k]]
  <2>2. \A k \in 0..n : g[k] = Row(g, k)
    BY <2>1
  <2>3. g = [k \in 0..n |-> Row(g, k)]
    BY <2>2
  <2> QED BY <2>3
<1> DEFINE after == CHOOSE f : Folded(f)
<1>5. Folded(after)
  BY <1>4
<1>6. Mined(txs, ch) = after[n]
  BY DEF Mined
<1> HIDE DEF after
<1>7. \A k \in 0..n : after[k] = Row(after, k)
  BY <1>5
<1> QED BY <1>6, <1>7
LEMMA ContractsAre ==
  /\ 0 \in Sets /\ Sets \subseteq Nat
  /\ \A c \in Contracts : c[1] \in Sets
  /\ \A n \in Sets, name \in Names : <<n, name>> \in Contracts
BY BoundAssumption DEF Sets, Names, Contracts

LEMMA InitType == Init => TypeOK
<1> SUFFICES ASSUME Init PROVE TypeOK
  OBVIOUS
<1>1. chain \in Chain
  <2>1. /\ chain.owner \in [Contracts -> Owners] /\ chain.pendingOwner \in [Contracts -> Owners]
        /\ chain.timelock \in [Sets -> Locks]
    BY ContractsAre DEF Init, Owners, Locks
  <2>2. chain = [owner |-> chain.owner, pendingOwner |-> chain.pendingOwner,
                 timelock |-> chain.timelock, waiting |-> {}, executed |-> {}]
    BY DEF Init
  <2> QED BY <2>1, <2>2 DEF Chain
<1>2. files \in Files
  BY ContractsAre DEF Init, Files, Keys, Paper, PilotFile, Chains
<1>3. run \in Run
  BY ContractsAre DEF Init, Run, Idle, Keys, Points
<1>4. seen \in Observations
  BY <1>2, ContractsAre DEF Init, Observations, Files, Keys
<1>5. run.pc = "idle"
  BY DEF Init, Idle
<1> QED BY <1>1, <1>2, <1>3, <1>4, <1>5 DEF Init, TypeOK, Handled

\* A transaction leaves the chain well formed and its timelocks alone.
LEMMA ApplyType ==
  ASSUME NEW ch \in Chain, NEW tx \in Transaction, now \in Nat
  PROVE  Apply(tx, ch) \in Chain /\ Apply(tx, ch).timelock = ch.timelock
<1>1. tx.c \in Contracts /\ Timelock(tx.c[1]) \in Owners /\ NoOne \in Owners
  BY ContractsAre DEF Transaction, Owners
<1>2. Operation(tx.c, tx.salt) \in Operations
  BY <1>1 DEF Operation, Operations, Transaction
<1>3. CASE ~Valid(tx, ch)
  BY <1>3 DEF Apply
<1>4. CASE Valid(tx, ch) /\ tx.call = "transferOwnership"
  BY <1>1, <1>4 DEF Apply, Chain
<1>5. CASE Valid(tx, ch) /\ tx.call = "schedule"
  <2> DEFINE new == [op |-> Operation(tx.c, tx.salt), ready |-> now + tx.delay]
             waits == ch.waiting \cup {new}
  <2>1. Apply(tx, ch) = [ch EXCEPT !.waiting = waits]
    BY <1>5 DEF Apply
  <2>2. new \in [op : Operations, ready : Nat]
    BY <1>2 DEF Transaction
  <2>3. waits \in SUBSET [op : Operations, ready : Nat]
    <3> HIDE DEF new
    <3> QED BY <2>2 DEF Chain
  <2> HIDE DEF waits
  <2> QED BY <2>1, <2>3 DEF Chain
<1>6. CASE Valid(tx, ch) /\ tx.call = "execute"
  <2> DEFINE op == Operation(tx.c, tx.salt)
             owners == [ch.owner EXCEPT ![tx.c] = Timelock(tx.c[1])]
             pending == [ch.pendingOwner EXCEPT ![tx.c] = NoOne]
             waits == {w \in ch.waiting : w.op # op}
             done == ch.executed \cup {op}
  <2>1. Apply(tx, ch) = [ch EXCEPT !.owner = owners, !.pendingOwner = pending,
                                   !.waiting = waits, !.executed = done]
    BY <1>6 DEF Apply
  <2>2. owners \in [Contracts -> Owners] /\ pending \in [Contracts -> Owners]
    BY <1>1 DEF Chain
  <2>3. waits \in SUBSET [op : Operations, ready : Nat]
    BY DEF Chain
  <2>4. done \in SUBSET Operations
    BY <1>2 DEF Chain
  <2> HIDE DEF owners, pending, waits, done
  <2> QED BY <2>1, <2>2, <2>3, <2>4 DEF Chain
<1> QED BY <1>3, <1>4, <1>5, <1>6 DEF Transaction

-----------------------------------------------------------------------------
(* How far the hand-over of a set has come *)

NameAt(k) == IF k \in {1, 3, 4} THEN "ron" ELSE "registry"
CallAt(k) == IF k <= 2 THEN "transferOwnership" ELSE IF k \in {3, 5} THEN "schedule" ELSE "execute"

\* The k-th transaction that hands set n over.
HandoverTx(n, k) ==
    [call |-> CallAt(k), c |-> <<n, NameAt(k)>>, from |-> Deployer, salt |-> 0, delay |-> 0]

Transferred(name) == IF name = "ron" THEN 1 ELSE 2
Scheduled(name) == IF name = "ron" THEN 3 ELSE 5
Executed(name) == IF name = "ron" THEN 4 ELSE 6

\* What the first k transactions have done to one contract, whatever batches the Safe
\* has executed meanwhile.
Reached(ch, n, name, k) ==
    LET c == <<n, name>>
        op == Operation(c, 0)
    IN  /\ k < Transferred(name) => ch.owner[c] = Deployer /\ ch.pendingOwner[c] # Timelock(n)
        /\ k >= Transferred(name) => Timelock(n) \in {ch.owner[c], ch.pendingOwner[c]}
        /\ k < Scheduled(name) => op \notin ch.executed /\ \A w \in ch.waiting : w.op # op
        /\ k = Scheduled(name) => \E w \in ch.waiting : w.op = op /\ w.ready <= now
        /\ k >= Executed(name) => ch.owner[c] = Timelock(n)

Progress(ch, n, k) == \A name \in Names : Reached(ch, n, name, k)

\* What a transaction does, field by field.
LEMMA ApplyDoes ==
  ASSUME NEW ch \in Chain, NEW tx \in Transaction
  PROVE  LET op == Operation(tx.c, tx.salt)
             new == Apply(tx, ch)
         IN  /\ ~Valid(tx, ch) => new = ch
             /\ Valid(tx, ch) /\ tx.call = "transferOwnership" =>
                  /\ new.pendingOwner = [ch.pendingOwner EXCEPT ![tx.c] = Timelock(tx.c[1])]
                  /\ new.owner = ch.owner /\ new.waiting = ch.waiting /\ new.executed = ch.executed
             /\ Valid(tx, ch) /\ tx.call = "schedule" =>
                  /\ new.waiting = ch.waiting \cup {[op |-> op, ready |-> now + tx.delay]}
                  /\ new.owner = ch.owner /\ new.pendingOwner = ch.pendingOwner
                  /\ new.executed = ch.executed
             /\ Valid(tx, ch) /\ tx.call = "execute" =>
                  /\ new.owner = [ch.owner EXCEPT ![tx.c] = Timelock(tx.c[1])]
                  /\ new.pendingOwner = [ch.pendingOwner EXCEPT ![tx.c] = NoOne]
                  /\ new.waiting = {w \in ch.waiting : w.op # op}
                  /\ new.executed = ch.executed \cup {op}
                  /\ ch.pendingOwner[tx.c] = Timelock(tx.c[1])
<1> DEFINE op == Operation(tx.c, tx.salt)
           new == Apply(tx, ch)
<1>1. CASE ~Valid(tx, ch)
  BY <1>1 DEF Apply
<1>2. CASE Valid(tx, ch) /\ tx.call = "transferOwnership"
  <2>1. new = [ch EXCEPT !.pendingOwner[tx.c] = Timelock(tx.c[1])]
    BY <1>2 DEF Apply
  <2> HIDE DEF new
  <2>2. /\ new.pendingOwner = [ch.pendingOwner EXCEPT ![tx.c] = Timelock(tx.c[1])]
        /\ new.owner = ch.owner /\ new.waiting = ch.waiting /\ new.executed = ch.executed
    BY <2>1 DEF Chain
  <2> QED BY <1>2, <2>2 DEF new
<1>3. CASE Valid(tx, ch) /\ tx.call = "schedule"
  <2> DEFINE waits == ch.waiting \cup {[op |-> op, ready |-> now + tx.delay]}
  <2>1. new = [ch EXCEPT !.waiting = waits]
    BY <1>3 DEF Apply
  <2> HIDE DEF new, waits
  <2>2. /\ new.waiting = waits /\ new.owner = ch.owner /\ new.pendingOwner = ch.pendingOwner
        /\ new.executed = ch.executed
    BY <2>1 DEF Chain
  <2> QED BY <1>3, <2>2 DEF waits, new
<1>4. CASE Valid(tx, ch) /\ tx.call = "execute"
  <2> DEFINE owners == [ch.owner EXCEPT ![tx.c] = Timelock(tx.c[1])]
             pending == [ch.pendingOwner EXCEPT ![tx.c] = NoOne]
             waits == {w \in ch.waiting : w.op # op}
             done == ch.executed \cup {op}
  <2>1. new = [ch EXCEPT !.owner = owners, !.pendingOwner = pending, !.waiting = waits,
                         !.executed = done]
    BY <1>4 DEF Apply
  <2>2. ch.pendingOwner[tx.c] = Timelock(tx.c[1])
    BY <1>4 DEF Valid
  <2> HIDE DEF new, owners, pending, waits, done
  <2>3. new.owner = owners /\ new.pendingOwner = pending /\ new.waiting = waits /\ new.executed = done
    BY <2>1 DEF Chain
  <2> QED BY <1>4, <2>2, <2>3 DEF owners, pending, waits, done, new
<1> QED BY <1>1, <1>2, <1>3, <1>4 DEF Transaction

\* The transactions of other contracts, and the batches of the Safe, take nothing back:
\* a contract changes only when its timelock accepts it.
Aside(tx, c) == tx.c # c \/ (tx.salt # 0 /\ tx.call # "transferOwnership")

LEMMA Bystander ==
  ASSUME NEW ch \in Chain, NEW tx \in Transaction, NEW n \in Sets, NEW name \in Names,
         Aside(tx, <<n, name>>)
  PROVE  LET c == <<n, name>>
             op == Operation(c, 0)
             new == Apply(tx, ch)
         IN  /\ new.owner[c] # ch.owner[c] =>
                  ch.pendingOwner[c] = Timelock(n) /\ new.owner[c] = Timelock(n)
             /\ new.pendingOwner[c] # ch.pendingOwner[c] =>
                  /\ ch.pendingOwner[c] = Timelock(n) /\ new.owner[c] = Timelock(n)
                  /\ new.pendingOwner[c] = NoOne
             /\ op \in new.executed <=> op \in ch.executed
             /\ \A w : w.op = op => (w \in new.waiting <=> w \in ch.waiting)
<1> DEFINE c == <<n, name>>
           op == Operation(c, 0)
           other == Operation(tx.c, tx.salt)
           new == Apply(tx, ch)
<1>1. /\ c \in Contracts /\ tx.c \in Contracts /\ other # op
      /\ tx.c = c => tx.c[1] = n /\ tx.call # "transferOwnership"
  BY ContractsAre DEF Operation, Transaction, Aside
<1>2. /\ new.owner[c] # ch.owner[c] =>
            ch.pendingOwner[c] = Timelock(n) /\ new.owner[c] = Timelock(n)
      /\ new.pendingOwner[c] # ch.pendingOwner[c] =>
            /\ ch.pendingOwner[c] = Timelock(n) /\ new.owner[c] = Timelock(n)
            /\ new.pendingOwner[c] = NoOne
      /\ op \in new.executed <=> op \in ch.executed
      /\ \A w : w.op = op => (w \in new.waiting <=> w \in ch.waiting)
  <2> HIDE DEF op, other, c, new
  <2>1. CASE ~Valid(tx, ch)
    <3>1. new = ch
      BY <2>1, ApplyDoes DEF new
    <3> QED BY <3>1
  <2>2. CASE Valid(tx, ch) /\ tx.call = "transferOwnership"
    <3>1. /\ new.pendingOwner = [ch.pendingOwner EXCEPT ![tx.c] = Timelock(tx.c[1])]
          /\ new.owner = ch.owner /\ new.waiting = ch.waiting /\ new.executed = ch.executed
      BY <2>2, ApplyDoes DEF new
    <3>2. ch.pendingOwner \in [Contracts -> Owners]
      BY DEF Chain
    <3> QED BY <1>1, <2>2, <3>1, <3>2
  <2>3. CASE Valid(tx, ch) /\ tx.call = "schedule"
    <3>1. /\ new.waiting = ch.waiting \cup {[op |-> other, ready |-> now + tx.delay]}
          /\ new.owner = ch.owner /\ new.pendingOwner = ch.pendingOwner /\ new.executed = ch.executed
      BY <2>3, ApplyDoes DEF new, other
    <3> QED BY <1>1, <3>1
  <2>4. CASE Valid(tx, ch) /\ tx.call = "execute"
    <3>1. /\ new.owner = [ch.owner EXCEPT ![tx.c] = Timelock(tx.c[1])]
          /\ new.pendingOwner = [ch.pendingOwner EXCEPT ![tx.c] = NoOne]
          /\ new.waiting = {w \in ch.waiting : w.op # other}
          /\ new.executed = ch.executed \cup {other}
          /\ ch.pendingOwner[tx.c] = Timelock(tx.c[1])
      BY <2>4, ApplyDoes DEF new, other
    <3>2. op \in new.executed <=> op \in ch.executed
      BY <1>1, <3>1
    <3>3. \A w : w.op = op => (w \in new.waiting <=> w \in ch.waiting)
      BY <1>1, <3>1
    <3>4. ch.owner \in [Contracts -> Owners] /\ ch.pendingOwner \in [Contracts -> Owners]
      BY DEF Chain
    <3>5. CASE tx.c = c
      <4>1. /\ new.owner[c] = Timelock(n) /\ new.pendingOwner[c] = NoOne
            /\ ch.pendingOwner[c] = Timelock(n)
        BY <1>1, <3>1, <3>4, <3>5
      <4> QED BY <3>2, <3>3, <4>1
    <3>6. CASE tx.c # c
      <4>1. new.owner[c] = ch.owner[c] /\ new.pendingOwner[c] = ch.pendingOwner[c]
        BY <1>1, <3>1, <3>4, <3>6
      <4> QED BY <3>2, <3>3, <4>1
    <3> QED BY <3>5, <3>6
  <2> QED BY <2>1, <2>2, <2>3, <2>4 DEF Transaction
<1> QED BY <1>2

LEMMA ReachedKept ==
  ASSUME NEW ch \in Chain, NEW tx \in Transaction, NEW n \in Sets, NEW name \in Names, NEW k \in Nat,
         Reached(ch, n, name, k), Aside(tx, <<n, name>>)
  PROVE  Reached(Apply(tx, ch), n, name, k)
<1> DEFINE c == <<n, name>>
           op == Operation(c, 0)
           new == Apply(tx, ch)
<1>2. /\ new.owner[c] # ch.owner[c] =>
            ch.pendingOwner[c] = Timelock(n) /\ new.owner[c] = Timelock(n)
      /\ new.pendingOwner[c] # ch.pendingOwner[c] =>
            /\ ch.pendingOwner[c] = Timelock(n) /\ new.owner[c] = Timelock(n)
            /\ new.pendingOwner[c] = NoOne
      /\ op \in new.executed <=> op \in ch.executed
      /\ \A w : w.op = op => (w \in new.waiting <=> w \in ch.waiting)
  BY Bystander
<1> SUFFICES Reached(new, n, name, k)
  OBVIOUS
<1> HIDE DEF new
<1>3. Transferred(name) \in Nat /\ Executed(name) \in Nat /\ Transferred(name) < Executed(name)
  BY DEF Transferred, Executed
<1>4. k < Transferred(name) => new.owner[c] = Deployer /\ new.pendingOwner[c] # Timelock(n)
  BY <1>2 DEF Reached
<1>5. k >= Transferred(name) => Timelock(n) \in {new.owner[c], new.pendingOwner[c]}
  BY <1>2 DEF Reached
<1>6. k < Scheduled(name) => op \notin new.executed /\ \A w \in new.waiting : w.op # op
  BY <1>2 DEF Reached
<1>7. k = Scheduled(name) => \E w \in new.waiting : w.op = op /\ w.ready <= now
  BY <1>2 DEF Reached
<1>8. k >= Executed(name) => new.owner[c] = Timelock(n)
  BY <1>2, <1>3 DEF Reached
<1> QED BY <1>4, <1>5, <1>6, <1>7, <1>8 DEF Reached

\* The deployer may execute what it has scheduled, with no delay; so many transactions
\* of a hand-over find what they need.
Own(lock) == lock.delay = 0 /\ Deployer \in lock.proposers /\ Deployer \in lock.executors
Steps(lock) == IF Own(lock) THEN 6 ELSE 2

LEMMA HandoverTxType ==
  ASSUME NEW n \in Sets, NEW k \in Nat
  PROVE  HandoverTx(n, k) \in Transaction
<1>1. NameAt(k) \in Names /\ CallAt(k) \in {"transferOwnership", "schedule", "execute"}
  BY DEF NameAt, CallAt, Names
<1> QED BY <1>1, ContractsAre DEF HandoverTx, Transaction

\* What a transaction of the hand-over does to the contract it is about.
LEMMA ReachedNext ==
  ASSUME NEW ch \in Chain, NEW n \in Sets, NEW k \in 1..Steps(ch.timelock[n]), now \in Nat,
         Reached(ch, n, NameAt(k), k - 1)
  PROVE  Reached(Apply(HandoverTx(n, k), ch), n, NameAt(k), k)
<1> DEFINE name == NameAt(k)
           c == <<n, name>>
           tx == HandoverTx(n, k)
           op == Operation(c, 0)
           new == Apply(tx, ch)
<1> SUFFICES Reached(new, n, name, k)
  OBVIOUS
<1>1. /\ tx \in Transaction /\ c \in Contracts /\ tx.c = c /\ tx.salt = 0 /\ tx.delay = 0
      /\ tx.from = Deployer /\ tx.call = CallAt(k) /\ c[1] = n
      /\ ch.owner \in [Contracts -> Owners] /\ ch.pendingOwner \in [Contracts -> Owners]
  BY HandoverTxType, ContractsAre DEF HandoverTx, Chain, Transaction, Steps, NameAt, Names
<1>2. k \in 1..6 /\ (k > 2 => Own(ch.timelock[n]))
  BY DEF Steps
<1>3. CASE k \in {1, 2}
  <2>1. /\ CallAt(k) = "transferOwnership" /\ k - 1 < Transferred(name) /\ k - 1 < Scheduled(name)
        /\ ~(k < Transferred(name)) /\ k # Scheduled(name) /\ ~(k >= Executed(name))
    BY <1>3 DEF Transferred, Scheduled, Executed, NameAt, CallAt
  <2>2. ch.owner[c] = Deployer /\ op \notin ch.executed /\ \A w \in ch.waiting : w.op # op
    BY <2>1 DEF Reached
  <2>3. Valid(tx, ch)
    <3> HIDE DEF tx, c
    <3> QED BY <1>1, <2>1, <2>2 DEF Valid
  <2>4. /\ new.pendingOwner = [ch.pendingOwner EXCEPT ![tx.c] = Timelock(tx.c[1])]
        /\ new.owner = ch.owner /\ new.waiting = ch.waiting /\ new.executed = ch.executed
    <3>1. tx \in Transaction /\ tx.call = "transferOwnership"
      BY <1>1, <2>1
    <3> HIDE DEF tx
    <3> QED BY <2>3, <3>1, ApplyDoes
  <2> HIDE DEF new, tx
  <2>5. Timelock(n) \in {new.owner[c], new.pendingOwner[c]}
    <3> HIDE DEF c
    <3> QED BY <1>1, <2>4
  <2> QED BY <2>1, <2>2, <2>4, <2>5 DEF Reached
<1>4. CASE k \in {3, 5}
  <2>1. /\ CallAt(k) = "schedule" /\ k - 1 >= Transferred(name) /\ k - 1 < Scheduled(name)
        /\ ~(k < Transferred(name)) /\ ~(k < Scheduled(name)) /\ ~(k >= Executed(name))
    BY <1>4 DEF Transferred, Scheduled, Executed, NameAt, CallAt
  <2>2. /\ Timelock(n) \in {ch.owner[c], ch.pendingOwner[c]}
        /\ op \notin ch.executed /\ \A w \in ch.waiting : w.op # op
    BY <2>1 DEF Reached
  <2>3. Valid(tx, ch)
    <3> HIDE DEF tx, c
    <3>1. Own(ch.timelock[n])
      BY <1>2, <1>4
    <3> QED BY <1>1, <2>1, <2>2, <3>1 DEF Valid, Own, Operation
  <2>4. /\ new.waiting = ch.waiting \cup {[op |-> Operation(tx.c, tx.salt), ready |-> now + tx.delay]}
        /\ new.owner = ch.owner /\ new.pendingOwner = ch.pendingOwner /\ new.executed = ch.executed
    <3>1. tx \in Transaction /\ tx.call = "schedule"
      BY <1>1, <2>1
    <3> HIDE DEF tx
    <3> QED BY <2>3, <3>1, ApplyDoes
  <2>5. \E w \in new.waiting : w.op = op /\ w.ready <= now
    <3> DEFINE w == [op |-> op, ready |-> now]
    <3>1. w \in new.waiting
      <4> HIDE DEF new, tx, op, c
      <4>1. Operation(tx.c, tx.salt) = op /\ now + tx.delay = now
        BY <1>1 DEF op
      <4> QED BY <2>4, <4>1
    <3>2. w.op = op /\ w.ready <= now
      <4> HIDE DEF op
      <4> QED OBVIOUS
    <3> HIDE DEF w, new
    <3> QED BY <3>1, <3>2
  <2> HIDE DEF new, tx
  <2>6. Timelock(n) \in {new.owner[c], new.pendingOwner[c]}
    BY <2>2, <2>4
  <2> QED BY <2>1, <2>5, <2>6 DEF Reached
<1>5. CASE k \in {4, 6}
  <2>1. /\ k - 1 = Scheduled(name) /\ k > Transferred(name) /\ k = Executed(name)
        /\ k - 1 >= Transferred(name) /\ CallAt(k) = "execute"
    BY <1>5 DEF Transferred, Scheduled, Executed, NameAt, CallAt
  <2>2. /\ Timelock(n) \in {ch.owner[c], ch.pendingOwner[c]}
        /\ \E w \in ch.waiting : w.op = op /\ w.ready <= now
    BY <1>2, <2>1 DEF Reached
  <2>3. Own(ch.timelock[n])
    BY <1>2, <1>5
  <2>4. new.owner[c] = Timelock(n)
    <3>1. CASE ch.pendingOwner[c] = Timelock(n)
      <4>1. Valid(tx, ch)
        <5> HIDE DEF tx, c
        <5> QED BY <1>1, <2>1, <2>2, <2>3, <3>1 DEF Valid, Own, Operation
      <4>2. new.owner = [ch.owner EXCEPT ![tx.c] = Timelock(tx.c[1])]
        <5>1. tx \in Transaction /\ tx.call = "execute"
          BY <1>1, <2>1
        <5> HIDE DEF tx
        <5> QED BY <4>1, <5>1, ApplyDoes
      <4> HIDE DEF new, tx, c
      <4> QED BY <1>1, <4>2
    <3>2. CASE ch.pendingOwner[c] # Timelock(n)
      <4>1. ~Valid(tx, ch)
        <5> HIDE DEF tx, c
        <5> QED BY <1>1, <2>1, <3>2 DEF Valid
      <4>2. new = ch
        BY <4>1 DEF Apply
      <4> HIDE DEF new
      <4> QED BY <2>2, <3>2, <4>2
    <3> QED BY <3>1, <3>2
  <2> HIDE DEF new
  <2>5. k > Scheduled(name) /\ Scheduled(name) \in Nat /\ Transferred(name) \in Nat
    BY <2>1 DEF Scheduled, Transferred
  <2> QED BY <1>2, <2>1, <2>4, <2>5 DEF Reached
<1> QED BY <1>2, <1>3, <1>4, <1>5

\* The next transaction of the hand-over brings the set one step further.
LEMMA ProgressStep ==
  ASSUME NEW ch \in Chain, NEW n \in Sets, NEW k \in 1..Steps(ch.timelock[n]), now \in Nat,
         Progress(ch, n, k - 1)
  PROVE  Progress(Apply(HandoverTx(n, k), ch), n, k)
<1> DEFINE new == Apply(HandoverTx(n, k), ch)
<1>1. k \in 1..6
  BY DEF Steps
<1> SUFFICES ASSUME NEW name \in Names PROVE Reached(new, n, name, k)
  BY DEF Progress
<1>2. CASE name = NameAt(k)
  BY <1>2, ReachedNext DEF Progress
<1>3. CASE name # NameAt(k)
  <2>1. Aside(HandoverTx(n, k), <<n, name>>) /\ HandoverTx(n, k) \in Transaction
    BY <1>1, <1>3, HandoverTxType DEF HandoverTx, Aside
  <2>2. k - 1 \in Nat /\ Reached(ch, n, name, k - 1)
    BY <1>1 DEF Progress
  <2>3. Reached(new, n, name, k - 1)
    BY <2>1, <2>2, ReachedKept
  <2> HIDE DEF new
  <2>4. /\ Transferred(name) \in Nat /\ Scheduled(name) \in Nat /\ Executed(name) \in Nat
        /\ k # Transferred(name) /\ k # Scheduled(name) /\ k # Executed(name)
    BY <1>1, <1>3 DEF NameAt, Names, Transferred, Scheduled, Executed
  <2> QED BY <1>1, <2>3, <2>4 DEF Reached
<1> QED BY <1>2, <1>3

\* Nothing of the hand-over of set n has been sent: no transfer, no operation.
Fresh(ch, n) ==
    \A name \in Names :
        LET op == Operation(<<n, name>>, 0)
        IN  /\ ch.pendingOwner[<<n, name>>] # Timelock(n)
            /\ op \notin ch.executed /\ \A w \in ch.waiting : w.op # op

LEMMA FreshKept ==
  ASSUME NEW ch \in Chain, NEW tx \in Transaction, NEW n \in Sets, Fresh(ch, n),
         \A name \in Names : Aside(tx, <<n, name>>)
  PROVE  /\ Fresh(Apply(tx, ch), n)
         /\ \A name \in Names : Apply(tx, ch).owner[<<n, name>>] = ch.owner[<<n, name>>]
<1> DEFINE new == Apply(tx, ch)
<1>1. ASSUME NEW name \in Names
      PROVE  /\ new.owner[<<n, name>>] = ch.owner[<<n, name>>]
             /\ new.pendingOwner[<<n, name>>] # Timelock(n)
             /\ Operation(<<n, name>>, 0) \notin new.executed
             /\ \A w \in new.waiting : w.op # Operation(<<n, name>>, 0)
  BY <1>1, Bystander DEF Fresh
<1> HIDE DEF new
<1>2. Fresh(new, n) /\ \A name \in Names : new.owner[<<n, name>>] = ch.owner[<<n, name>>]
  BY <1>1 DEF Fresh
<1> QED BY <1>2 DEF new

\* A timelock keeps what it has accepted: the call of the owner does not exist.
LEMMA OwnedKept ==
  ASSUME NEW ch \in Chain, NEW tx \in Transaction, NEW n \in Sets, NEW name \in Names,
         ch.owner[<<n, name>>] = Timelock(n)
  PROVE  Apply(tx, ch).owner[<<n, name>>] = Timelock(n)
<1> DEFINE c == <<n, name>>
           new == Apply(tx, ch)
<1>1. c \in Contracts /\ tx.c \in Contracts /\ c[1] = n /\ ch.owner \in [Contracts -> Owners]
  BY ContractsAre DEF Transaction, Chain
<1>2. new.owner = ch.owner \/ new.owner = [ch.owner EXCEPT ![tx.c] = Timelock(tx.c[1])]
  <2>1. tx.call \in {"transferOwnership", "schedule", "execute"}
    BY DEF Transaction
  <2> QED BY <2>1, ApplyDoes
<1> SUFFICES new.owner[c] = Timelock(n)
  OBVIOUS
<1> HIDE DEF new, c
<1> QED BY <1>1, <1>2 DEF c

LEMMA ProgressKept ==
  ASSUME NEW ch \in Chain, NEW tx \in Transaction, NEW n \in Sets, NEW k \in Nat,
         Progress(ch, n, k), \A name \in Names : Aside(tx, <<n, name>>)
  PROVE  Progress(Apply(tx, ch), n, k)
BY ReachedKept DEF Progress

-----------------------------------------------------------------------------
(* The queue.  The deployer's transactions are those of one set, in order, or none *)
(* is of the set.                                                                 *)

Queued(n, s) ==
    \E j \in 0..s : /\ Progress(chain, n, j)
                    /\ Len(mempool) = s - j
                    /\ \A i \in 1..Len(mempool) : mempool[i] = HandoverTx(n, j + i)

Foreign(n) == \A i \in 1..Len(mempool) : mempool[i].c[1] # n

LEMMA HandoverOf == \A n, k : HandoverTx(n, k).c[1] = n
BY DEF HandoverTx

\* Once the queue is mined the hand-over of set n is s transactions on.
Ready(n, s) ==
    /\ s \in 0..Steps(chain.timelock[n])
    /\ Queued(n, s) \/ (Progress(chain, n, s) /\ Foreign(n))

\* ... offered to the timelock, at least.
Offered(n) == \E s \in 2..6 : Ready(n, s)

Untouched(n) == Fresh(chain, n) /\ Foreign(n)

LEMMA StepsType == ASSUME NEW lock PROVE Steps(lock) \in 1..6
BY DEF Steps

LEMMA MempoolType ==
  ASSUME TypeOK
  PROVE  /\ Len(mempool) \in Nat
         /\ \A i \in 1..Len(mempool) : mempool[i] \in Transaction
         /\ mempool # << >> => /\ Head(mempool) = mempool[1] /\ Len(mempool) >= 1
                               /\ Len(Tail(mempool)) = Len(mempool) - 1
                               /\ \A i \in 1..Len(Tail(mempool)) : Tail(mempool)[i] = mempool[i + 1]
BY DEF TypeOK

LEMMA AsideForeign ==
  ASSUME NEW tx \in Transaction, NEW n \in Sets, tx.c[1] # n, NEW name
  PROVE  Aside(tx, <<n, name>>)
BY DEF Aside

LEMMA ReadyMined ==
  ASSUME TypeOK, NEW n \in Sets, NEW s \in Nat, Ready(n, s)
  PROVE  Progress(Mined(mempool, chain), n, s)
<1> DEFINE len == Len(mempool)
<1>1. s \in 0..6 /\ len \in Nat /\ chain \in Chain /\ now \in Nat
  BY StepsType, MempoolType DEF TypeOK, Ready
<1>2. PICK after :
        /\ Mined(mempool, chain) = after[len]
        /\ \A k \in 0..len : after[k] = IF k = 0 THEN chain ELSE Apply(mempool[k], after[k - 1])
  BY <1>1, MinedSteps
<1>3. after[0] = chain /\ \A k \in 1..len : after[k] = Apply(mempool[k], after[k - 1])
  BY <1>1, <1>2
<1>4. CASE Queued(n, s)
  <2>1. PICK j \in 0..s : /\ Progress(chain, n, j) /\ len = s - j
                          /\ \A i \in 1..len : mempool[i] = HandoverTx(n, j + i)
    BY <1>4 DEF Queued
  <2> DEFINE Good == {k \in 0..len : /\ after[k] \in Chain /\ after[k].timelock = chain.timelock
                                     /\ Progress(after[k], n, j + k)}
  <2>2. 0 \in Good
    BY <1>1, <1>3, <2>1
  <2>3. ASSUME NEW k \in 1..len, k - 1 \in Good PROVE k \in Good
    <3> DEFINE ch == after[k - 1]
    <3>1. /\ ch \in Chain /\ ch.timelock = chain.timelock /\ Progress(ch, n, j + (k - 1))
          /\ after[k] = Apply(HandoverTx(n, j + k), ch)
      BY <1>3, <2>1, <2>3
    <3> HIDE DEF ch
    <3>2. /\ j + k \in 1..s /\ j + (k - 1) = (j + k) - 1 /\ j + k \in Nat
          /\ j + k \in 1..Steps(chain.timelock[n])
      BY <1>1, <2>1, StepsType DEF Ready
    <3>3. Apply(HandoverTx(n, j + k), ch) \in Chain
          /\ Apply(HandoverTx(n, j + k), ch).timelock = ch.timelock
      BY <1>1, <3>1, <3>2, HandoverTxType, ApplyType
    <3>4. Progress(Apply(HandoverTx(n, j + k), ch), n, j + k)
      <4>1. j + k \in 1..Steps(ch.timelock[n]) /\ Progress(ch, n, (j + k) - 1)
        BY <3>1, <3>2
      <4> QED BY <1>1, <3>1, <4>1, ProgressStep
    <3> QED BY <3>1, <3>3, <3>4
  <2>4. len \in Good
    <3> HIDE DEF Good
    <3> QED BY <1>1, <2>2, <2>3, Climb
  <2> QED BY <1>1, <1>2, <2>1, <2>4
<1>5. CASE Progress(chain, n, s) /\ Foreign(n)
  <2> DEFINE Good == {k \in 0..len : after[k] \in Chain /\ Progress(after[k], n, s)}
  <2>1. 0 \in Good
    BY <1>1, <1>3, <1>5
  <2>2. ASSUME NEW k \in 1..len, k - 1 \in Good PROVE k \in Good
    <3>1. /\ after[k - 1] \in Chain /\ Progress(after[k - 1], n, s)
          /\ after[k] = Apply(mempool[k], after[k - 1])
      BY <1>3, <2>2
    <3>2. mempool[k] \in Transaction /\ \A name \in Names : Aside(mempool[k], <<n, name>>)
      BY <1>5, MempoolType, AsideForeign DEF Foreign
    <3>3. Apply(mempool[k], after[k - 1]) \in Chain
      BY <1>1, <3>1, <3>2, ApplyType
    <3>4. Progress(Apply(mempool[k], after[k - 1]), n, s)
      <4> QED BY <3>1, <3>2, ProgressKept
    <3> QED BY <3>1, <3>3, <3>4
  <2>3. len \in Good
    <3> HIDE DEF Good
    <3> QED BY <1>1, <2>1, <2>2, Climb
  <2> QED BY <1>2, <2>3
<1> QED BY <1>4, <1>5 DEF Ready

-----------------------------------------------------------------------------
(* What the steps keep of the queue and of the sets they are not about *)

KeepsQueue(n) == \A s \in 0..Steps(chain.timelock[n]) : Queued(n, s) => Queued(n, s)'

Keeps(n) ==
    /\ \A s \in Nat : Ready(n, s) => Ready(n, s)'
    /\ Untouched(n) =>
        Untouched(n)' /\ \A name \in Names : chain'.owner[<<n, name>>] = chain.owner[<<n, name>>]
    /\ HandedOver(n) => HandedOver(n)'
    /\ chain'.timelock[n] = chain.timelock[n]

\* What was ready at a time is ready later.
LEMMA ProgressLater ==
  ASSUME now \in Nat, now' \in Nat, now' >= now, chain' \in Chain, NEW n, NEW k, Progress(chain', n, k)
  PROVE  Progress(chain, n, k)'
<1> SUFFICES ASSUME NEW name \in Names PROVE Reached(chain, n, name, k)'
  BY DEF Progress
<1>1. Reached(chain', n, name, k)
  BY DEF Progress
<1>2. \A w \in chain'.waiting : w.ready <= now => w.ready <= now'
  <2>1. \A w \in chain'.waiting : w.ready \in Nat
    BY DEF Chain
  <2> QED BY <2>1
<1> QED BY <1>1, <1>2 DEF Reached

\* A transaction beside the hand-over of set n, the queue left alone.
LEMMA KeepsBatch ==
  ASSUME TypeOK, TypeOK', NEW tx \in Transaction, tx.salt # 0, tx.call # "transferOwnership",
         chain' = Apply(tx, chain), mempool' = mempool, now' = now, NEW n \in Sets
  PROVE  Keeps(n) /\ KeepsQueue(n)
<1>1. /\ chain \in Chain /\ chain' \in Chain /\ now \in Nat
      /\ \A name \in Names : Aside(tx, <<n, name>>)
  BY DEF TypeOK, Aside
<1>2. chain'.timelock = chain.timelock
  BY <1>1, ApplyType
<1>3. ASSUME NEW k \in Nat, Progress(chain, n, k) PROVE Progress(chain, n, k)'
  <2>1. Progress(chain', n, k)
    BY <1>1, <1>3, ProgressKept
  <2> QED BY <1>1, <2>1, ProgressLater
<1>4. Foreign(n) <=> Foreign(n)'
  BY DEF Foreign
<1>5. ASSUME NEW s \in Nat, Queued(n, s) PROVE Queued(n, s)'
  BY <1>3, <1>5 DEF Queued
<1>6. ASSUME NEW s \in Nat, Ready(n, s) PROVE Ready(n, s)'
  BY <1>2, <1>3, <1>4, <1>5, <1>6 DEF Ready
<1>7. Untouched(n) => Untouched(n)' /\ \A name \in Names :
                                        chain'.owner[<<n, name>>] = chain.owner[<<n, name>>]
  BY <1>1, <1>4, FreshKept DEF Untouched, Fresh
<1>8. HandedOver(n) => HandedOver(n)'
  BY <1>1, OwnedKept DEF HandedOver
<1>9. KeepsQueue(n)
  BY <1>5, StepsType DEF KeepsQueue
<1> QED BY <1>2, <1>6, <1>7, <1>8, <1>9 DEF Keeps

\* A step that leaves set n and the queue alone, or only waits.
LEMMA KeepsElse ==
  ASSUME TypeOK, TypeOK', NEW n \in Sets, mempool' = mempool, now' >= now,
         \A name \in Names : /\ chain'.owner[<<n, name>>] = chain.owner[<<n, name>>]
                             /\ chain'.pendingOwner[<<n, name>>] = chain.pendingOwner[<<n, name>>],
         chain'.waiting = chain.waiting, chain'.executed = chain.executed,
         chain'.timelock[n] = chain.timelock[n]
  PROVE  Keeps(n) /\ KeepsQueue(n)
<1>1. chain \in Chain /\ chain' \in Chain /\ now \in Nat /\ now' \in Nat
  BY DEF TypeOK
<1>2. ASSUME NEW k \in Nat, Progress(chain, n, k) PROVE Progress(chain, n, k)'
  <2>1. Progress(chain', n, k)
    BY <1>2 DEF Progress, Reached
  <2> QED BY <1>1, <2>1, ProgressLater
<1>3. Foreign(n) <=> Foreign(n)'
  BY DEF Foreign
<1>4. ASSUME NEW s \in Nat, Queued(n, s) PROVE Queued(n, s)'
  BY <1>2, <1>4 DEF Queued
<1>5. ASSUME NEW s \in Nat, Ready(n, s) PROVE Ready(n, s)'
  BY <1>2, <1>3, <1>4, <1>5 DEF Ready
<1>6. Untouched(n) => Untouched(n)' /\ \A name \in Names :
                                        chain'.owner[<<n, name>>] = chain.owner[<<n, name>>]
  BY <1>3 DEF Untouched, Fresh
<1>7. HandedOver(n) => HandedOver(n)'
  BY DEF HandedOver
<1>8. KeepsQueue(n)
  BY <1>4, StepsType DEF KeepsQueue
<1> QED BY <1>5, <1>6, <1>7, <1>8 DEF Keeps

\* A block takes the first transaction of the queue.
LEMMA KeepsMine ==
  ASSUME TypeOK, TypeOK', mempool # << >>, chain' = Apply(Head(mempool), chain),
         mempool' = Tail(mempool), now' = now, NEW n \in Sets
  PROVE  Keeps(n) /\ KeepsQueue(n)
<1> DEFINE tx == mempool[1]
<1>1. /\ chain \in Chain /\ chain' \in Chain /\ now \in Nat /\ now' \in Nat /\ now' >= now
      /\ Len(mempool) \in Nat \ {0} /\ tx \in Transaction /\ chain' = Apply(tx, chain)
      /\ Len(mempool') = Len(mempool) - 1
      /\ \A i \in 1..Len(mempool') : mempool'[i] = mempool[i + 1]
  BY MempoolType DEF TypeOK
<1> HIDE DEF tx
<1>2. chain'.timelock = chain.timelock
  BY <1>1, ApplyType
<1>3. ASSUME NEW s \in 0..Steps(chain.timelock[n]), Queued(n, s) PROVE Queued(n, s)'
  <2>1. PICK j \in 0..s : /\ Progress(chain, n, j) /\ Len(mempool) = s - j
                          /\ \A i \in 1..Len(mempool) : mempool[i] = HandoverTx(n, j + i)
    BY <1>3 DEF Queued
  <2>2. /\ j + 1 \in 1..Steps(chain.timelock[n]) /\ j + 1 \in 0..s /\ (j + 1) - 1 = j
        /\ Len(mempool') = s - (j + 1) /\ tx = HandoverTx(n, j + 1)
    <3>1. Steps(chain.timelock[n]) \in 1..6 /\ s \in Nat /\ j \in Nat /\ j < s
      BY <1>1, <2>1, StepsType
    <3> QED BY <1>1, <2>1, <3>1 DEF tx
  <2>3. Progress(chain', n, j + 1)
    <3>1. Progress(chain, n, (j + 1) - 1)
      BY <2>1, <2>2
    <3> QED BY <1>1, <2>2, <3>1, ProgressStep
  <2>4. Progress(chain, n, j + 1)'
    BY <1>1, <2>3, ProgressLater
  <2>5. \A i \in 1..Len(mempool') : mempool'[i] = HandoverTx(n, (j + 1) + i)
    <3> SUFFICES ASSUME NEW i \in 1..Len(mempool') PROVE mempool'[i] = HandoverTx(n, (j + 1) + i)
      OBVIOUS
    <3>1. i + 1 \in 1..Len(mempool) /\ mempool'[i] = mempool[i + 1] /\ j + (i + 1) = (j + 1) + i
      BY <1>1
    <3>2. mempool[i + 1] = HandoverTx(n, j + (i + 1))
      BY <2>1, <3>1
    <3> QED BY <3>1, <3>2
  <2> QED BY <2>2, <2>4, <2>5 DEF Queued
<1>4. Foreign(n) => /\ Foreign(n)' /\ \A name \in Names : Aside(tx, <<n, name>>)
  <2> SUFFICES ASSUME Foreign(n) PROVE Foreign(n)' /\ \A name \in Names : Aside(tx, <<n, name>>)
    OBVIOUS
  <2>1. tx.c[1] # n
    BY <1>1 DEF Foreign, tx
  <2>2. \A i \in 1..Len(mempool') : i + 1 \in 1..Len(mempool)
    BY <1>1
  <2>3. Foreign(n)'
    BY <1>1, <2>2 DEF Foreign
  <2> QED BY <1>1, <2>1, <2>3, AsideForeign
<1>5. ASSUME NEW s \in Nat, Ready(n, s) PROVE Ready(n, s)'
  <2>1. s \in 0..Steps(chain.timelock[n]) /\ s \in 0..Steps(chain'.timelock[n])
    BY <1>2, <1>5 DEF Ready
  <2>2. Queued(n, s) => Queued(n, s)'
    BY <1>3, <2>1
  <2>3. ASSUME Progress(chain, n, s), Foreign(n) PROVE Progress(chain, n, s)'
    <3>1. Progress(chain', n, s)
      BY <1>1, <1>4, <2>3, ProgressKept
    <3> QED BY <1>1, <3>1, ProgressLater
  <2> QED BY <1>4, <1>5, <2>1, <2>2, <2>3 DEF Ready
<1>6. Untouched(n) => Untouched(n)' /\ \A name \in Names :
                                        chain'.owner[<<n, name>>] = chain.owner[<<n, name>>]
  BY <1>1, <1>4, FreshKept DEF Untouched, Fresh
<1>7. HandedOver(n) => HandedOver(n)'
  BY <1>1, OwnedKept DEF HandedOver
<1>8. KeepsQueue(n)
  BY <1>3 DEF KeepsQueue
<1> QED BY <1>2, <1>5, <1>6, <1>7, <1>8 DEF Keeps

\* The next transaction of the hand-over of set m is sent.
LEMMA KeepsSend ==
  ASSUME TypeOK, TypeOK', now' = now, NEW m \in Sets, NEW s \in 1..Steps(chain.timelock[m]),
         Queued(m, s - 1),
         \/ chain' = Apply(HandoverTx(m, s), chain) /\ mempool' = mempool /\ mempool = << >>
         \/ mempool' = Append(mempool, HandoverTx(m, s)) /\ chain' = chain
  PROVE  Queued(m, s)' /\ \A n \in Sets \ {m} : Keeps(n)
<1> DEFINE tx == HandoverTx(m, s)
<1>1. /\ chain \in Chain /\ chain' \in Chain /\ now \in Nat /\ now' \in Nat /\ now' >= now
      /\ Len(mempool) \in Nat /\ tx \in Transaction /\ tx.c[1] = m
      /\ Steps(chain.timelock[m]) \in 1..6 /\ s \in Nat /\ s - 1 \in Nat
  BY MempoolType, StepsType, HandoverTxType DEF TypeOK, HandoverTx
<1> HIDE DEF tx
<1>2. PICK j \in 0..(s - 1) : /\ Progress(chain, m, j) /\ Len(mempool) = (s - 1) - j
                              /\ \A i \in 1..Len(mempool) : mempool[i] = HandoverTx(m, j + i)
  BY DEF Queued
<1>3. chain'.timelock = chain.timelock
  BY <1>1, ApplyType DEF tx
<1>4. Queued(m, s)'
  <2>1. CASE chain' = Apply(tx, chain) /\ mempool' = mempool /\ mempool = << >>
    <3>1. j = s - 1 /\ Len(mempool') = 0
      BY <1>1, <1>2, <2>1
    <3>2. Progress(chain', m, s)
      BY <1>1, <1>2, <2>1, <3>1, ProgressStep DEF tx
    <3>3. Progress(chain, m, s)'
      BY <1>1, <3>2, ProgressLater
    <3> QED BY <1>1, <3>1, <3>3 DEF Queued
  <2>2. CASE mempool' = Append(mempool, tx) /\ chain' = chain
    <3>1. /\ Len(mempool') = Len(mempool) + 1 /\ mempool'[Len(mempool) + 1] = tx
          /\ \A i \in 1..Len(mempool) : mempool'[i] = mempool[i]
      BY <1>1, <2>2 DEF TypeOK
    <3>2. \A i \in 1..Len(mempool') : mempool'[i] = HandoverTx(m, j + i)
      <4> SUFFICES ASSUME NEW i \in 1..Len(mempool') PROVE mempool'[i] = HandoverTx(m, j + i)
        OBVIOUS
      <4>1. CASE i = Len(mempool) + 1
        <5>1. j \in Nat /\ Len(mempool) = (s - 1) - j
          BY <1>1, <1>2
        <5>2. j + i = s
          BY <1>1, <4>1, <5>1
        <5> QED BY <3>1, <4>1, <5>2 DEF tx
      <4>2. CASE i # Len(mempool) + 1
        <5>1. i \in 1..Len(mempool)
          BY <1>1, <3>1, <4>2
        <5> QED BY <1>2, <3>1, <5>1
      <4> QED BY <4>1, <4>2
    <3>3. j \in 0..s /\ Len(mempool') = s - j
      BY <1>1, <1>2, <3>1
    <3>4. Progress(chain, m, j)'
      BY <1>1, <1>2, <2>2, ProgressLater
    <3> QED BY <3>2, <3>3, <3>4 DEF Queued
  <2> QED BY <2>1, <2>2 DEF tx
<1> SUFFICES ASSUME NEW n \in Sets \ {m} PROVE Keeps(n)
  BY <1>4
<1>5. \A name \in Names : Aside(tx, <<n, name>>)
  BY <1>1, AsideForeign
<1>6. Foreign(n) /\ Foreign(n)'
  <2>1. ASSUME NEW i \in 1..Len(mempool) PROVE mempool[i].c[1] = m
    BY <1>2, <2>1, HandoverOf
  <2>2. CASE mempool' = mempool
    BY <2>1, <2>2 DEF Foreign
  <2>3. CASE mempool' = Append(mempool, tx)
    <3>1. /\ Len(mempool') = Len(mempool) + 1
          /\ \A i \in 1..Len(mempool') : i = Len(mempool) + 1 \/ i \in 1..Len(mempool)
      BY <1>1, <2>3 DEF TypeOK
    <3>2. /\ mempool'[Len(mempool) + 1] = tx
          /\ \A i \in 1..Len(mempool) : mempool'[i] = mempool[i]
      BY <1>1, <2>3 DEF TypeOK
    <3> QED BY <1>1, <2>1, <3>1, <3>2 DEF Foreign
  <2> QED BY <2>2, <2>3 DEF tx
<1>7. chain' = chain \/ chain' = Apply(tx, chain)
  BY DEF tx
<1>8. ASSUME NEW k \in Nat, Progress(chain, n, k) PROVE Progress(chain, n, k)'
  <2>1. Progress(chain', n, k)
    BY <1>1, <1>5, <1>7, <1>8, ProgressKept
  <2> QED BY <1>1, <2>1, ProgressLater
<1>9. ASSUME NEW t \in Nat, Ready(n, t) PROVE Ready(n, t)'
  <2>1. t \in 0..Steps(chain.timelock[n]) /\ t \in 0..Steps(chain'.timelock[n])
    BY <1>3, <1>9 DEF Ready
  <2>2. Queued(n, t) => Progress(chain, n, t)
    <3> SUFFICES ASSUME Queued(n, t) PROVE Progress(chain, n, t)
      OBVIOUS
    <3>1. PICK i \in 0..t : /\ Progress(chain, n, i) /\ Len(mempool) = t - i
                            /\ \A k \in 1..Len(mempool) : mempool[k] = HandoverTx(n, i + k)
      BY DEF Queued
    <3>2. ASSUME Len(mempool) # 0 PROVE FALSE
      <4>1. 1 \in 1..Len(mempool) /\ mempool[1].c[1] = n
        BY <1>1, <3>1, <3>2, HandoverOf
      <4> QED BY <1>6, <4>1 DEF Foreign
    <3>3. i = t
      BY <2>1, <3>1, <3>2
    <3> QED BY <3>1, <3>3
  <2>3. Progress(chain, n, t)
    BY <1>9, <2>2 DEF Ready
  <2> QED BY <1>6, <1>8, <2>1, <2>3 DEF Ready
<1>10. Untouched(n) => Untouched(n)' /\ \A name \in Names :
                                         chain'.owner[<<n, name>>] = chain.owner[<<n, name>>]
  BY <1>1, <1>5, <1>6, <1>7, FreshKept DEF Untouched, Fresh
<1>11. HandedOver(n) => HandedOver(n)'
  BY <1>1, <1>7, OwnedKept DEF HandedOver
<1> QED BY <1>3, <1>9, <1>10, <1>11 DEF Keeps

-----------------------------------------------------------------------------
(* The types are kept *)

LEMMA KeysAre == /\ Nat \subseteq Keys /\ NoOne \in Keys
                 /\ \A key \in Keys : key # NoOne => key \in Nat
BY DEF Keys

LEMMA ReadableIs ==
  ASSUME NEW d \in Paper, Readable(d)
  PROVE  d \in [chain : Chains, n : Sets, agent : Keys]
BY DEF Paper, Readable

\* The steps that only move the script on.
LEMMA GotoType ==
  ASSUME run \in Run, NEW pc \in Points
  PROVE  [run EXCEPT !.pc = pc] \in Run
BY DEF Run

LEMMA SentType ==
  ASSUME run \in Run
  PROVE  [run EXCEPT !.sent = run.sent + 1] \in Run
BY DEF Run

LEMMA IdleType == Idle \in Run /\ Idle.pc = "idle" /\ Idle.n = 0
BY ContractsAre, KeysAre DEF Run, Idle, Points

\* One obligation of the type invariant for each variable.
LEMMA TypeParts ==
  ASSUME TypeOK, scenario' = scenario, now' \in Nat, chain' \in Chain, mempool' \in Seq(Transaction),
         files' \in Files, run' \in Run, seen' \in Observations,
         run'.pc \notin {"idle", "verifyKey"} => run'.env \in Envs,
         run'.pc \in Handled => run'.agent \in Nat
  PROVE  TypeOK'
BY DEF TypeOK

LEMMA TypeSend ==
  ASSUME TypeOK, NEW tx \in Transaction, Send(tx)
  PROVE  chain' \in Chain /\ mempool' \in Seq(Transaction)
<1>1. \/ chain' = Apply(tx, chain) /\ mempool' = mempool
      \/ mempool' = Append(mempool, tx) /\ chain' = chain
  BY DEF Send
<1>2. Apply(tx, chain) \in Chain /\ Append(mempool, tx) \in Seq(Transaction)
  BY ApplyType DEF TypeOK
<1> QED BY <1>1, <1>2 DEF TypeOK

LEMMA Joined ==
  ASSUME NEW a, NEW b, NEW c, NEW d, NEW e, NEW f
  PROVE  LET short == <<a, b>> \o << >>
             long == <<a, b>> \o <<c, d, e, f>>
         IN  /\ Len(short) = 2 /\ short[1] = a /\ short[2] = b
             /\ Len(long) = 6 /\ long[1] = a /\ long[2] = b /\ long[3] = c
             /\ long[4] = d /\ long[5] = e /\ long[6] = f
<1>1. /\ <<a, b>> \in Seq({a, b, c, d, e, f}) /\ << >> \in Seq({a, b, c, d, e, f})
      /\ <<c, d, e, f>> \in Seq({a, b, c, d, e, f})
  OBVIOUS
<1> QED BY <1>1

LEMMA HandoverIs ==
  ASSUME TypeOK, At("handover")
  PROVE  /\ Len(handover) = IF deployerCanExecute(run.env) THEN 6 ELSE 2
         /\ Len(handover) <= Steps(Lock(run.env))
         /\ \A k \in 1..Len(handover) : handover[k] = HandoverTx(run.n, k)
<1> DEFINE first == <<Call("ron", "transferOwnership"), Call("registry", "transferOwnership")>>
           rest == <<Call("ron", "schedule"), Call("ron", "execute"),
                     Call("registry", "schedule"), Call("registry", "execute")>>
<1>1. deployerCanExecute(run.env) => Own(Lock(run.env))
  BY DEF deployerCanExecute, Own, Lock, Addresses
<1>2. ASSUME NEW k \in 1..6
      PROVE  HandoverTx(run.n, k) = Call(NameAt(k), CallAt(k))
  BY DEF HandoverTx, Call
<1>3. /\ NameAt(1) = "ron" /\ NameAt(2) = "registry" /\ NameAt(3) = "ron" /\ NameAt(4) = "ron"
      /\ NameAt(5) = "registry" /\ NameAt(6) = "registry"
      /\ CallAt(1) = "transferOwnership" /\ CallAt(2) = "transferOwnership"
      /\ CallAt(3) = "schedule" /\ CallAt(4) = "execute"
      /\ CallAt(5) = "schedule" /\ CallAt(6) = "execute"
  BY DEF NameAt, CallAt
<1> HIDE DEF first, rest
<1>4. CASE deployerCanExecute(run.env)
  <2>1. handover = first \o rest
    BY <1>4 DEF handover, first, rest
  <2>2. /\ Len(handover) = 6
        /\ handover[1] = Call("ron", "transferOwnership")
        /\ handover[2] = Call("registry", "transferOwnership")
        /\ handover[3] = Call("ron", "schedule") /\ handover[4] = Call("ron", "execute")
        /\ handover[5] = Call("registry", "schedule") /\ handover[6] = Call("registry", "execute")
    BY <2>1, Joined DEF first, rest
  <2>3. /\ handover[1] = HandoverTx(run.n, 1) /\ handover[2] = HandoverTx(run.n, 2)
        /\ handover[3] = HandoverTx(run.n, 3) /\ handover[4] = HandoverTx(run.n, 4)
        /\ handover[5] = HandoverTx(run.n, 5) /\ handover[6] = HandoverTx(run.n, 6)
    BY <1>2, <1>3, <2>2
  <2>4. \A k \in 1..6 : k = 1 \/ k = 2 \/ k = 3 \/ k = 4 \/ k = 5 \/ k = 6
    OBVIOUS
  <2>5. Len(handover) <= Steps(Lock(run.env))
    BY <1>1, <1>4, <2>2 DEF Steps
  <2> QED BY <1>4, <2>2, <2>3, <2>4, <2>5
<1>5. CASE ~deployerCanExecute(run.env)
  <2>1. handover = first \o << >>
    BY <1>5 DEF handover, first
  <2>2. /\ Len(handover) = 2 /\ handover[1] = Call("ron", "transferOwnership")
        /\ handover[2] = Call("registry", "transferOwnership")
    BY <2>1, Joined DEF first
  <2>3. handover[1] = HandoverTx(run.n, 1) /\ handover[2] = HandoverTx(run.n, 2)
    BY <1>2, <1>3, <2>2
  <2>4. \A k \in 1..2 : k = 1 \/ k = 2
    OBVIOUS
  <2>5. Len(handover) <= Steps(Lock(run.env))
    BY <2>2 DEF Steps
  <2> QED BY <1>5, <2>2, <2>3, <2>4, <2>5
<1> QED BY <1>4, <1>5

LEMMA FilesType ==
  ASSUME files \in Files, NEW key \in Keys, NEW some \in SUBSET Keys, NEW d \in Paper, NEW batch \in Batch
  PROVE  /\ [files EXCEPT !.env = key] \in Files
         /\ [files EXCEPT !.backups = some] \in Files
         /\ [files EXCEPT !.live = d] \in Files
         /\ [files EXCEPT !.staged = d] \in Files
         /\ [files EXCEPT !.batch = batch] \in Files
<1>1. [files EXCEPT !.env = key] \in Files
  BY DEF Files
<1>2. [files EXCEPT !.backups = some] \in Files
  BY DEF Files
<1>3. [files EXCEPT !.live = d] \in Files
  BY DEF Files
<1>4. [files EXCEPT !.staged = d] \in Files
  BY DEF Files
<1>5. [files EXCEPT !.batch = batch] \in Files
  BY DEF Files
<1> QED BY <1>1, <1>2, <1>3, <1>4, <1>5

LEMMA OutType ==
  ASSUME files \in Files, NEW env, NEW d \in Paper
  PROVE  [files EXCEPT ![outPath(env)] = d] \in Files
<1>1. outPath(env) = "live" \/ outPath(env) = "staged"
  BY DEF outPath
<1>2. CASE outPath(env) = "live"
  BY <1>2 DEF Files
<1>3. CASE outPath(env) = "staged"
  BY <1>3 DEF Files
<1> QED BY <1>1, <1>2, <1>3

LEMMA PaperIs == /\ Broken \in Paper /\ NoOne \in Paper
                 /\ \A chn \in Chains, n \in Sets, key \in Keys :
                        [chain |-> chn, n |-> n, agent |-> key] \in Paper
BY DEF Paper

\* The fields of the variables, one by one.
LEMMA TypeFields ==
  ASSUME TypeOK
  PROVE  /\ run.pc \in Points /\ run.n \in Sets /\ run.sent \in Nat /\ run.agent \in Keys
         /\ run.envKey \in Keys /\ run.ok \in BOOLEAN
         /\ files.env \in Keys /\ files.backups \in SUBSET Keys /\ files.live \in Paper
         /\ files.staged \in Paper /\ files.batch \in {NoOne} \cup Batch
         /\ seen.sets \in Sets /\ seen.keys \in Nat /\ seen.salts \in Nat /\ seen.stored \in SUBSET Nat
         /\ seen.throwaway \in SUBSET Keys /\ seen.verified \in SUBSET Sets
         /\ seen.accepted \in SUBSET Sets
         /\ chain.owner \in [Contracts -> Owners] /\ chain.pendingOwner \in [Contracts -> Owners]
         /\ chain.timelock \in [Sets -> Locks]
         /\ run.n \in Nat /\ seen.sets \in Nat
<1>1. /\ run.pc \in Points /\ run.n \in Sets /\ run.sent \in Nat /\ run.agent \in Keys
      /\ run.envKey \in Keys /\ run.ok \in BOOLEAN
  BY DEF TypeOK, Run
<1>2. /\ files.env \in Keys /\ files.backups \in SUBSET Keys /\ files.live \in Paper
      /\ files.staged \in Paper /\ files.batch \in {NoOne} \cup Batch
  BY DEF TypeOK, Files
<1>3. /\ seen.sets \in Sets /\ seen.keys \in Nat /\ seen.salts \in Nat /\ seen.stored \in SUBSET Nat
      /\ seen.throwaway \in SUBSET Keys /\ seen.verified \in SUBSET Sets
      /\ seen.accepted \in SUBSET Sets
  BY DEF TypeOK, Observations
<1>4. /\ chain.owner \in [Contracts -> Owners] /\ chain.pendingOwner \in [Contracts -> Owners]
      /\ chain.timelock \in [Sets -> Locks]
  BY DEF TypeOK, Chain
<1> QED BY <1>1, <1>2, <1>3, <1>4, ContractsAre

LEMMA TypeDeploy == TypeOK /\ Deploy => TypeOK'
<1> SUFFICES ASSUME TypeOK, Deploy PROVE TypeOK'
  OBVIOUS
<1> USE TypeFields, ContractsAre
<1>1. ASSUME NEW env \in scenario.envs, begin(env) PROVE TypeOK'
  <2>1. env \in Envs
    BY DEF TypeOK, Envs
  <2>2. run' \in Run /\ run'.pc = "ron" /\ run'.env = env
    <3> DEFINE name == IF scenario.chain = "local" THEN "local" ELSE "base"
    <3>1. run' = [Idle EXCEPT !.script = name, !.pc = "ron", !.env = env, !.n = seen.sets + 1,
                              !.envKey = files.env]
      BY <1>1 DEF begin
    <3>2. name \in {"none", "local", "base", "verify"} /\ seen.sets + 1 \in Sets /\ "ron" \in Points
      BY <1>1, BoundAssumption DEF begin, Sets, Points, Deploying
    <3> HIDE DEF name
    <3> QED BY <2>1, <3>1, <3>2, IdleType DEF Run
  <2>3. seen' \in Observations
    <3>1. seen' = [seen EXCEPT !.sets = seen.sets + 1]
      BY <1>1 DEF begin
    <3>2. seen.sets + 1 \in Sets
      BY <1>1, BoundAssumption DEF begin, Sets
    <3> QED BY <3>1, <3>2 DEF TypeOK, Observations
  <2> QED BY <1>1, <2>1, <2>2, <2>3, TypeParts DEF begin, TypeOK, Handled
<1>2. ASSUME NEW name \in Names, NEW next \in {"registry", "timelock"}, name \in Deploying,
             deployContract(name, next)
      PROVE  TypeOK'
  <2>1. chain' \in Chain
    <3> DEFINE c == <<run.n, name>>
               owners == [chain.owner EXCEPT ![c] = Deployer]
    <3>1. chain' = [chain EXCEPT !.owner = owners]
      BY <1>2 DEF deployContract
    <3>2. owners \in [Contracts -> Owners]
      BY DEF Owners
    <3> HIDE DEF owners
    <3> QED BY <3>1, <3>2 DEF TypeOK, Chain
  <2>2. run' \in Run /\ run'.pc = next /\ run'.env = run.env /\ run.env \in Envs
    <3>1. run' = [run EXCEPT !.pc = next] /\ run.pc = name
      BY <1>2 DEF deployContract, Goto, At
    <3>2. next \in Points
      BY DEF Points, Deploying
    <3> QED BY <1>2, <3>1, <3>2, GotoType DEF TypeOK, Deploying, Run
  <2> QED BY <1>2, <2>1, <2>2, TypeParts DEF deployContract, TypeOK, Handled
<1>3. ASSUME deployTimelock PROVE TypeOK'
  <2>1. run' \in Run /\ run'.pc = "handover" /\ run'.env = run.env /\ run.env \in Envs
    <3>1. run' = [run EXCEPT !.pc = "handover"] /\ run.pc = "timelock"
      BY <1>3 DEF deployTimelock, Goto, At
    <3> QED BY <3>1, GotoType DEF TypeOK, Points, Run
  <2>2. chain' \in Chain
    <3> DEFINE locks == [chain.timelock EXCEPT ![run.n] = Lock(run.env)]
    <3>1. chain' = [chain EXCEPT !.timelock = locks]
      BY <1>3 DEF deployTimelock, Lock
    <3>2. locks \in [Sets -> Locks]
      BY <2>1 DEF Locks
    <3> HIDE DEF locks
    <3> QED BY <3>1, <3>2 DEF TypeOK, Chain
  <2> QED BY <1>3, <2>1, <2>2, TypeParts DEF deployTimelock, TypeOK, Handled
<1>4. ASSUME sendHandover PROVE TypeOK'
  <2>1. handover[run.sent + 1] \in Transaction
    <3>1. run.sent + 1 \in 1..Len(handover)
      BY <1>4, HandoverIs, StepsType DEF sendHandover
    <3> QED BY <1>4, <3>1, HandoverIs, HandoverTxType DEF sendHandover
  <2>2. run' = [run EXCEPT !.sent = run.sent + 1] /\ run.pc = "handover"
    BY <1>4 DEF sendHandover, At
  <2>3. run' \in Run /\ run'.pc = "handover" /\ run'.env = run.env
    BY <2>2, SentType DEF TypeOK, Run
  <2>4. run.env \in Envs
    BY <2>2 DEF TypeOK
  <2>5. seen' \in Observations
    <3> DEFINE sets == seen.accepted \cup {run.n}
    <3>1. seen' = seen \/ seen' = [seen EXCEPT !.accepted = sets]
      BY <1>4 DEF sendHandover
    <3>2. sets \in SUBSET Sets
      OBVIOUS
    <3> HIDE DEF sets
    <3> QED BY <3>1, <3>2 DEF TypeOK, Observations
  <2>6. chain' \in Chain /\ mempool' \in Seq(Transaction)
    BY <1>4, <2>1, TypeSend DEF sendHandover
  <2> QED BY <1>4, <2>3, <2>4, <2>5, <2>6, TypeParts DEF sendHandover, TypeOK, Handled
<1>5. ASSUME chooseAgent PROVE TypeOK'
  <2>1. run.env \in Envs /\ run \in Run
    BY <1>5 DEF chooseAgent, At, TypeOK
  <2>2. run' \in Run /\ run'.agent \in Nat /\ run'.env = run.env
    <3>1. CASE run' = [run EXCEPT !.agent = 0, !.pc = "describe"]
      BY <2>1, <3>1, KeysAre DEF Run, Points, Handled
    <3>2. CASE reuse(run) /\ run' = [run EXCEPT !.agent = run.envKey, !.pc = "fund"]
      <4>1. run.envKey \in Nat
        BY <3>2, KeysAre DEF reuse
      <4> QED BY <2>1, <3>2, <4>1 DEF Run, Points, Handled
    <3>3. CASE run' = [run EXCEPT !.agent = seen.keys + 1, !.pc = "fund"]
      <4>1. seen.keys + 1 \in Nat /\ seen.keys + 1 \in Keys
        BY KeysAre
      <4> QED BY <2>1, <3>3, <4>1 DEF Run, Points, Handled
    <3> QED BY <1>5, <3>1, <3>2, <3>3 DEF chooseAgent, LocalAgent
  <2>3. seen' \in Observations
    <3>1. seen' = seen \/ seen' = [seen EXCEPT !.keys = seen.keys + 1]
      BY <1>5 DEF chooseAgent
    <3>2. seen \in Observations
      BY DEF TypeOK
    <3>3. PICK keys \in Nat : keys = seen.keys + 1
      BY <3>2 DEF Observations
    <3>4. [seen EXCEPT !.keys = keys] \in Observations
      BY <3>2 DEF Observations
    <3> QED BY <3>1, <3>2, <3>3, <3>4
  <2> QED BY <1>5, <2>1, <2>2, <2>3, TypeParts DEF chooseAgent, TypeOK
<1>6. ASSUME NEW from \in Handled, NEW to \in Handled, run.pc = from, Goto(to),
             files' \in Files, seen' \in Observations, UNCHANGED <<scenario, now, chain, mempool>>
      PROVE  TypeOK'
  <2>1. /\ run' = [run EXCEPT !.pc = to] /\ to \in Points /\ run.pc \notin {"idle", "verifyKey"}
        /\ run.pc \in Handled
    BY <1>6 DEF Goto, Points, Handled
  <2>2. /\ run' \in Run /\ run'.env = run.env /\ run'.agent = run.agent
        /\ run.env \in Envs /\ run.agent \in Nat
    BY <2>1, GotoType DEF TypeOK, Run
  <2> QED BY <1>6, <2>2, TypeParts DEF TypeOK
<1>7. ASSUME fundAgent PROVE TypeOK'
  <2>1. PICK to \in {"describe", "backup"} : Goto(to)
    BY <1>7 DEF fundAgent
  <2>2. seen' \in Observations
    <3>1. seen' = seen \/ seen' = [seen EXCEPT !.throwaway = seen.throwaway \cup {run.agent}]
      BY <1>7 DEF fundAgent
    <3> QED BY <3>1 DEF TypeOK, Observations
  <2> QED BY <1>6, <1>7, <2>1, <2>2 DEF fundAgent, TypeOK, Handled, At
<1>8. ASSUME backupEnv PROVE TypeOK'
  <2>1. files' \in Files
    <3> DEFINE some == files.backups \cup ({files.env} \ {NoOne})
    <3>1. files' = [files EXCEPT !.backups = some] /\ some \in SUBSET Keys
      BY <1>8 DEF backupEnv
    <3> HIDE DEF some
    <3> QED BY <3>1 DEF TypeOK, Files
  <2> QED BY <1>6, <1>8, <2>1 DEF backupEnv, TypeOK, Handled, At
<1>9. ASSUME truncateEnv PROVE TypeOK'
  <2>1. files' \in Files
    BY <1>9, KeysAre DEF truncateEnv, TypeOK, Files
  <2> QED BY <1>6, <1>9, <2>1 DEF truncateEnv, TypeOK, Handled, At
<1>10. ASSUME upsertEnvVar PROVE TypeOK'
  <2>1. files' \in Files
    BY <1>10 DEF upsertEnvVar, TypeOK, Files
  <2>2. seen' \in Observations
    <3>1. seen' = [seen EXCEPT !.stored = seen.stored \cup {run.agent}]
      BY <1>10 DEF upsertEnvVar
    <3>2. run.agent \in Nat
      BY <1>10 DEF upsertEnvVar, At, TypeOK, Handled
    <3> QED BY <3>1, <3>2 DEF TypeOK, Observations
  <2> QED BY <1>6, <1>10, <2>1, <2>2 DEF upsertEnvVar, TypeOK, Handled, At
<1>11. ASSUME truncateDescriptor PROVE TypeOK'
  <2>1. files' \in Files
    BY <1>11, OutType, PaperIs DEF truncateDescriptor, TypeOK
  <2> QED BY <1>6, <1>11, <2>1 DEF truncateDescriptor, TypeOK, Handled, At
<1>12. ASSUME writeDescriptor PROVE TypeOK'
  <2>1. Description \in Paper
    BY PaperIs DEF Description, TypeOK, Chains
  <2>2. files' \in Files
    BY <1>12, <2>1, OutType DEF writeDescriptor, TypeOK
  <2> QED BY <1>12, <2>2, IdleType, TypeParts DEF writeDescriptor, TypeOK, Handled
<1> HIDE TypeFields, ContractsAre
<1> QED BY <1>1, <1>2, <1>3, <1>4, <1>5, <1>7, <1>8, <1>9, <1>10, <1>11, <1>12
        DEF Deploy, Names, Deploying

LEMMA TypeFinish == TypeOK /\ (Finish \/ die \/ mine \/ Tick) => TypeOK'
<1> SUFFICES ASSUME TypeOK, Finish \/ die \/ mine \/ Tick PROVE TypeOK'
  OBVIOUS
<1>1. ASSUME NEW name \in Names, NEW delay \in Nat, buildBatch(name, delay) PROVE TypeOK'
  <2> DEFINE batch == [c |-> <<files.live.n, name>>, salt |-> seen.salts + 1, delay |-> delay]
  <2>1. batch \in Batch
    <3>1. files.live.n \in Sets
      BY <1>1, TypeFields, ReadableIs DEF buildBatch
    <3>2. seen.salts + 1 \in Nat \ {0}
      BY TypeFields
    <3> QED BY <3>1, <3>2, ContractsAre DEF Batch
  <2>2. files' \in Files
    <3>1. files' = [files EXCEPT !.batch = batch]
      BY <1>1 DEF buildBatch
    <3> HIDE DEF batch
    <3> QED BY <2>1, <3>1 DEF TypeOK, Files
  <2>3. seen' \in Observations
    <3>1. seen' = [seen EXCEPT !.salts = seen.salts + 1] /\ seen.salts + 1 \in Nat
      BY <1>1, TypeFields DEF buildBatch
    <3> QED BY <3>1 DEF TypeOK, Observations
  <2> QED BY <1>1, <2>2, <2>3, TypeParts DEF buildBatch, TypeOK
<1>2. ASSUME NEW from \in {Safe, Deployer}, NEW what \in {"schedule", "execute"},
             submitBatch(from, what)
      PROVE  TypeOK'
  <2> DEFINE tx == [call |-> what, c |-> files.batch.c, from |-> from,
                    salt |-> files.batch.salt, delay |-> files.batch.delay]
  <2>1. tx \in Transaction
    BY <1>2, TypeFields DEF submitBatch, Batch, Transaction
  <2>2. chain' = Apply(tx, chain)
    BY <1>2 DEF submitBatch
  <2> HIDE DEF tx
  <2>3. chain' \in Chain
    BY <2>1, <2>2, ApplyType DEF TypeOK
  <2> QED BY <1>2, <2>3, TypeParts DEF submitBatch, TypeOK
<1>3. ASSUME readOwners PROVE TypeOK'
  <2> DEFINE ok == HandedOver(files.live.n) /\ SurfaceOk(Code(files.live.n))
  <2>1. files.live.n \in Sets /\ files.live.agent \in Keys
    BY <1>3, TypeFields, ReadableIs DEF readOwners
  <2>2. ok \in BOOLEAN
    BY DEF HandedOver, SurfaceOk
  <2>3. run' = [Idle EXCEPT !.script = "verify", !.pc = "verifyKey", !.n = files.live.n,
                            !.agent = files.live.agent, !.ok = ok]
    BY <1>3 DEF readOwners
  <2> HIDE DEF ok
  <2>4. run' \in Run /\ run'.pc = "verifyKey"
    BY <2>1, <2>2, <2>3, IdleType DEF Run, Points
  <2> QED BY <1>3, <2>4, TypeParts DEF readOwners, TypeOK, Handled
<1>4. ASSUME checkKey PROVE TypeOK'
  <2>1. seen' \in Observations
    <3>1. seen' = seen \/ seen' = [seen EXCEPT !.verified = seen.verified \cup {run.n}]
      BY <1>4 DEF checkKey
    <3> QED BY <3>1, TypeFields DEF TypeOK, Observations
  <2> QED BY <1>4, <2>1, IdleType, TypeParts DEF checkKey, TypeOK, Handled
<1>5. ASSUME die PROVE TypeOK'
  BY <1>5, IdleType, TypeParts DEF die, TypeOK, Handled
<1>6. ASSUME mine PROVE TypeOK'
  <2>1. Head(mempool) \in Transaction /\ Tail(mempool) \in Seq(Transaction)
    BY <1>6 DEF mine, TypeOK
  <2>2. chain' \in Chain /\ mempool' \in Seq(Transaction)
    BY <1>6, <2>1, ApplyType DEF mine, TypeOK
  <2> QED BY <1>6, <2>2, TypeParts DEF mine, TypeOK
<1>7. ASSUME Tick PROVE TypeOK'
  BY <1>7, TypeParts DEF Tick, TypeOK
<1>8. {DefaultDelay, 2} \subseteq Nat
  BY DEF DefaultDelay
<1> QED BY <1>1, <1>2, <1>3, <1>4, <1>5, <1>6, <1>7, <1>8 DEF Finish

LEMMA StutterType == ASSUME TypeOK, UNCHANGED vars PROVE TypeOK'
BY DEF vars, TypeOK

LEMMA NextCases ==
  ASSUME [Next]_allVars
  PROVE  \/ DeploymentNext /\ UNCHANGED rulingVars
         \/ RulingNext /\ UNCHANGED vars
         \/ UNCHANGED allVars
BY DEF Next, allVars

\* The state of the deployment scripts keeps its types, whatever is set and wherever a
\* run dies.
THEOREM TypesKept == Spec => []TypeOK
<1>1. Init2 => TypeOK
  BY InitType DEF Init2
<1>2. TypeOK /\ [Next]_allVars => TypeOK'
  BY NextCases, TypeDeploy, TypeFinish, StutterType DEF DeploymentNext, allVars
<1> QED BY <1>1, <1>2, PTL DEF Spec

-----------------------------------------------------------------------------
(* The keys of the agents *)

Known == seen.stored \cup seen.throwaway \cup {LocalAgent}

\* While .env is rewritten the copy is there, and from the moment the script describes
\* its work the agent is known.
KeysOK ==
    /\ seen.stored \subseteq {files.env} \cup files.backups
    /\ run.pc = "upsert" => files.env \in files.backups \cup {NoOne}
    /\ run.pc = "writeKey" => files.env = NoOne
    /\ run.pc \in {"describe", "writeOut"} => run.agent \in Known
    /\ Readable(files.live) => files.live.agent \in Known
    /\ Readable(files.staged) => files.staged.agent \in Known

\* A step that leaves the keys and the descriptions alone.
LEMMA KeysElse ==
  ASSUME KeysOK, files'.env = files.env, files'.backups = files.backups,
         files'.live = files.live, files'.staged = files.staged,
         seen'.stored = seen.stored, seen.throwaway \subseteq seen'.throwaway,
         \/ run'.pc \notin {"upsert", "writeKey", "describe", "writeOut"}
         \/ run'.pc = "describe" /\ run'.agent \in seen'.throwaway \cup {LocalAgent}
  PROVE  KeysOK'
BY DEF KeysOK, Known, Readable, LocalAgent, Broken

LEMMA KeysStep == TypeOK /\ TypeOK' /\ KeysOK /\ DeploymentNext => KeysOK'
<1> SUFFICES ASSUME TypeOK, TypeOK', KeysOK, DeploymentNext PROVE KeysOK'
  OBVIOUS
<1>0. Idle.pc = "idle"
  BY DEF Idle
<1>1. ASSUME NEW env \in scenario.envs, begin(env) PROVE KeysOK'
  <2>1. seen'.stored = seen.stored /\ seen'.throwaway = seen.throwaway
    BY <1>1 DEF begin, TypeOK, Observations
  <2>2. run'.pc = "ron"
    BY <1>1 DEF begin, Idle
  <2> QED BY <1>1, <2>1, <2>2, KeysElse DEF begin
<1>2. ASSUME NEW name, NEW next \in {"registry", "timelock"}, deployContract(name, next) PROVE KeysOK'
  <2>1. run'.pc = next
    BY <1>2 DEF deployContract, Goto, TypeOK, Run
  <2> QED BY <1>2, <2>1, KeysElse DEF deployContract
<1>3. ASSUME deployTimelock PROVE KeysOK'
  <2>1. run'.pc = "handover"
    BY <1>3 DEF deployTimelock, Goto, TypeOK, Run
  <2> QED BY <1>3, <2>1, KeysElse DEF deployTimelock
<1>4. ASSUME sendHandover PROVE KeysOK'
  <2>1. run'.pc = "handover"
    BY <1>4 DEF sendHandover, At, TypeOK, Run
  <2> QED BY <1>4, <2>1, KeysElse DEF sendHandover
<1>5. ASSUME chooseAgent PROVE KeysOK'
  <2>1. seen'.stored = seen.stored /\ seen'.throwaway = seen.throwaway
    BY <1>5 DEF chooseAgent, TypeOK, Observations
  <2>2. run'.pc = "fund" \/ (run'.pc = "describe" /\ run'.agent = LocalAgent)
    <3>1. \/ run' = [run EXCEPT !.agent = LocalAgent, !.pc = "describe"]
          \/ run' = [run EXCEPT !.agent = run.envKey, !.pc = "fund"]
          \/ run' = [run EXCEPT !.agent = seen.keys + 1, !.pc = "fund"]
      BY <1>5 DEF chooseAgent
    <3> QED BY <3>1 DEF TypeOK, Run
  <2> QED BY <1>5, <2>1, <2>2, KeysElse DEF chooseAgent
<1>6. ASSUME fundAgent PROVE KeysOK'
  <2>1. CASE Goto("backup") /\ seen' = seen
    <3>1. run'.pc = "backup"
      BY <2>1 DEF Goto, TypeOK, Run
    <3> QED BY <1>6, <2>1, <3>1, KeysElse DEF fundAgent
  <2>2. CASE Goto("describe") /\ seen' = [seen EXCEPT !.throwaway = @ \cup {run.agent}]
    <3>1. run'.pc = "describe" /\ run'.agent = run.agent
      BY <2>2 DEF Goto, TypeOK, Run
    <3>2. seen'.stored = seen.stored /\ seen'.throwaway = seen.throwaway \cup {run.agent}
      BY <2>2 DEF TypeOK, Observations
    <3> QED BY <1>6, <3>1, <3>2, KeysElse DEF fundAgent
  <2> QED BY <1>6, <2>1, <2>2 DEF fundAgent
<1>7. ASSUME backupEnv PROVE KeysOK'
  <2>1. /\ files'.env = files.env /\ files'.live = files.live /\ files'.staged = files.staged
        /\ files'.backups = files.backups \cup ({files.env} \ {NoOne}) /\ seen' = seen
        /\ run'.pc = "upsert"
    BY <1>7 DEF backupEnv, Goto, TypeOK, Files, Run
  <2> QED BY <2>1 DEF KeysOK, Known, Readable, Broken
<1>8. ASSUME truncateEnv PROVE KeysOK'
  <2>1. /\ files'.env = NoOne /\ files'.live = files.live /\ files'.staged = files.staged
        /\ files'.backups = files.backups /\ seen' = seen /\ run'.pc = "writeKey" /\ run.pc = "upsert"
    BY <1>8 DEF truncateEnv, Goto, At, TypeOK, Files, Run
  <2> QED BY <2>1 DEF KeysOK, Known, Readable, Broken
<1>9. ASSUME upsertEnvVar PROVE KeysOK'
  <2>1. /\ files'.env = run.agent /\ files'.live = files.live /\ files'.staged = files.staged
        /\ files'.backups = files.backups /\ run'.pc = "describe" /\ run.pc = "writeKey"
        /\ run'.agent = run.agent
    BY <1>9 DEF upsertEnvVar, Goto, At, TypeOK, Files, Run
  <2>2. seen'.stored = seen.stored \cup {run.agent} /\ seen'.throwaway = seen.throwaway
    BY <1>9 DEF upsertEnvVar, TypeOK, Observations
  <2>3. NoOne \notin seen.stored
    BY TypeFields, NoOneAssumption
  <2> QED BY <2>1, <2>2, <2>3 DEF KeysOK, Known, Readable, Broken
<1>10. ASSUME truncateDescriptor PROVE KeysOK'
  <2>1. /\ files'.env = files.env /\ files'.backups = files.backups
        /\ files'.live \in {files.live, Broken} /\ files'.staged \in {files.staged, Broken}
    BY <1>10 DEF truncateDescriptor, outPath, TypeOK, Files
  <2>2. seen' = seen /\ run'.pc = "writeOut" /\ run'.agent = run.agent /\ run.pc = "describe"
    BY <1>10 DEF truncateDescriptor, Goto, At, TypeOK, Run
  <2> QED BY <2>1, <2>2 DEF KeysOK, Known, Readable, Broken
<1>11. ASSUME writeDescriptor PROVE KeysOK'
  <2>1. /\ files'.env = files.env /\ files'.backups = files.backups
        /\ files'.live \in {files.live, Description} /\ files'.staged \in {files.staged, Description}
    BY <1>11 DEF writeDescriptor, outPath, TypeOK, Files
  <2>2. seen' = seen /\ run' = Idle /\ run.pc = "writeOut"
    BY <1>11 DEF writeDescriptor, At
  <2>3. Description.agent = run.agent
    BY DEF Description
  <2> HIDE DEF Description
  <2> QED BY <1>0, <2>1, <2>2, <2>3 DEF KeysOK, Known, Readable, Broken
<1>12. ASSUME NEW name, NEW delay, buildBatch(name, delay) PROVE KeysOK'
  <2>1. /\ files'.env = files.env /\ files'.backups = files.backups
        /\ files'.live = files.live /\ files'.staged = files.staged
    BY <1>12 DEF buildBatch, TypeOK, Files
  <2>2. seen'.stored = seen.stored /\ seen'.throwaway = seen.throwaway
    BY <1>12 DEF buildBatch, TypeOK, Observations
  <2>3. run' = run /\ run.pc = "idle"
    BY <1>12 DEF buildBatch, At
  <2> QED BY <2>1, <2>2, <2>3, KeysElse
<1>13. ASSUME UNCHANGED <<files, run, seen>> PROVE KeysOK'
  BY <1>13 DEF KeysOK, Known, Readable, Broken
<1>14. ASSUME readOwners PROVE KeysOK'
  <2>1. run'.pc = "verifyKey"
    BY <1>14 DEF readOwners, Idle
  <2> QED BY <1>14, <2>1, KeysElse DEF readOwners
<1>15. ASSUME checkKey PROVE KeysOK'
  <2>1. seen'.stored = seen.stored /\ seen'.throwaway = seen.throwaway
    <3>1. seen' = seen \/ seen' = [seen EXCEPT !.verified = seen.verified \cup {run.n}]
      BY <1>15 DEF checkKey
    <3> QED BY <3>1 DEF TypeOK, Observations
  <2> QED BY <1>0, <1>15, <2>1, KeysElse DEF checkKey
<1>16. ASSUME die PROVE KeysOK'
  BY <1>0, <1>16, KeysElse DEF die
<1> QED BY <1>1, <1>2, <1>3, <1>4, <1>5, <1>6, <1>7, <1>8, <1>9, <1>10, <1>11, <1>12, <1>13, <1>14,
           <1>15, <1>16 DEF DeploymentNext, Deploy, Finish, submitBatch, mine, Tick

\* A key that .env has held is in .env or in a backup, and every description names an
\* agent whose key was stored, rehearsals aside.
THEOREM KeysKept == Spec => []AgentKeysSurvive
<1>1. Init2 => KeysOK
  BY NoOneAssumption DEF Init2, Init, Idle, KeysOK, Known, Readable, PilotFile
<1>2. TypeOK /\ TypeOK' /\ KeysOK /\ [Next]_allVars => KeysOK'
  <2>1. ASSUME KeysOK, UNCHANGED vars PROVE KeysOK'
    BY <2>1 DEF vars, KeysOK, Known, Readable, Broken
  <2> QED BY <2>1, NextCases, KeysStep DEF allVars
<1>3. KeysOK => AgentKeysSurvive
  BY DEF KeysOK, AgentKeysSurvive, Known
<1> QED BY <1>1, <1>2, <1>3, TypesKept, PTL DEF Spec

-----------------------------------------------------------------------------
(* The hand-over *)

Described == {d.n : d \in {paper \in {files.live, files.staged} : Readable(paper)}}

\* Set n under way: nobody has touched it before its transactions are sent, they are
\* sent in order, and what is described or verified has been sent or is done.
SetOK(n) ==
    /\ n > seen.sets \/ (n = run.n /\ run.pc \in Deploying) => Untouched(n)
    /\ n = run.n /\ run.pc \in {"registry", "timelock"} => chain.owner[<<n, "ron">>] = Deployer
    /\ n = run.n /\ run.pc = "timelock" => chain.owner[<<n, "registry">>] = Deployer
    /\ n = run.n /\ run.pc = "handover" =>
            /\ chain.timelock[n] = Lock(run.env)
            /\ \E s \in 0..Steps(chain.timelock[n]) : s = run.sent /\ Queued(n, s)
    /\ n = run.n /\ run.pc \in Handled => Offered(n)
    /\ n \in Described =>
            n <= seen.sets /\ Offered(n) /\ (n = run.n => run.pc \notin Deploying \cup {"handover"})
    /\ n \in seen.accepted =>
            /\ n <= seen.sets /\ Ready(n, 6)
            /\ n = run.n => run.pc \notin Deploying /\ (run.pc = "handover" => run.sent = 6)
    /\ n \in seen.verified \/ (n = run.n /\ run.pc = "verifyKey" /\ run.ok) =>
            n <= seen.sets /\ HandedOver(n) /\ (n = run.n => run.pc \notin Deploying)

HandoverOK ==
    /\ run.n <= seen.sets
    /\ run.pc \in Deploying => run.sent = 0
    /\ scenario.automine => mempool = << >>
    /\ \A n \in Sets : SetOK(n)

\* A step of the chain, the script standing still.
LEMMA SetStays ==
  ASSUME TypeOK, NEW n \in Sets, SetOK(n), Keeps(n), KeepsQueue(n), run' = run,
         Described' = Described, seen'.sets = seen.sets, seen'.verified = seen.verified,
         seen'.accepted = seen.accepted
  PROVE  SetOK(n)'
<1>1. n > seen'.sets \/ (n = run'.n /\ run'.pc \in Deploying) => Untouched(n)'
  BY DEF SetOK, Keeps
<1>2. n = run.n /\ run.pc \in Deploying =>
         \A name \in Names : chain'.owner[<<n, name>>] = chain.owner[<<n, name>>]
  BY DEF SetOK, Keeps
<1>3. /\ n = run'.n /\ run'.pc \in {"registry", "timelock"} => chain'.owner[<<n, "ron">>] = Deployer
      /\ n = run'.n /\ run'.pc = "timelock" => chain'.owner[<<n, "registry">>] = Deployer
  BY <1>2 DEF SetOK, Deploying, Names
<1>4. chain'.timelock[n] = chain.timelock[n]
  BY DEF Keeps
<1>5. n = run'.n /\ run'.pc = "handover" =>
            /\ chain'.timelock[n] = Lock(run'.env)
            /\ \E s \in 0..Steps(chain'.timelock[n]) : s = run'.sent /\ Queued(n, s)'
  <2> SUFFICES ASSUME n = run.n, run.pc = "handover"
               PROVE  /\ chain'.timelock[n] = Lock(run.env)
                      /\ \E s \in 0..Steps(chain'.timelock[n]) : s = run'.sent /\ Queued(n, s)'
    OBVIOUS
  <2>1. PICK s \in 0..Steps(chain.timelock[n]) : s = run.sent /\ Queued(n, s)
    BY DEF SetOK
  <2>2. Queued(n, s)'
    BY <2>1 DEF KeepsQueue
  <2>3. chain.timelock[n] = Lock(run.env)
    BY DEF SetOK
  <2> QED BY <1>4, <2>1, <2>2, <2>3
<1>6. Offered(n) => Offered(n)'
  BY DEF Keeps, Offered
<1>7. n = run'.n /\ run'.pc \in Handled => Offered(n)'
  BY <1>6 DEF SetOK
<1>8. n \in seen'.verified \/ (n = run'.n /\ run'.pc = "verifyKey" /\ run'.ok) =>
            n <= seen'.sets /\ HandedOver(n)' /\ (n = run'.n => run'.pc \notin Deploying)
  BY DEF SetOK, Keeps
<1>9. n \in Described' => /\ n <= seen'.sets /\ Offered(n)'
                          /\ n = run'.n => run'.pc \notin Deploying \cup {"handover"}
  BY <1>6 DEF SetOK
<1>10. n \in seen'.accepted =>
            /\ n <= seen'.sets /\ Ready(n, 6)'
            /\ n = run'.n => run'.pc \notin Deploying /\ (run'.pc = "handover" => run'.sent = 6)
  BY DEF SetOK, Keeps
<1> QED BY <1>1, <1>3, <1>5, <1>7, <1>8, <1>9, <1>10 DEF SetOK

\* A step of the script after the contracts are deployed and what hands them over is sent.
LEMMA SetRests ==
  ASSUME TypeOK, NEW n \in Sets, SetOK(n), Keeps(n), run.n <= seen.sets, seen'.sets = seen.sets,
         run'.pc \notin Deploying \cup {"handover"},
         seen'.accepted = seen.accepted, n = run'.n /\ run'.pc \in Handled => Offered(n),
         n = run'.n /\ run'.pc = "verifyKey" /\ run'.ok => n <= seen.sets /\ HandedOver(n),
         n \in Described' => n \in Described \/ (n = run.n /\ run.pc \in Handled),
         n \in seen'.verified =>
            n \in seen.verified \/ (n = run.n /\ run.pc = "verifyKey" /\ run.ok)
  PROVE  SetOK(n)'
<1>1. n > seen'.sets => Untouched(n)'
  BY DEF SetOK, Keeps
<1>2. Offered(n) => Offered(n)'
  BY DEF Keeps, Offered
<1>3. n \in Described' => n <= seen'.sets /\ Offered(n)'
  BY <1>2 DEF SetOK
<1>4. n \in seen'.verified \/ (n = run'.n /\ run'.pc = "verifyKey" /\ run'.ok) =>
            n <= seen'.sets /\ HandedOver(n)'
  BY DEF SetOK, Keeps
<1>5. n \in seen'.accepted => n <= seen'.sets /\ Ready(n, 6)'
  BY DEF SetOK, Keeps
<1> QED BY <1>1, <1>2, <1>3, <1>4, <1>5 DEF SetOK, Deploying

LEMMA DescribedSame ==
  ASSUME files'.live = files.live, files'.staged = files.staged
  PROVE  Described' = Described
BY DEF Described, Readable, Broken

\* Nothing of the chain and the queue moves.
LEMMA KeepsQuiet ==
  ASSUME TypeOK, TypeOK', UNCHANGED <<now, chain, mempool>>, NEW n \in Sets
  PROVE  Keeps(n) /\ KeepsQueue(n)
<1>1. now' >= now
  BY DEF TypeOK
<1> QED BY <1>1, KeepsElse

LEMMA InitHandover == Init => HandoverOK
<1> SUFFICES ASSUME Init PROVE HandoverOK
  OBVIOUS
<1>1. /\ run = Idle /\ Idle.n = 0 /\ Idle.pc = "idle" /\ mempool = << >> /\ seen.sets = 0
      /\ seen.verified = {} /\ seen.accepted = {}
  BY DEF Init, Idle
<1>2. Described \subseteq {0}
  BY DEF Init, Described, Readable, PilotFile
<1>3. ASSUME NEW n \in Sets PROVE Foreign(n)
  BY <1>1 DEF Foreign
<1>4. /\ chain.pendingOwner = [c \in Contracts |-> NoOne] /\ chain.waiting = {} /\ chain.executed = {}
      /\ chain.owner = [c \in Contracts |-> IF c[1] = 0 THEN Timelock(0) ELSE NoOne]
      /\ chain.timelock[0] = [delay |-> 0, proposers |-> {Deployer}, executors |-> {Deployer}]
  BY ContractsAre DEF Init
<1>5. ASSUME NEW n \in Sets PROVE Fresh(chain, n)
  BY <1>4, ContractsAre, NoOneAssumption DEF Fresh
<1>6. Offered(0)
  <2>1. Steps(chain.timelock[0]) = 6
    BY <1>4 DEF Steps, Own
  <2>2. ASSUME NEW name \in Names PROVE Reached(chain, 0, name, 6)
    <3>1. chain.owner[<<0, name>>] = Timelock(0)
      BY <1>4, ContractsAre
    <3>2. ~(6 < Transferred(name)) /\ ~(6 < Scheduled(name)) /\ 6 # Scheduled(name)
      BY DEF Transferred, Scheduled
    <3> QED BY <3>1, <3>2 DEF Reached
  <2>3. Progress(chain, 0, 6)
    BY <2>2 DEF Progress
  <2> QED BY <1>3, <2>1, <2>3, ContractsAre DEF Ready, Offered
<1>7. ASSUME NEW n \in Sets PROVE SetOK(n)
  <2>1. Untouched(n)
    BY <1>3, <1>5 DEF Untouched
  <2>2. n \in Described => n <= seen.sets /\ Offered(n)
    BY <1>1, <1>2, <1>6
  <2>3. run.pc = "idle" /\ n \notin seen.verified /\ n \notin seen.accepted
    BY <1>1
  <2> QED BY <2>1, <2>2, <2>3 DEF SetOK, Deploying, Handled
<1> QED BY <1>1, <1>7, ContractsAre DEF HandoverOK, Deploying

\* The steps that deploy.
LEMMA BeginStep ==
  ASSUME TypeOK, TypeOK', HandoverOK, NEW env \in scenario.envs, begin(env)
  PROVE  HandoverOK'
<1> USE TypeFields
<1>1. /\ run'.n = seen.sets + 1 /\ run'.pc = "ron" /\ run'.sent = 0
      /\ seen'.sets = seen.sets + 1 /\ seen'.verified = seen.verified
      /\ seen'.accepted = seen.accepted
      /\ Described' = Described /\ mempool' = mempool
  <2>1. run'.n = seen.sets + 1 /\ run'.pc = "ron" /\ run'.sent = 0 /\ mempool' = mempool
    BY DEF begin, Idle
  <2>2. /\ seen'.sets = seen.sets + 1 /\ seen'.verified = seen.verified
        /\ seen'.accepted = seen.accepted
    BY DEF begin, TypeOK, Observations
  <2> QED BY <2>1, <2>2, DescribedSame DEF begin
<1>2. ASSUME NEW n \in Sets PROVE SetOK(n)'
  <2>1. SetOK(n) /\ Keeps(n) /\ n \in Nat
    BY KeepsQuiet, ContractsAre DEF begin, HandoverOK
  <2>2. Offered(n) => Offered(n)'
    BY <2>1 DEF Keeps, Offered
  <2> QED BY <1>1, <2>1, <2>2 DEF SetOK, Keeps, Deploying, Handled
<1> QED BY <1>1, <1>2 DEF HandoverOK, begin

LEMMA ContractStep ==
  ASSUME TypeOK, TypeOK', HandoverOK, NEW name \in Names, NEW next \in {"registry", "timelock"},
         next = IF name = "ron" THEN "registry" ELSE "timelock", deployContract(name, next)
  PROVE  HandoverOK'
<1> USE TypeFields
<1> DEFINE owners == [chain.owner EXCEPT ![<<run.n, name>>] = Deployer]
<1>1. /\ run'.n = run.n /\ run'.pc = next /\ run.pc = name /\ run'.sent = run.sent
      /\ Described' = Described /\ mempool' = mempool /\ mempool = << >> /\ seen' = seen
      /\ name \in Deploying /\ next \in Deploying
  BY DescribedSame DEF deployContract, Goto, At, TypeOK, Run, Receipt, Names, Deploying
<1>2. /\ chain'.owner = owners /\ chain'.pendingOwner = chain.pendingOwner
      /\ chain'.waiting = chain.waiting /\ chain'.executed = chain.executed
      /\ chain'.timelock = chain.timelock
  <2>1. chain' = [chain EXCEPT !.owner = owners]
    BY DEF deployContract
  <2> HIDE DEF owners
  <2> QED BY <2>1 DEF TypeOK, Chain
<1>3. ASSUME NEW n \in Sets, n # run.n PROVE SetOK(n)'
  <2>1. \A x \in Names : chain'.owner[<<n, x>>] = chain.owner[<<n, x>>]
    BY <1>2, <1>3, ContractsAre
  <2>2. Keeps(n)
    <3>1. now' >= now
      BY DEF deployContract, TypeOK
    <3> QED BY <1>1, <1>2, <2>1, <3>1, KeepsElse
  <2>3. SetOK(n) /\ (Offered(n) => Offered(n)')
    BY <2>2 DEF HandoverOK, Keeps, Offered
  <2> QED BY <1>1, <1>3, <2>2, <2>3 DEF SetOK, Keeps, Deploying, Handled
<1>4. ASSUME NEW n \in Sets, n = run.n PROVE SetOK(n)'
  <2>1. SetOK(n)
    BY DEF HandoverOK
  <2>2. Untouched(n)'
    BY <1>1, <1>2, <1>4, <2>1 DEF SetOK, Untouched, Fresh, Foreign
  <2>3. chain'.owner[<<n, name>>] = Deployer
    BY <1>2, <1>4, ContractsAre
  <2>4. next = "timelock" => chain'.owner[<<n, "ron">>] = Deployer
    BY <1>1, <1>2, <1>4, <2>1, ContractsAre DEF SetOK, Names
  <2>5. n \notin Described' /\ n \notin seen'.verified /\ n \notin seen'.accepted
    BY <1>1, <1>4, <2>1 DEF SetOK
  <2> QED BY <1>1, <1>4, <2>2, <2>3, <2>4, <2>5 DEF SetOK, Names, Deploying, Handled
<1> QED BY <1>1, <1>3, <1>4 DEF HandoverOK, deployContract

LEMMA TimelockStep ==
  ASSUME TypeOK, TypeOK', HandoverOK, deployTimelock
  PROVE  HandoverOK'
<1> USE TypeFields
<1> DEFINE locks == [chain.timelock EXCEPT ![run.n] = Lock(run.env)]
<1>1. /\ run'.n = run.n /\ run'.pc = "handover" /\ run.pc = "timelock" /\ run'.sent = run.sent
      /\ run'.env = run.env
      /\ Described' = Described /\ mempool' = mempool /\ mempool = << >> /\ seen' = seen
  BY DescribedSame DEF deployTimelock, Goto, At, TypeOK, Run, Receipt
<1>2. /\ chain'.owner = chain.owner /\ chain'.pendingOwner = chain.pendingOwner
      /\ chain'.waiting = chain.waiting /\ chain'.executed = chain.executed
      /\ chain'.timelock = locks
  <2>1. chain' = [chain EXCEPT !.timelock = locks]
    BY DEF deployTimelock, Lock
  <2> HIDE DEF locks
  <2> QED BY <2>1 DEF TypeOK, Chain
<1>3. ASSUME NEW n \in Sets, n # run.n PROVE SetOK(n)'
  <2>1. Keeps(n)
    <3>1. now' >= now /\ chain'.timelock[n] = chain.timelock[n]
      BY <1>2, <1>3 DEF deployTimelock, TypeOK
    <3> QED BY <1>1, <1>2, <3>1, KeepsElse
  <2>2. SetOK(n) /\ (Offered(n) => Offered(n)')
    BY <2>1 DEF HandoverOK, Keeps, Offered
  <2> QED BY <1>1, <1>3, <2>1, <2>2 DEF SetOK, Keeps, Deploying, Handled
<1>4. ASSUME NEW n \in Sets, n = run.n PROVE SetOK(n)'
  <2>1. SetOK(n) /\ Fresh(chain, n)
    BY <1>1, <1>4 DEF HandoverOK, SetOK, Untouched, Deploying
  <2>2. ASSUME NEW name \in Names PROVE Reached(chain', n, name, 0)
    <3>1. chain.owner[<<n, name>>] = Deployer
      BY <1>1, <1>4, <2>1 DEF SetOK, Names
    <3>2. 0 < Transferred(name) /\ 0 < Scheduled(name) /\ 0 # Scheduled(name) /\ ~(0 >= Executed(name))
          /\ ~(0 >= Transferred(name))
      BY DEF Transferred, Scheduled, Executed
    <3> QED BY <1>2, <2>1, <3>1, <3>2 DEF Fresh, Reached
  <2>3. Progress(chain, n, 0)'
    <3>1. Progress(chain', n, 0)
      BY <2>2 DEF Progress
    <3>2. now' >= now
      BY DEF deployTimelock, TypeOK
    <3> QED BY <3>1, <3>2, ProgressLater DEF TypeOK
  <2>4. Queued(n, 0)'
    BY <1>1, <2>3 DEF Queued
  <2>5. chain'.timelock[n] = Lock(run'.env) /\ 0 \in 0..Steps(chain'.timelock[n]) /\ run'.sent = 0
    BY <1>1, <1>2, <1>4, StepsType DEF HandoverOK, Deploying
  <2>6. /\ n \notin Described' /\ n \notin seen'.verified /\ n \notin seen'.accepted
        /\ ~(n > seen'.sets)
    BY <1>1, <1>4, <2>1 DEF SetOK, HandoverOK, Deploying
  <2> QED BY <1>1, <1>4, <2>4, <2>5, <2>6 DEF SetOK, Deploying, Handled
<1> QED BY <1>1, <1>3, <1>4 DEF HandoverOK, deployTimelock, Deploying

\* The next transaction of the hand-over.
LEMMA SendStep ==
  ASSUME TypeOK, TypeOK', HandoverOK, sendHandover
  PROVE  HandoverOK'
<1> USE TypeFields
<1> DEFINE m == run.n
           s == run.sent + 1
<1>1. /\ run'.n = m /\ run'.pc = "handover" /\ run.pc = "handover" /\ run'.sent = s
      /\ run'.env = run.env /\ Described' = Described /\ now' = now
      /\ scenario' = scenario
  BY DescribedSame DEF sendHandover, At, TypeOK, Run
<1>0. /\ seen'.sets = seen.sets /\ seen'.verified = seen.verified
      /\ \A n \in seen'.accepted : n \in seen.accepted \/ (n = m /\ s = Len(handover)
                                                         /\ deployerCanExecute(run.env))
  <2>1. seen' = seen \/ (/\ seen' = [seen EXCEPT !.accepted = seen.accepted \cup {m}]
                        /\ s = Len(handover) /\ deployerCanExecute(run.env))
    BY DEF sendHandover
  <2> HIDE DEF s
  <2> QED BY <2>1 DEF TypeOK, Observations
<1>2. chain.timelock[m] = Lock(run.env) /\ run.sent \in Nat /\ Queued(m, run.sent)
  <2>1. SetOK(m)
    BY DEF HandoverOK
  <2> QED BY <1>1, <2>1 DEF SetOK
<1>3. s \in 1..Steps(chain.timelock[m]) /\ handover[s] = HandoverTx(m, s)
  <2>1. /\ Len(handover) <= Steps(chain.timelock[m]) /\ run.sent < Len(handover)
        /\ Len(handover) \in {2, 6}
    BY <1>2, HandoverIs DEF sendHandover
  <2>2. s \in 1..Len(handover)
    BY <1>2, <2>1
  <2> QED BY <2>1, <2>2, StepsType, HandoverIs DEF sendHandover
<1>4. /\ \/ chain' = Apply(HandoverTx(m, s), chain) /\ mempool' = mempool /\ mempool = << >>
         \/ mempool' = Append(mempool, HandoverTx(m, s)) /\ chain' = chain
      /\ scenario.automine => mempool' = << >>
  <2>1. Send(HandoverTx(m, s))
    BY <1>3 DEF sendHandover
  <2> QED BY <2>1 DEF Send, HandoverOK
<1>5. /\ \A n \in Sets, t \in Nat : n = m /\ t = s => Queued(n, t)'
      /\ \A n \in Sets \ {m} : Keeps(n)
  <2>1. PICK t \in 1..Steps(chain.timelock[m]) : t = s
    BY <1>3
  <2>2. PICK k \in Sets : k = m
    OBVIOUS
  <2> HIDE DEF s, m
  <2>3. t - 1 = run.sent
    BY <1>2, <2>1 DEF s
  <2>4. Queued(k, t)' /\ \A n \in Sets \ {k} : Keeps(n)
    BY <1>1, <1>2, <1>4, <2>1, <2>2, <2>3, KeepsSend
  <2> QED BY <2>1, <2>2, <2>4
<1>6. ASSUME NEW n \in Sets, n # m PROVE SetOK(n)'
  <2>1. SetOK(n) /\ Keeps(n) /\ (Offered(n) => Offered(n)')
    BY <1>5, <1>6 DEF HandoverOK, Keeps, Offered
  <2>2. n \in seen'.accepted => n \in seen.accepted
    BY <1>0, <1>6
  <2> QED BY <1>0, <1>1, <1>6, <2>1, <2>2 DEF SetOK, Keeps, Deploying, Handled
<1>7. ASSUME NEW n \in Sets, n = m PROVE SetOK(n)'
  <2>1. SetOK(n)
    BY DEF HandoverOK
  <2>2. n \notin Described' /\ ~(n > seen'.sets)
    BY <1>0, <1>1, <1>7, <2>1 DEF SetOK, HandoverOK
  <2>3. chain'.timelock[n] = chain.timelock[n]
    <3>1. HandoverTx(m, s) \in Transaction
      BY <1>2, HandoverTxType
    <3> QED BY <1>4, <3>1, ApplyType DEF TypeOK
  <2>4. n \in seen'.verified => n <= seen'.sets /\ HandedOver(n)'
    <3>1. \A name \in Names : chain.owner[<<n, name>>] = Timelock(n)
                => chain'.owner[<<n, name>>] = Timelock(n)
      <4>1. HandoverTx(m, s) \in Transaction
        BY <1>2, HandoverTxType
      <4> QED BY <1>4, <4>1, OwnedKept DEF TypeOK
    <3> QED BY <1>0, <1>1, <2>1, <3>1 DEF SetOK, HandedOver
  <2>5. \E t \in 0..Steps(chain'.timelock[n]) : t = run'.sent /\ Queued(n, t)'
    <3>1. PICK t \in 0..Steps(chain.timelock[n]) : t = s
      BY <1>3, <1>7
    <3>2. Queued(n, t)'
      <4>1. t \in Nat
        BY StepsType
      <4> QED BY <1>5, <1>7, <3>1, <4>1
    <3> QED BY <1>1, <2>3, <3>1, <3>2
  <2>6. n \in seen'.accepted => n <= seen'.sets /\ Ready(n, 6)' /\ run'.sent = 6
    <3> SUFFICES ASSUME n \in seen'.accepted PROVE n <= seen'.sets /\ Ready(n, 6)' /\ run'.sent = 6
      OBVIOUS
    <3>1. Len(handover) = (IF deployerCanExecute(run.env) THEN 6 ELSE 2) /\ run.sent < Len(handover)
      BY HandoverIs DEF sendHandover
    <3>2. n \notin seen.accepted
      BY <1>1, <1>2, <1>7, <2>1, <3>1 DEF SetOK
    <3>3. s = 6
      BY <1>0, <3>1, <3>2
    <3>4. Queued(n, 6)' /\ 6 \in 0..Steps(chain'.timelock[n])
      BY <1>3, <1>5, <1>7, <2>3, <3>3, StepsType
    <3>5. n <= seen'.sets
      BY <1>0, <1>7, TypeFields DEF HandoverOK
    <3>6. run'.sent = 6
      BY <1>1, <3>3
    <3> HIDE DEF s, m
    <3> QED BY <3>4, <3>5, <3>6 DEF Ready
  <2> QED BY <1>1, <1>2, <1>7, <2>2, <2>3, <2>4, <2>5, <2>6 DEF SetOK, Deploying, Handled
<1> QED BY <1>0, <1>1, <1>4, <1>6, <1>7 DEF HandoverOK, Deploying

\* The steps of a script after the hand-over is sent, of the verifier, and a death.
LEMMA RestStep ==
  ASSUME TypeOK, TypeOK', HandoverOK, UNCHANGED <<scenario, now, chain, mempool>>,
         seen'.sets = seen.sets, seen'.accepted = seen.accepted, run'.n <= seen.sets,
         run'.pc \notin Deploying \cup {"handover"},
         \A n \in Sets : n = run'.n /\ run'.pc \in Handled => Offered(n),
         \A n \in Sets : n = run'.n /\ run'.pc = "verifyKey" /\ run'.ok => HandedOver(n),
         \A n \in Described' : n \in Described \/ (n = run.n /\ run.pc \in Handled),
         \A n \in seen'.verified : n \in seen.verified
                                   \/ (n = run.n /\ run.pc = "verifyKey" /\ run.ok)
  PROVE  HandoverOK'
<1>1. ASSUME NEW n \in Sets PROVE SetOK(n)'
  <2>1. SetOK(n) /\ Keeps(n) /\ run.n <= seen.sets
    BY KeepsQuiet DEF HandoverOK
  <2> QED BY <2>1, SetRests
<1> QED BY <1>1 DEF HandoverOK, Deploying

\* The script moves on between two points after the hand-over.
LEMMA HandledStep ==
  ASSUME TypeOK, TypeOK', HandoverOK, UNCHANGED <<scenario, now, chain, mempool>>,
         seen'.sets = seen.sets, seen'.verified = seen.verified, seen'.accepted = seen.accepted, run.pc \in Handled,
         run'.n = run.n, run'.pc \in Handled, Described' \subseteq Described
  PROVE  HandoverOK'
<1>1. run'.n <= seen.sets /\ \A n \in Sets : n = run'.n => Offered(n)
  BY DEF HandoverOK, SetOK
<1>2. run'.pc \notin Deploying \cup {"handover"} /\ run'.pc # "verifyKey"
  BY DEF Handled, Deploying
<1> QED BY <1>1, <1>2, RestStep

LEMMA HandledSteps ==
  ASSUME TypeOK, TypeOK', HandoverOK,
         chooseAgent \/ fundAgent \/ backupEnv \/ truncateEnv \/ upsertEnvVar
         \/ truncateDescriptor \/ writeDescriptor \/ die
  PROVE  HandoverOK'
<1>1. ASSUME chooseAgent PROVE HandoverOK'
  <2>1. run'.n = run.n /\ run'.pc \in {"fund", "describe"}
    <3>1. \/ run' = [run EXCEPT !.agent = LocalAgent, !.pc = "describe"]
          \/ run' = [run EXCEPT !.agent = run.envKey, !.pc = "fund"]
          \/ run' = [run EXCEPT !.agent = seen.keys + 1, !.pc = "fund"]
      BY <1>1 DEF chooseAgent
    <3> QED BY <3>1 DEF TypeOK, Run
  <2>2. seen'.sets = seen.sets /\ seen'.verified = seen.verified /\ seen'.accepted = seen.accepted
    BY <1>1 DEF chooseAgent, TypeOK, Observations
  <2>3. ASSUME NEW n \in Sets, n = run.n PROVE Offered(n)
    <3>1. SetOK(n) /\ run.pc = "handover" /\ run.sent = Len(handover)
      BY <1>1 DEF HandoverOK, chooseAgent, At
    <3>2. run.sent \in 2..6
      BY <1>1, <3>1, HandoverIs DEF chooseAgent
    <3>3. PICK s \in 0..Steps(chain.timelock[n]) : s = run.sent /\ Queued(n, s)
      BY <2>3, <3>1 DEF SetOK
    <3> QED BY <3>2, <3>3 DEF Ready, Offered
  <2>4. Described' = Described
    BY <1>1, DescribedSame DEF chooseAgent
  <2>5. run'.n <= seen.sets /\ run'.pc \notin Deploying \cup {"handover"} /\ run'.pc # "verifyKey"
    BY <2>1 DEF HandoverOK, Deploying
  <2> QED BY <1>1, <2>1, <2>2, <2>3, <2>4, <2>5, RestStep DEF chooseAgent
<1>2. ASSUME fundAgent PROVE HandoverOK'
  <2>1. run'.n = run.n /\ run'.pc \in Handled /\ run.pc \in Handled
    BY <1>2 DEF fundAgent, Goto, At, TypeOK, Run, Handled
  <2>2. seen'.sets = seen.sets /\ seen'.verified = seen.verified /\ seen'.accepted = seen.accepted
    <3>1. seen' = seen \/ seen' = [seen EXCEPT !.throwaway = seen.throwaway \cup {run.agent}]
      BY <1>2 DEF fundAgent
    <3> QED BY <3>1 DEF TypeOK, Observations
  <2>3. Described' = Described
    BY <1>2, DescribedSame DEF fundAgent
  <2> QED BY <1>2, <2>1, <2>2, <2>3, HandledStep DEF fundAgent
<1>3. ASSUME backupEnv PROVE HandoverOK'
  <2>1. run'.n = run.n /\ run'.pc \in Handled /\ run.pc \in Handled
    BY <1>3 DEF backupEnv, Goto, At, TypeOK, Run, Handled
  <2>2. files'.live = files.live /\ files'.staged = files.staged
    BY <1>3 DEF backupEnv, TypeOK, Files
  <2> QED BY <1>3, <2>1, <2>2, DescribedSame, HandledStep DEF backupEnv
<1>4. ASSUME truncateEnv PROVE HandoverOK'
  <2>1. run'.n = run.n /\ run'.pc \in Handled /\ run.pc \in Handled
    BY <1>4 DEF truncateEnv, Goto, At, TypeOK, Run, Handled
  <2>2. files'.live = files.live /\ files'.staged = files.staged
    BY <1>4 DEF truncateEnv, TypeOK, Files
  <2> QED BY <1>4, <2>1, <2>2, DescribedSame, HandledStep DEF truncateEnv
<1>5. ASSUME upsertEnvVar PROVE HandoverOK'
  <2>1. run'.n = run.n /\ run'.pc \in Handled /\ run.pc \in Handled
    BY <1>5 DEF upsertEnvVar, Goto, At, TypeOK, Run, Handled
  <2>2. files'.live = files.live /\ files'.staged = files.staged
    BY <1>5 DEF upsertEnvVar, TypeOK, Files
  <2>3. seen'.sets = seen.sets /\ seen'.verified = seen.verified /\ seen'.accepted = seen.accepted
    BY <1>5 DEF upsertEnvVar, TypeOK, Observations
  <2> QED BY <1>5, <2>1, <2>2, <2>3, DescribedSame, HandledStep DEF upsertEnvVar
<1>6. ASSUME truncateDescriptor PROVE HandoverOK'
  <2>1. run'.n = run.n /\ run'.pc \in Handled /\ run.pc \in Handled
    BY <1>6 DEF truncateDescriptor, Goto, At, TypeOK, Run, Handled
  <2>2. files'.live \in {files.live, Broken} /\ files'.staged \in {files.staged, Broken}
    BY <1>6 DEF truncateDescriptor, outPath, TypeOK, Files
  <2>3. Described' \subseteq Described
    BY <2>2 DEF Described, Readable, Broken
  <2> QED BY <1>6, <2>1, <2>3, HandledStep DEF truncateDescriptor
<1>7. ASSUME writeDescriptor PROVE HandoverOK'
  <2>1. run' = Idle /\ Idle.n = 0 /\ Idle.pc = "idle" /\ run.pc \in Handled
    BY <1>7 DEF writeDescriptor, At, Idle, Handled
  <2>2. files'.live \in {files.live, Description} /\ files'.staged \in {files.staged, Description}
    BY <1>7 DEF writeDescriptor, outPath, TypeOK, Files
  <2>3. Description.n = run.n
    BY DEF Description
  <2>4. \A n \in Described' : n \in Described \/ n = run.n
    <3> HIDE DEF Description
    <3> QED BY <2>2, <2>3 DEF Described, Readable, Broken
  <2>5. run'.pc \notin Deploying \cup {"handover"} /\ run'.pc \notin Handled /\ run'.pc # "verifyKey"
    BY <2>1 DEF Deploying, Handled
  <2>6. run'.n <= seen.sets
    BY <2>1, TypeFields
  <2> QED BY <1>7, <2>1, <2>4, <2>5, <2>6, RestStep DEF writeDescriptor
<1>8. ASSUME die PROVE HandoverOK'
  <2>1. run' = Idle /\ Idle.n = 0 /\ Idle.pc = "idle"
    BY <1>8 DEF die, Idle
  <2>2. run'.pc \notin Deploying \cup {"handover"} /\ run'.pc \notin Handled /\ run'.pc # "verifyKey"
    BY <2>1 DEF Deploying, Handled
  <2>3. run'.n <= seen.sets /\ Described' = Described
    BY <1>8, <2>1, TypeFields, DescribedSame DEF die
  <2> QED BY <1>8, <2>1, <2>2, <2>3, RestStep DEF die
<1> QED BY <1>1, <1>2, <1>3, <1>4, <1>5, <1>6, <1>7, <1>8

\* The chain moves, the script stands still.
LEMMA ChainStep ==
  ASSUME TypeOK, HandoverOK, \A n \in Sets : Keeps(n) /\ KeepsQueue(n), scenario' = scenario,
         run' = run, Described' = Described, seen'.sets = seen.sets, seen'.verified = seen.verified, seen'.accepted = seen.accepted,
         scenario.automine => mempool' = << >>
  PROVE  HandoverOK'
<1>1. ASSUME NEW n \in Sets PROVE SetOK(n)'
  BY SetStays DEF HandoverOK
<1> QED BY <1>1 DEF HandoverOK

LEMMA FinishSteps ==
  ASSUME TypeOK, TypeOK', HandoverOK, mine \/ Tick \/ readOwners \/ checkKey
  PROVE  HandoverOK'
<1>1. ASSUME mine PROVE HandoverOK'
  <2>1. Described' = Described
    BY <1>1, DescribedSame DEF mine
  <2>2. \A n \in Sets : Keeps(n) /\ KeepsQueue(n)
    BY <1>1, KeepsMine DEF mine
  <2>3. ~scenario.automine
    BY <1>1 DEF mine, HandoverOK
  <2> QED BY <1>1, <2>1, <2>2, <2>3, ChainStep DEF mine
<1>2. ASSUME Tick PROVE HandoverOK'
  <2>1. Described' = Described
    BY <1>2, DescribedSame DEF Tick
  <2>2. \A n \in Sets : Keeps(n) /\ KeepsQueue(n)
    <3>1. now' >= now
      BY <1>2 DEF Tick, TypeOK
    <3> QED BY <1>2, <3>1, KeepsElse DEF Tick
  <2> QED BY <1>2, <2>1, <2>2, ChainStep DEF Tick, HandoverOK
<1>3. ASSUME readOwners PROVE HandoverOK'
  <2> DEFINE m == files.live.n
             ok == HandedOver(m) /\ SurfaceOk(Code(m))
  <2>1. run'.n = m /\ run'.pc = "verifyKey" /\ run'.ok = ok
    BY <1>3 DEF readOwners, Idle
  <2>2. m \in Described /\ m \in Sets
    BY <1>3, TypeFields, ReadableIs DEF readOwners, Described
  <2>3. m <= seen.sets
    BY <2>2 DEF HandoverOK, SetOK
  <2>4. Described' = Described
    BY <1>3, DescribedSame DEF readOwners
  <2>5. run'.pc \notin Deploying \cup {"handover"} /\ run'.pc \notin Handled
    BY <2>1 DEF Deploying, Handled
  <2>6. \A n \in Sets : n = run'.n /\ run'.ok => HandedOver(n)
    BY <2>1
  <2> HIDE DEF m, ok
  <2> QED BY <1>3, <2>1, <2>3, <2>4, <2>5, <2>6, RestStep DEF readOwners
<1>4. ASSUME checkKey PROVE HandoverOK'
  <2>1. run' = Idle /\ Idle.n = 0 /\ Idle.pc = "idle" /\ run.pc = "verifyKey"
    BY <1>4 DEF checkKey, At, Idle
  <2>2. /\ seen'.sets = seen.sets /\ seen'.accepted = seen.accepted
        /\ \A n \in seen'.verified : n \in seen.verified \/ (n = run.n /\ run.ok)
    <3>1. seen' = seen \/ (run.ok /\ seen' = [seen EXCEPT !.verified = seen.verified \cup {run.n}])
      BY <1>4 DEF checkKey
    <3> QED BY <3>1 DEF TypeOK, Observations
  <2>3. Described' = Described
    BY <1>4, DescribedSame DEF checkKey
  <2>4. run'.pc \notin Deploying \cup {"handover"} /\ run'.pc \notin Handled /\ run'.pc # "verifyKey"
    BY <2>1 DEF Deploying, Handled
  <2>5. run'.n <= seen.sets
    BY <2>1, TypeFields
  <2> QED BY <1>4, <2>1, <2>2, <2>3, <2>4, <2>5, RestStep DEF checkKey
<1> QED BY <1>1, <1>2, <1>3, <1>4

LEMMA BuildStep ==
  ASSUME TypeOK, TypeOK', HandoverOK, NEW name, NEW delay, buildBatch(name, delay)
  PROVE  HandoverOK'
<1>1. files'.live = files.live /\ files'.staged = files.staged
  BY DEF buildBatch, TypeOK, Files
<1>2. seen'.sets = seen.sets /\ seen'.verified = seen.verified /\ seen'.accepted = seen.accepted
  BY DEF buildBatch, TypeOK, Observations
<1>3. Described' = Described
  BY <1>1, DescribedSame
<1>4. \A n \in Sets : Keeps(n) /\ KeepsQueue(n)
  BY KeepsQuiet DEF buildBatch
<1> QED BY <1>2, <1>3, <1>4, ChainStep DEF buildBatch, HandoverOK

LEMMA BatchStep ==
  ASSUME TypeOK, TypeOK', HandoverOK, NEW from \in {Safe, Deployer},
         NEW what \in {"schedule", "execute"}, submitBatch(from, what)
  PROVE  HandoverOK'
<1> DEFINE tx == [call |-> what, c |-> files.batch.c, from |-> from,
                  salt |-> files.batch.salt, delay |-> files.batch.delay]
<1>1. tx \in Transaction /\ tx.salt # 0 /\ tx.call # "transferOwnership"
  BY TypeFields DEF submitBatch, Batch, Transaction
<1>2. chain' = Apply(tx, chain)
  BY DEF submitBatch
<1> HIDE DEF tx
<1>3. UNCHANGED <<scenario, now, mempool, files, run, seen>>
  BY DEF submitBatch
<1>4. \A n \in Sets : Keeps(n) /\ KeepsQueue(n)
  BY <1>1, <1>2, <1>3, KeepsBatch
<1>5. Described' = Described
  BY <1>3, DescribedSame
<1> QED BY <1>3, <1>4, <1>5, ChainStep DEF HandoverOK

LEMMA HandoverStep == TypeOK /\ TypeOK' /\ HandoverOK /\ DeploymentNext => HandoverOK'
BY BeginStep, ContractStep, TimelockStep, SendStep, HandledSteps, FinishSteps, BuildStep, BatchStep
   DEF DeploymentNext, Deploy, Finish, Names

LEMMA HandoverStutter == ASSUME HandoverOK, UNCHANGED vars PROVE HandoverOK'
<1>1. UNCHANGED <<scenario, now, chain, mempool, files, run, seen>>
  BY DEF vars
<1>2. Described' = Described
  BY <1>1, DescribedSame
<1>3. ASSUME NEW n \in Sets PROVE SetOK(n)'
  <2>1. SetOK(n)
    BY DEF HandoverOK
  <2>2. \A k : Progress(chain, n, k)' <=> Progress(chain, n, k)
    BY <1>1 DEF Progress, Reached
  <2>3. /\ \A s : Queued(n, s)' <=> Queued(n, s)
        /\ Foreign(n)' <=> Foreign(n)
        /\ Untouched(n)' <=> Untouched(n)
        /\ HandedOver(n)' <=> HandedOver(n)
    BY <1>1, <2>2 DEF Queued, Foreign, Untouched, Fresh, HandedOver
  <2>4. (\A s : Ready(n, s)' <=> Ready(n, s)) /\ (Offered(n)' <=> Offered(n))
    BY <1>1, <2>2, <2>3 DEF Ready, Offered
  <2> QED BY <1>1, <1>2, <2>1, <2>3, <2>4 DEF SetOK
<1> QED BY <1>1, <1>3 DEF HandoverOK

LEMMA HandedOverAtLast == TypeOK /\ HandoverOK => DescribedIsHandedOver
<1> DEFINE final == Mined(mempool, chain)
<1> SUFFICES ASSUME TypeOK, HandoverOK PROVE DescribedIsHandedOver
  OBVIOUS
<1>1. \A n \in seen.verified : HandedOver(n)
  BY TypeFields DEF HandoverOK, SetOK
<1>2. ASSUME NEW n \in seen.accepted, NEW name \in Names PROVE final.owner[<<n, name>>] = Timelock(n)
  <2>1. n \in Sets /\ Ready(n, 6)
    BY TypeFields DEF HandoverOK, SetOK
  <2>2. Reached(final, n, name, 6)
    BY <2>1, ReadyMined DEF Progress
  <2>3. 6 >= Executed(name)
    BY DEF Executed
  <2> HIDE DEF final
  <2> QED BY <2>2, <2>3 DEF Reached
<1>3. ASSUME NEW d \in {files.live, files.staged}, Readable(d), NEW name \in Names
      PROVE  Timelock(d.n) \in {final.owner[<<d.n, name>>], final.pendingOwner[<<d.n, name>>]}
  <2>1. d.n \in Sets /\ d.n \in Described
    BY <1>3, TypeFields, ReadableIs DEF Described
  <2>2. PICK s \in 2..6 : Ready(d.n, s)
    BY <2>1 DEF HandoverOK, SetOK, Offered
  <2>3. Reached(final, d.n, name, s)
    <3>1. s \in Nat
      OBVIOUS
    <3> QED BY <2>1, <2>2, <3>1, ReadyMined DEF Progress
  <2>4. s >= Transferred(name)
    BY DEF Transferred
  <2> HIDE DEF final
  <2> QED BY <2>3, <2>4 DEF Reached
<1> QED BY <1>1, <1>2, <1>3 DEF DescribedIsHandedOver

\* What is verified belongs to its timelock; what a script has called accepted does once
\* the queue is mined, wherever the script died; what a file describes is offered to its
\* timelock by then.  (deploy-base-sepolia.ts:179-205, verify-deployment.mjs:76-84)
THEOREM HandoverKept == Spec => []DescribedIsHandedOver
<1>1. Init2 => HandoverOK
  BY InitHandover DEF Init2
<1>2. TypeOK /\ TypeOK' /\ HandoverOK /\ [Next]_allVars => HandoverOK'
  BY NextCases, HandoverStep, HandoverStutter DEF allVars
<1> QED BY <1>1, <1>2, HandedOverAtLast, TypesKept, PTL DEF Spec

-----------------------------------------------------------------------------
(* The ruling oracle *)

Lists == ReviewerLists \cup {LocalReviewers, << >>}
Account == {Deployer, Safe, NoOne}
Panel == [owner : Account, oracle : Nat, reviewers : Lists]
Oracle == [owner : Account, escalation : Nat, bond : Nat]
Layers == {"none", "panel", "external", "mock", "newPanel"}

Wiring == {"panelOwner", "panelOracle", "setOracle", "setReviewers"}
Late == {"bond", "deposit", "write", "writeRuling"}
Placed == {"wireMock"} \cup Wiring \cup Late
JobPoints ==
    {"idle", "deployPanel", "configure", "writePanel", "escalation", "oracle"} \cup Placed

Job == [pc : JobPoints, owner : Account, layer : Layers, panel : Nat, oracle : Nat,
        reviewers : Lists, bond : BOOLEAN]

\* What the script has found or done when it reaches each point still stands there,
\* whatever the owners of other panels do.
WiredOK ==
    /\ panels \in Seq(Panel) /\ oracles \in Seq(Oracle) /\ job \in Job /\ "ruling" \in DOMAIN papers
    /\ job.pc = "escalation" => job.panel \in 0..Len(panels)
    /\ job.pc \in {"configure", "oracle"} \cup Placed => job.panel \in 1..Len(panels)
    /\ job.pc \in Placed =>
            job.oracle \in 1..Len(oracles) /\ oracles[job.oracle].escalation = job.panel
    /\ job.pc = "wireMock" => job.layer = "mock"
    /\ job.pc \in Wiring => Wires(job.layer)
    /\ \/ job.pc \in Wiring \ {"panelOwner"}
       \/ job.pc \in Late /\ Wires(job.layer)
       => panels[job.panel].owner = Deployer
    /\ \/ job.pc = "setReviewers"
       \/ job.pc \in Late /\ (Wires(job.layer) \/ job.layer = "mock")
       => panels[job.panel].oracle = job.oracle
    /\ job.pc \in Late /\ Wires(job.layer) => panels[job.panel].reviewers = job.reviewers
    /\ job.pc \in {"write", "writeRuling"} /\ job.bond => oracles[job.oracle].bond >= 1

LEMMA OracleSet ==
  ASSUME panels \in Seq(Panel), NEW p \in 1..Len(panels), NEW o \in Nat,
         panels' = [panels EXCEPT ![p].oracle = o]
  PROVE  /\ panels' \in Seq(Panel) /\ Len(panels') = Len(panels) /\ panels'[p].oracle = o
         /\ \A q \in 1..Len(panels) :
                /\ panels'[q].owner = panels[q].owner /\ panels'[q].reviewers = panels[q].reviewers
                /\ q # p => panels'[q].oracle = panels[q].oracle
<1> DEFINE rec == [panels[p] EXCEPT !.oracle = o]
<1>1. panels[p] \in Panel
  OBVIOUS
<1>2. /\ rec \in Panel /\ rec.oracle = o /\ rec.owner = panels[p].owner
      /\ rec.reviewers = panels[p].reviewers
  BY <1>1 DEF Panel
<1>3. panels' = [panels EXCEPT ![p] = rec]
  OBVIOUS
<1> HIDE DEF rec
<1> QED BY <1>2, <1>3

LEMMA ReviewersSet ==
  ASSUME panels \in Seq(Panel), NEW p \in 1..Len(panels), NEW list \in Lists,
         panels' = [panels EXCEPT ![p].reviewers = list]
  PROVE  /\ panels' \in Seq(Panel) /\ Len(panels') = Len(panels) /\ panels'[p].reviewers = list
         /\ \A q \in 1..Len(panels) :
                /\ panels'[q].owner = panels[q].owner /\ panels'[q].oracle = panels[q].oracle
                /\ q # p => panels'[q].reviewers = panels[q].reviewers
<1> DEFINE rec == [panels[p] EXCEPT !.reviewers = list]
<1>1. panels[p] \in Panel
  OBVIOUS
<1>2. /\ rec \in Panel /\ rec.reviewers = list /\ rec.owner = panels[p].owner
      /\ rec.oracle = panels[p].oracle
  BY <1>1 DEF Panel
<1>3. panels' = [panels EXCEPT ![p] = rec]
  OBVIOUS
<1> HIDE DEF rec
<1> QED BY <1>2, <1>3

LEMMA BondSet ==
  ASSUME oracles \in Seq(Oracle), NEW o \in 1..Len(oracles),
         oracles' = [oracles EXCEPT ![o].bond = oracles[o].bond + 1]
  PROVE  /\ oracles' \in Seq(Oracle) /\ Len(oracles') = Len(oracles) /\ oracles'[o].bond >= 1
         /\ oracles'[o].escalation = oracles[o].escalation
<1> DEFINE old == oracles[o]
           more == old.bond + 1
           rec == [old EXCEPT !.bond = more]
<1>1. old \in Oracle
  OBVIOUS
<1>2. more \in Nat /\ more >= 1
  <2> HIDE DEF old
  <2>1. old.bond \in Nat
    BY <1>1 DEF Oracle
  <2> QED BY <2>1
<1>3. rec \in Oracle /\ rec.bond = more /\ rec.escalation = old.escalation
  <2> HIDE DEF old, more
  <2> QED BY <1>1, <1>2 DEF Oracle
<1>4. oracles' = [oracles EXCEPT ![o] = rec]
  OBVIOUS
<1> HIDE DEF more, rec
<1>5. oracles' \in Seq(Oracle) /\ Len(oracles') = Len(oracles) /\ oracles'[o] = rec
  <2> HIDE DEF old
  <2> QED BY <1>3, <1>4
<1> QED BY <1>2, <1>3, <1>5

\* The script moves on and changes nothing else of its own.
LEMMA ThenDoes ==
  ASSUME job \in Job, NEW pc \in JobPoints, Then(pc)
  PROVE  /\ job' \in Job /\ job'.pc = pc /\ job'.layer = job.layer /\ job'.panel = job.panel
         /\ job'.oracle = job.oracle /\ job'.reviewers = job.reviewers /\ job'.bond = job.bond
BY DEF Job, Then

LEMMA NoJobIs == NoJob \in Job /\ NoJob.pc = "idle"
BY DEF NoJob, Job, JobPoints, Account, Layers, Lists, NoPanel

LEMMA WiredTypes ==
  ASSUME WiredOK
  PROVE  /\ panels \in Seq(Panel) /\ oracles \in Seq(Oracle) /\ job \in Job
         /\ "ruling" \in DOMAIN papers /\ Len(panels) \in Nat /\ Len(oracles) \in Nat
         /\ job.owner \in Account /\ job.panel \in Nat /\ job.oracle \in Nat
         /\ job.reviewers \in Lists
<1>1. /\ panels \in Seq(Panel) /\ oracles \in Seq(Oracle) /\ job \in Job
      /\ "ruling" \in DOMAIN papers
  BY DEF WiredOK
<1>2. /\ job.owner \in Account /\ job.panel \in Nat /\ job.oracle \in Nat
      /\ job.reviewers \in Lists
  BY <1>1 DEF Job
<1> QED BY <1>1, <1>2

\* The steps that deploy and wire a panel or a mock.
LEMMA DeployPanelWired ==
  ASSUME WiredOK, deployPanel
  PROVE  WiredOK'
<1> DEFINE panel == [owner |-> job.owner, oracle |-> 0, reviewers |-> << >>]
           pc == IF job.owner = Deployer THEN "configure" ELSE "writePanel"
           first == Len(panels) + 1
<1>1. panel \in Panel /\ pc \in {"configure", "writePanel"} /\ first \in Nat
  BY WiredTypes DEF Panel, Lists
<1>2. panels' = Append(panels, panel) /\ job' = [job EXCEPT !.panel = first, !.pc = pc]
  BY DEF deployPanel
<1> HIDE DEF panel, pc
<1>3. panels' \in Seq(Panel) /\ Len(panels') = first
  BY WiredTypes, <1>1, <1>2
<1>4. first \in 1..Len(panels')
  BY WiredTypes, <1>3
<1> HIDE DEF first
<1>5. job' \in Job /\ job'.pc = pc /\ job'.panel = first
  BY WiredTypes, <1>1, <1>2 DEF Job, JobPoints
<1> QED BY WiredTypes, <1>1, <1>3, <1>4, <1>5 DEF WiredOK, Placed, Wiring, Late, deployPanel

LEMMA ConfigurePanelWired ==
  ASSUME WiredOK, configurePanel
  PROVE  WiredOK'
<1>1. panels' \in Seq(Panel)
  <2>1. job.panel \in 1..Len(panels)
    BY DEF WiredOK, configurePanel, On
  <2> QED BY WiredTypes, <2>1, ReviewersSet DEF configurePanel
<1>2. job' \in Job /\ job'.pc = "writePanel"
  BY WiredTypes, ThenDoes DEF configurePanel, JobPoints
<1> QED BY WiredTypes, <1>1, <1>2 DEF WiredOK, Placed, Wiring, Late, configurePanel

LEMMA WritePanelFileWired ==
  ASSUME WiredOK, writePanelFile
  PROVE  WiredOK'
<1>1. DOMAIN papers' = DOMAIN papers /\ job' \in Job /\ job'.pc = "idle"
  BY NoJobIs DEF writePanelFile
<1> QED BY WiredTypes, <1>1 DEF WiredOK, Placed, Wiring, Late, writePanelFile

LEMMA GiveUpWired ==
  ASSUME WiredOK, giveUp
  PROVE  WiredOK'
<1>1. job' \in Job /\ job'.pc = "idle"
  BY NoJobIs DEF giveUp
<1> QED BY WiredTypes, <1>1 DEF WiredOK, Placed, Wiring, Late, giveUp

LEMMA DeployEscalationWired ==
  ASSUME WiredOK, deployEscalation
  PROVE  WiredOK'
<1>1. CASE job.panel # NoPanel
  <2>1. job' \in Job /\ job'.pc = "oracle" /\ job'.panel = job.panel /\ panels' = panels
    BY WiredTypes, <1>1, ThenDoes DEF deployEscalation, JobPoints
  <2>2. job'.panel \in 1..Len(panels)
    BY WiredTypes, <1>1, <2>1 DEF WiredOK, deployEscalation, On, NoPanel
  <2> QED BY WiredTypes, <2>1, <2>2 DEF WiredOK, Placed, Wiring, Late, deployEscalation
<1>2. CASE job.panel = NoPanel
  <2> DEFINE owner == IF job.layer = "mock" THEN NoOne ELSE job.owner
             panel == [owner |-> owner, oracle |-> 0, reviewers |-> << >>]
             first == Len(panels) + 1
  <2>1. panel \in Panel /\ first \in Nat
    BY WiredTypes DEF Panel, Lists, Account
  <2>2. panels' = Append(panels, panel) /\ job' = [job EXCEPT !.panel = first, !.pc = "oracle"]
    BY <1>2 DEF deployEscalation
  <2> HIDE DEF panel
  <2>3. panels' \in Seq(Panel) /\ Len(panels') = first
    BY WiredTypes, <2>1, <2>2
  <2> HIDE DEF first
  <2>4. job' \in Job /\ job'.pc = "oracle" /\ job'.panel = first
    BY WiredTypes, <2>1, <2>2 DEF Job, JobPoints
  <2>5. job'.panel \in 1..Len(panels')
    BY WiredTypes, <2>3, <2>4 DEF first
  <2> QED BY WiredTypes, <2>3, <2>4, <2>5 DEF WiredOK, Placed, Wiring, Late, deployEscalation
<1> QED BY <1>1, <1>2

LEMMA DeployOracleWired ==
  ASSUME WiredOK, deployOracle
  PROVE  WiredOK'
<1> DEFINE oracle == [owner |-> job.owner, escalation |-> job.panel, bond |-> 0]
           first == Len(oracles) + 1
           pc == CASE job.layer = "mock" -> "wireMock"
                   [] Wires(job.layer) -> "panelOwner"
                   [] OTHER -> "bond"
<1>1. oracle \in Oracle /\ first \in Nat /\ oracle.escalation = job.panel
  BY WiredTypes DEF Oracle
<1>2. \/ pc = "wireMock" /\ job.layer = "mock"
      \/ pc = "panelOwner" /\ Wires(job.layer)
      \/ pc = "bond" /\ ~Wires(job.layer) /\ job.layer # "mock"
  BY DEF Wires
<1>3. oracles' = Append(oracles, oracle) /\ job' = [job EXCEPT !.oracle = first, !.pc = pc]
  BY DEF deployOracle
<1> HIDE DEF oracle, pc
<1>4. oracles' \in Seq(Oracle) /\ Len(oracles') = first /\ oracles'[first] = oracle
  BY WiredTypes, <1>1, <1>3
<1> HIDE DEF first
<1>5. /\ job' \in Job /\ job'.pc = pc /\ job'.oracle = first /\ job'.panel = job.panel
      /\ job'.layer = job.layer
  BY WiredTypes, <1>1, <1>2, <1>3 DEF Job, JobPoints, Placed, Wiring, Late
<1>6. job.panel \in 1..Len(panels) /\ first \in 1..Len(oracles')
  BY WiredTypes, <1>4 DEF WiredOK, deployOracle, On, first
<1> QED BY WiredTypes, <1>1, <1>2, <1>4, <1>5, <1>6
        DEF WiredOK, Placed, Wiring, Late, deployOracle

LEMMA WireMockWired ==
  ASSUME WiredOK, wireMock
  PROVE  WiredOK'
<1>1. job.panel \in 1..Len(panels) /\ job.layer = "mock" /\ job.oracle \in Nat
  BY WiredTypes DEF WiredOK, wireMock, On, Placed, Job
<1>2. panels' \in Seq(Panel) /\ Len(panels') = Len(panels) /\ panels'[job.panel].oracle = job.oracle
  BY WiredTypes, <1>1, OracleSet DEF wireMock
<1>3. /\ job' \in Job /\ job'.pc = "bond" /\ job'.layer = job.layer /\ job'.panel = job.panel
      /\ job'.oracle = job.oracle
  <2>1. "bond" \in JobPoints
    BY DEF JobPoints, Placed, Late
  <2> QED BY WiredTypes, <2>1, ThenDoes DEF wireMock
<1>4. job.oracle \in 1..Len(oracles) /\ oracles[job.oracle].escalation = job.panel
  BY DEF WiredOK, wireMock, On, Placed
<1>5. ~Wires(job.layer)
  BY <1>1 DEF Wires
<1> QED BY WiredTypes, <1>1, <1>2, <1>3, <1>4, <1>5
        DEF WiredOK, Placed, Wiring, Late, wireMock

\* The steps of the script on what it has deployed.
LEMMA PanelBeginWired ==
  ASSUME WiredOK, NEW owner \in {Deployer, Safe}, NEW list \in ReviewerLists \cup {<< >>},
         panelBegin(owner, list)
  PROVE  WiredOK'
<1> DEFINE some == IF list = << >> THEN LocalReviewers ELSE list
<1>1. some \in Lists
  BY DEF Lists
<1>2. job' = [NoJob EXCEPT !.pc = "deployPanel", !.owner = owner, !.reviewers = some]
  BY DEF panelBegin
<1> HIDE DEF some
<1>3. job' \in Job /\ job'.pc = "deployPanel"
  BY <1>1, <1>2, NoJobIs DEF Job, JobPoints, Account
<1> QED BY WiredTypes, <1>3 DEF WiredOK, Placed, Wiring, Late, panelBegin

LEMMA RulingBeginWired ==
  ASSUME WiredOK, NEW p \in 0..Len(panels), NEW env \in RulingEnv(p), rulingBegin(env)
  PROVE  WiredOK'
<1> DEFINE layer == appealLayer(env)
           some == CASE ~Wires(layer) -> << >>
                     [] Wires(layer) /\ env.reviewers # << >> -> env.reviewers
                     [] OTHER -> LocalReviewers
           bond == env.bond \/ isLocal
<1>1. /\ env.owner \in Account /\ env.escalation = p /\ env.mock \in BOOLEAN /\ env.bond \in BOOLEAN
      /\ env.reviewers \in Lists
  BY DEF RulingEnv, Account, Lists
<1>2. layer \in Layers
  BY <1>1 DEF appealLayer, Layers
<1>3. some \in Lists
  <2> HIDE DEF layer
  <2> QED BY <1>1 DEF Lists
<1>4. bond \in BOOLEAN
  BY <1>1 DEF isLocal
<1>5. job' = [pc |-> "escalation", owner |-> env.owner, layer |-> layer, panel |-> env.escalation,
              oracle |-> 0, bond |-> bond, reviewers |-> some]
  BY DEF rulingBegin
<1> HIDE DEF layer, some, bond
<1>6. job' \in Job /\ job'.pc = "escalation" /\ job'.panel = p
  BY WiredTypes, <1>1, <1>2, <1>3, <1>4, <1>5 DEF Job, JobPoints
<1>7. UNCHANGED <<panels, oracles, papers>>
  BY DEF rulingBegin
<1> QED BY WiredTypes, <1>6, <1>7 DEF WiredOK, Placed, Wiring, Late

LEMMA ReadPanelOwnerWired ==
  ASSUME WiredOK, readPanelOwner
  PROVE  WiredOK'
<1>1. "panelOracle" \in JobPoints
  BY DEF JobPoints, Placed, Wiring
<1>2. /\ job' \in Job /\ job'.pc = "panelOracle" /\ job'.layer = job.layer /\ job'.panel = job.panel
      /\ job'.oracle = job.oracle
  BY WiredTypes, <1>1, ThenDoes DEF readPanelOwner
<1>3. job.pc = "panelOwner" /\ panels[job.panel].owner = Deployer /\ UNCHANGED <<panels, oracles, papers>>
  BY DEF readPanelOwner, On
<1> QED BY WiredTypes, <1>2, <1>3 DEF WiredOK, Placed, Wiring, Late

LEMMA ReadPanelOracleWired ==
  ASSUME WiredOK, readPanelOracle
  PROVE  WiredOK'
<1> DEFINE pc == IF panels[job.panel].oracle = 0 THEN "setOracle" ELSE "setReviewers"
<1>1. pc \in JobPoints /\ Then(pc)
  BY DEF JobPoints, Placed, Wiring, readPanelOracle
<1>2. /\ job' \in Job /\ job'.pc = pc /\ job'.layer = job.layer /\ job'.panel = job.panel
      /\ job'.oracle = job.oracle
  <2> HIDE DEF pc
  <2> QED BY WiredTypes, <1>1, ThenDoes
<1>3. /\ job.pc = "panelOracle" /\ panels[job.panel].oracle \in {0, job.oracle}
      /\ UNCHANGED <<panels, oracles, papers>>
  BY DEF readPanelOracle, On
<1>4. job'.pc = "setReviewers" => panels[job.panel].oracle = job.oracle
  BY <1>2, <1>3
<1>5. job'.pc \in {"setOracle", "setReviewers"}
  BY <1>2
<1> HIDE DEF pc
<1> QED BY WiredTypes, <1>2, <1>3, <1>4, <1>5 DEF WiredOK, Placed, Wiring, Late

LEMMA SetOracleWired ==
  ASSUME WiredOK, setOracle
  PROVE  WiredOK'
<1>1. "setReviewers" \in JobPoints
  BY DEF JobPoints, Placed, Wiring
<1>2. /\ job' \in Job /\ job'.pc = "setReviewers" /\ job'.layer = job.layer /\ job'.panel = job.panel
      /\ job'.oracle = job.oracle
  BY WiredTypes, <1>1, ThenDoes DEF setOracle
<1>3. job.pc = "setOracle" /\ UNCHANGED <<oracles, papers>>
  BY DEF setOracle, On
<1>4. job.panel \in 1..Len(panels) /\ panels[job.panel].owner = Deployer
  BY <1>3 DEF WiredOK, Placed, Wiring
<1>5. /\ panels' \in Seq(Panel) /\ Len(panels') = Len(panels)
      /\ panels'[job.panel].oracle = job.oracle /\ panels'[job.panel].owner = Deployer
  BY WiredTypes, <1>4, OracleSet DEF setOracle, SetOracle
<1> QED BY WiredTypes, <1>2, <1>3, <1>4, <1>5 DEF WiredOK, Placed, Wiring, Late

LEMMA SetReviewersWired ==
  ASSUME WiredOK, setReviewers
  PROVE  WiredOK'
<1>1. "bond" \in JobPoints
  BY DEF JobPoints, Placed, Late
<1>2. /\ job' \in Job /\ job'.pc = "bond" /\ job'.layer = job.layer /\ job'.panel = job.panel
      /\ job'.oracle = job.oracle /\ job'.reviewers = job.reviewers
  BY WiredTypes, <1>1, ThenDoes DEF setReviewers
<1>3. job.pc = "setReviewers" /\ UNCHANGED <<oracles, papers>>
  BY DEF setReviewers, On
<1>4. /\ job.panel \in 1..Len(panels) /\ panels[job.panel].owner = Deployer
      /\ panels[job.panel].oracle = job.oracle
  BY <1>3 DEF WiredOK, Placed, Wiring
<1>5. /\ panels' \in Seq(Panel) /\ Len(panels') = Len(panels)
      /\ panels'[job.panel].oracle = job.oracle /\ panels'[job.panel].owner = Deployer
      /\ panels'[job.panel].reviewers = job.reviewers
  BY WiredTypes, <1>4, ReviewersSet DEF setReviewers, SetReviewers
<1> QED BY WiredTypes, <1>2, <1>3, <1>4, <1>5 DEF WiredOK, Placed, Wiring, Late

LEMMA PrepareBondWired ==
  ASSUME WiredOK, prepareBond
  PROVE  WiredOK'
<1>1. "write" \in JobPoints /\ "deposit" \in JobPoints
  BY DEF JobPoints, Placed, Late
<1>2. job.pc = "bond" /\ UNCHANGED <<panels, oracles, papers>>
  BY DEF prepareBond, On
<1>3. CASE ~job.bond /\ Then("write")
  <2>1. /\ job' \in Job /\ job'.pc = "write" /\ job'.layer = job.layer /\ job'.panel = job.panel
        /\ job'.oracle = job.oracle /\ job'.reviewers = job.reviewers /\ job'.bond = job.bond
    BY WiredTypes, <1>1, <1>3, ThenDoes
  <2> QED BY WiredTypes, <1>2, <1>3, <2>1 DEF WiredOK, Placed, Wiring, Late
<1>4. CASE Then("deposit")
  <2>1. /\ job' \in Job /\ job'.pc = "deposit" /\ job'.layer = job.layer /\ job'.panel = job.panel
        /\ job'.oracle = job.oracle /\ job'.reviewers = job.reviewers
    BY WiredTypes, <1>1, <1>4, ThenDoes
  <2> QED BY WiredTypes, <1>2, <2>1 DEF WiredOK, Placed, Wiring, Late
<1> QED BY <1>3, <1>4 DEF prepareBond

LEMMA DepositBondWired ==
  ASSUME WiredOK, depositBond
  PROVE  WiredOK'
<1>1. "write" \in JobPoints
  BY DEF JobPoints, Placed, Late
<1>2. /\ job' \in Job /\ job'.pc = "write" /\ job'.layer = job.layer /\ job'.panel = job.panel
      /\ job'.oracle = job.oracle /\ job'.reviewers = job.reviewers
  BY WiredTypes, <1>1, ThenDoes DEF depositBond
<1>3. job.pc = "deposit" /\ UNCHANGED <<panels, papers>>
  BY DEF depositBond, On
<1>4. job.oracle \in 1..Len(oracles)
  BY <1>3 DEF WiredOK, Placed, Late
<1>5. /\ oracles' \in Seq(Oracle) /\ Len(oracles') = Len(oracles)
      /\ oracles'[job.oracle].bond >= 1
      /\ oracles'[job.oracle].escalation = oracles[job.oracle].escalation
  BY WiredTypes, <1>4, BondSet DEF depositBond
<1> QED BY WiredTypes, <1>2, <1>3, <1>4, <1>5 DEF WiredOK, Placed, Wiring, Late

LEMMA TruncateRulingFileWired ==
  ASSUME WiredOK, truncateRulingFile
  PROVE  WiredOK'
<1>1. "writeRuling" \in JobPoints
  BY DEF JobPoints, Placed, Late
<1>2. /\ job' \in Job /\ job'.pc = "writeRuling" /\ job'.layer = job.layer /\ job'.panel = job.panel
      /\ job'.oracle = job.oracle /\ job'.reviewers = job.reviewers /\ job'.bond = job.bond
  BY WiredTypes, <1>1, ThenDoes DEF truncateRulingFile
<1>3. job.pc = "write" /\ UNCHANGED <<panels, oracles>> /\ DOMAIN papers' = DOMAIN papers
  BY DEF truncateRulingFile, On
<1> QED BY WiredTypes, <1>2, <1>3 DEF WiredOK, Placed, Wiring, Late

LEMMA WriteRulingFileWired ==
  ASSUME WiredOK, writeRulingFile
  PROVE  WiredOK'
<1>1. UNCHANGED <<panels, oracles>> /\ DOMAIN papers' = DOMAIN papers /\ job' = NoJob
  BY DEF writeRulingFile
<1> QED BY WiredTypes, NoJobIs, <1>1 DEF WiredOK, Placed, Wiring, Late

\* The owner of another panel sets an oracle only where none is set, and is not the deployer.
LEMMA PanelOwnerActsWired ==
  ASSUME WiredOK, panelOwnerActs
  PROVE  WiredOK'
<1>1. UNCHANGED <<oracles, papers, job>>
  BY DEF panelOwnerActs
<1>2. /\ panels' \in Seq(Panel) /\ Len(panels') = Len(panels)
      /\ \A q \in 1..Len(panels) :
            /\ panels'[q].owner = panels[q].owner
            /\ panels[q].oracle # 0 => panels'[q].oracle = panels[q].oracle
            /\ panels[q].owner = Deployer => panels'[q].reviewers = panels[q].reviewers
  <2>1. PICK p \in DOMAIN panels :
          \/ \E o \in DOMAIN oracles : SetOracle(p, o, Safe)
          \/ \E list \in ReviewerLists : SetReviewers(p, list, Safe)
    BY DEF panelOwnerActs
  <2>2. p \in 1..Len(panels) /\ \A o \in DOMAIN oracles : o \in Nat
    BY WiredTypes
  <2>3. ASSUME NEW o \in Nat, SetOracle(p, o, Safe)
        PROVE  /\ panels' \in Seq(Panel) /\ Len(panels') = Len(panels)
               /\ \A q \in 1..Len(panels) :
                    /\ panels'[q].owner = panels[q].owner
                    /\ panels[q].oracle # 0 => panels'[q].oracle = panels[q].oracle
                    /\ panels[q].owner = Deployer => panels'[q].reviewers = panels[q].reviewers
    <3>1. panels[p].oracle = 0 /\ panels' = [panels EXCEPT ![p].oracle = o]
      BY <2>3 DEF SetOracle
    <3>2. /\ panels' \in Seq(Panel) /\ Len(panels') = Len(panels)
          /\ \A q \in 1..Len(panels) :
                /\ panels'[q].owner = panels[q].owner /\ panels'[q].reviewers = panels[q].reviewers
                /\ q # p => panels'[q].oracle = panels[q].oracle
      BY WiredTypes, <2>2, <3>1, OracleSet
    <3> QED BY <3>1, <3>2
  <2>4. ASSUME NEW list \in Lists, SetReviewers(p, list, Safe)
        PROVE  /\ panels' \in Seq(Panel) /\ Len(panels') = Len(panels)
               /\ \A q \in 1..Len(panels) :
                    /\ panels'[q].owner = panels[q].owner
                    /\ panels[q].oracle # 0 => panels'[q].oracle = panels[q].oracle
                    /\ panels[q].owner = Deployer => panels'[q].reviewers = panels[q].reviewers
    <3>1. panels[p].owner # Deployer /\ panels' = [panels EXCEPT ![p].reviewers = list]
      BY <2>4, OwnersAssumption DEF SetReviewers
    <3> QED BY WiredTypes, <2>2, <3>1, ReviewersSet
  <2> QED BY <2>1, <2>2, <2>3, <2>4 DEF Lists
<1>3. job.pc \in Placed => job.panel \in 1..Len(panels) /\ job.oracle # 0
  BY WiredTypes DEF WiredOK
<1> QED BY WiredTypes, <1>1, <1>2, <1>3 DEF WiredOK, Placed, Wiring, Late

LEMMA WiredInit == Init2 => WiredOK
<1> SUFFICES ASSUME Init2 PROVE WiredOK
  OBVIOUS
<1>1. panels = << >> /\ oracles = << >> /\ job = NoJob /\ "ruling" \in DOMAIN papers
  BY DEF Init2, RulingInit
<1> QED BY <1>1, NoJobIs DEF WiredOK, Placed, Wiring, Late

LEMMA WiredStep ==
  ASSUME WiredOK, RulingNext
  PROVE  WiredOK'
<1>1. ASSUME NEW owner \in {Deployer, Safe}, NEW list \in ReviewerLists \cup {<< >>},
             panelBegin(owner, list)
      PROVE  WiredOK'
  BY <1>1, PanelBeginWired
<1>2. ASSUME NEW p \in DOMAIN panels \cup {NoPanel}, NEW env \in RulingEnv(p), rulingBegin(env)
      PROVE  WiredOK'
  <2>1. p \in 0..Len(panels)
    BY WiredTypes DEF NoPanel
  <2> QED BY <1>2, <2>1, RulingBeginWired
<1>3. ASSUME \/ deployPanel \/ configurePanel \/ writePanelFile
             \/ deployEscalation \/ deployOracle \/ wireMock
             \/ readPanelOwner \/ readPanelOracle \/ setOracle \/ setReviewers
             \/ prepareBond \/ depositBond \/ truncateRulingFile \/ writeRulingFile
             \/ giveUp \/ panelOwnerActs
      PROVE  WiredOK'
  BY <1>3, DeployPanelWired, ConfigurePanelWired, WritePanelFileWired, DeployEscalationWired,
     DeployOracleWired, WireMockWired, ReadPanelOwnerWired, ReadPanelOracleWired, SetOracleWired,
     SetReviewersWired, PrepareBondWired, DepositBondWired, TruncateRulingFileWired,
     WriteRulingFileWired, GiveUpWired, PanelOwnerActsWired
<1> QED BY <1>1, <1>2, <1>3 DEF RulingNext

LEMMA WiredStutter == ASSUME WiredOK, UNCHANGED rulingVars PROVE WiredOK'
BY DEF WiredOK, rulingVars, Placed, Wiring, Late

\* The file of the oracle is written by one action alone.
LEMMA PapersKept ==
  ASSUME WiredOK, RulingNext, ~writeRulingFile
  PROVE  papers'.ruling = papers.ruling \/ papers'.ruling = Broken
<1>1. CASE writePanelFile
  BY <1>1, WiredTypes DEF writePanelFile
<1>2. CASE truncateRulingFile
  BY <1>2, WiredTypes DEF truncateRulingFile
<1>3. ASSUME NEW owner \in {Deployer, Safe}, NEW list \in ReviewerLists \cup {<< >>},
             panelBegin(owner, list)
      PROVE  papers' = papers
  BY <1>3 DEF panelBegin
<1>4. ASSUME NEW p \in DOMAIN panels \cup {NoPanel}, NEW env \in RulingEnv(p), rulingBegin(env)
      PROVE  papers' = papers
  BY <1>4 DEF rulingBegin
<1>5. ASSUME \/ deployPanel \/ configurePanel
             \/ deployEscalation \/ deployOracle \/ wireMock
             \/ readPanelOwner \/ readPanelOracle \/ setOracle \/ setReviewers
             \/ prepareBond \/ depositBond
             \/ giveUp \/ panelOwnerActs
      PROVE  papers' = papers
  <2>1. deployPanel \/ configurePanel \/ deployEscalation \/ deployOracle => papers' = papers
    BY DEF deployPanel, configurePanel, deployEscalation, deployOracle
  <2>2. wireMock \/ readPanelOwner \/ readPanelOracle \/ setOracle \/ setReviewers => papers' = papers
    BY DEF wireMock, readPanelOwner, readPanelOracle, setOracle, setReviewers
  <2>3. prepareBond \/ depositBond \/ giveUp \/ panelOwnerActs => papers' = papers
    BY DEF prepareBond, depositBond, giveUp, panelOwnerActs
  <2> QED BY <1>5, <2>1, <2>2, <2>3
<1> QED BY <1>1, <1>2, <1>3, <1>4, <1>5 DEF RulingNext

\* What the last action writes is what the script has done.
LEMMA WiredAtLast ==
  ASSUME WiredOK, writeRulingFile
  PROVE  LET d == papers'.ruling
         IN  /\ oracles[d.oracle].escalation = d.escalation
             /\ d.type # "external" => panels[d.escalation].oracle = d.oracle
             /\ d.type = "reviewer-panel" => panels[d.escalation].reviewers = d.reviewers
             /\ job.bond => oracles[d.oracle].bond >= 1
<1> DEFINE type == CASE job.layer = "mock" -> "mock"
                     [] Wires(job.layer) -> "reviewer-panel"
                     [] OTHER -> "external"
           d == [oracle |-> job.oracle, escalation |-> job.panel, reviewers |-> job.reviewers,
                 type |-> type]
<1>1. papers'.ruling = d /\ job.pc = "writeRuling"
  BY WiredTypes DEF writeRulingFile, On
<1>2. /\ type # "external" => Wires(job.layer) \/ job.layer = "mock"
      /\ type = "reviewer-panel" => Wires(job.layer)
  BY DEF Wires
<1> HIDE DEF type
<1>3. /\ d.oracle = job.oracle /\ d.escalation = job.panel /\ d.reviewers = job.reviewers
      /\ d.type = type
  OBVIOUS
<1> HIDE DEF d
<1> QED BY <1>1, <1>2, <1>3 DEF WiredOK, Placed, Wiring, Late

(* DescribedRulingIsWired, for every sequence of runs over any earlier panels, and
   whatever the owners of other panels do: a file describes an oracle whose appeal
   layer answers to it alone, with the reviewers and the bond it was asked for. *)
THEOREM WiredWhenDescribed == Spec => DescribedRulingIsWired
<1>1. WiredOK /\ [Next]_allVars => WiredOK'
  BY NextCases, WiredStep, WiredStutter DEF allVars, rulingVars
<1>2. WiredOK /\ [Next]_allVars =>
        [papers'.ruling # papers.ruling /\ papers'.ruling # Broken =>
           LET d == papers'.ruling
           IN  /\ oracles[d.oracle].escalation = d.escalation
               /\ d.type # "external" => panels[d.escalation].oracle = d.oracle
               /\ d.type = "reviewer-panel" => panels[d.escalation].reviewers = d.reviewers
               /\ job.bond => oracles[d.oracle].bond >= 1]_allVars
  <2> SUFFICES ASSUME WiredOK, [Next]_allVars,
                      papers'.ruling # papers.ruling, papers'.ruling # Broken
               PROVE  LET d == papers'.ruling
                      IN  /\ oracles[d.oracle].escalation = d.escalation
                          /\ d.type # "external" => panels[d.escalation].oracle = d.oracle
                          /\ d.type = "reviewer-panel" =>
                                panels[d.escalation].reviewers = d.reviewers
                          /\ job.bond => oracles[d.oracle].bond >= 1
    OBVIOUS
  <2>1. RulingNext
    BY NextCases DEF allVars, rulingVars
  <2>2. writeRulingFile
    BY <2>1, PapersKept
  <2> QED BY <2>2, WiredAtLast
<1> QED BY <1>1, <1>2, WiredInit, PTL DEF Spec, DescribedRulingIsWired
=============================================================================
