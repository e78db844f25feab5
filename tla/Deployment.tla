----------------------------- MODULE Deployment -----------------------------
(***************************************************************************)
(* The scripts that put the reputation oracle and the registry on a chain: *)
(* deploy-base-sepolia.ts, deploy-local.ts, lib/security.ts, and the two   *)
(* that finish and check the work, timelock-tx.mjs and                     *)
(* verify-deployment.mjs.  One operator runs one script at a time.         *)
(*                                                                         *)
(* A step is one awaited call, or one write of a file, with the code up to *)
(* the next; run.pc names what the script does next.  The process may die  *)
(* before any step: a failed call, a refusal and Ctrl-C look the same.     *)
(* What was sent is mined all the same.                                    *)
(*                                                                         *)
(* A key is a number, and stands for the wallet it opens.  A run deploys   *)
(* set n of contracts; set 0 is the v0.3 pilot, already handed over.       *)
(***************************************************************************)
EXTENDS Integers, Sequences, FiniteSets, SequencesExt

CONSTANTS
    Deployer, Safe,     \* the hot key of .env, and the multisig
    NoOne,              \* address(0); a file or a key that is not there
    Scenarios,          \* (bound) networks, the settings tried on each, and how
                        \* many batches timelock-tx.mjs builds there
    MaxRuns,            \* (bound) sets of contracts
    MaxTime             \* (bound)

VARIABLES
    scenario,           \* the network and the checkout, fixed for a behaviour
    now,                \* block.timestamp
    chain,              \* owners, timelocks and their operations
    mempool,            \* the deployer's transactions in nonce order, not yet mined
    funded,             \* wallets that hold enough for Agent A
    files,              \* .env, its backups, deployments.json, the Safe batch
    run,                \* the script under way: its local variables
    seen                \* observations: see Init

vars == <<scenario, now, chain, mempool, funded, files, run, seen>>

DefaultDelay == 1                   \* 3600 s; two ticks stand for 86400
LocalAgent == 0                     \* the second hardhat signer: everybody knows its key

Sets == 0..MaxRuns
Names == {"ron", "registry"}
Contracts == Sets \X Names
Timelock(n) == <<"timelock", n>>

ASSUME BoundAssumption == MaxRuns \in Nat /\ MaxTime \in Nat

ASSUME NoOneAssumption == NoOne \notin Nat /\ \A n \in Sets : NoOne # Timelock(n)

Idle == [script |-> "none", pc |-> "idle", env |-> NoOne, n |-> 0, sent |-> 0,
         agent |-> NoOne, envKey |-> NoOne, ok |-> TRUE]

(* The pilot went live on Base Sepolia with key 1 in .env *)
PilotFile == [chain |-> "sepolia", n |-> 0, agent |-> 1]

Init ==
    /\ scenario \in Scenarios
    /\ now = 0
    /\ chain = [owner |-> [c \in Contracts |-> IF c[1] = 0 THEN Timelock(0) ELSE NoOne],
                pendingOwner |-> [c \in Contracts |-> NoOne],
                timelock |-> [n \in Sets |->
                    IF n = 0 THEN [delay |-> 0, proposers |-> {Deployer}, executors |-> {Deployer}]
                             ELSE [delay |-> 0, proposers |-> {}, executors |-> {}]],
                waiting |-> {}, executed |-> {}]
    /\ mempool = << >>
    /\ funded = {LocalAgent}
    /\ files = [env |-> IF scenario.pilot THEN 1 ELSE NoOne, backups |-> {},
                live |-> IF scenario.pilot THEN PilotFile ELSE NoOne, staged |-> NoOne,
                batch |-> NoOne]
    /\ run = Idle
    /\ seen = [sets |-> 0,                  \* sets of contracts begun
               keys |-> 1,                  \* keys generated
               salts |-> 0,                 \* batches built
               stored |-> {files.env} \ {NoOne},    \* keys .env has ever held
               throwaway |-> {},            \* agents of rehearsals and forks
               accepted |-> {},             \* sets a script has called accepted
               verified |-> {}]             \* sets verify-deployment.mjs has passed

-----------------------------------------------------------------------------
(* Ownable2Step and TimelockController, as far as the handover goes.  A      *)
(* transaction is a record; Valid says it does not revert.                   *)

Operation(c, salt) == [c |-> c, salt |-> salt]

Valid(tx, ch) ==
    LET lock == ch.timelock[tx.c[1]]
        op == Operation(tx.c, tx.salt)
    IN  CASE tx.call = "transferOwnership" -> ch.owner[tx.c] = tx.from
          [] tx.call = "schedule" ->
                /\ tx.from \in lock.proposers
                /\ tx.delay >= lock.delay
                /\ op \notin ch.executed
                /\ \A w \in ch.waiting : w.op # op
          [] tx.call = "execute" ->
                /\ tx.from \in lock.executors
                /\ \E w \in ch.waiting : w.op = op /\ w.ready <= now
                /\ ch.pendingOwner[tx.c] = Timelock(tx.c[1])

Apply(tx, ch) ==
    LET op == Operation(tx.c, tx.salt)
    IN  IF ~Valid(tx, ch) THEN ch
        ELSE CASE tx.call = "transferOwnership" ->
                    [ch EXCEPT !.pendingOwner[tx.c] = Timelock(tx.c[1])]
               [] tx.call = "schedule" ->
                    [ch EXCEPT !.waiting = @ \cup {[op |-> op, ready |-> now + tx.delay]}]
               [] tx.call = "execute" ->
                    [ch EXCEPT !.owner[tx.c] = Timelock(tx.c[1]),
                               !.pendingOwner[tx.c] = NoOne,
                               !.waiting = {w \in @ : w.op # op},
                               !.executed = @ \cup {op}]

Mined(txs, ch) ==
    LET after[k \in 0..Len(txs)] == IF k = 0 THEN ch ELSE Apply(txs[k], after[k - 1])
    IN  after[Len(txs)]

(* `await contract.f()' resolves when the transaction is sent, not when it is
   mined.  Its gas is estimated first, by some nodes on the last block, by others
   with what is pending: if it would revert there the call throws. *)
Send(tx) ==
    /\ Valid(tx, IF scenario.pendingEstimates THEN Mined(mempool, chain) ELSE chain)
    /\ IF scenario.automine THEN chain' = Apply(tx, chain) /\ mempool' = mempool
                            ELSE mempool' = Append(mempool, tx) /\ chain' = chain

(* A receipt of the deployer comes after those of its earlier nonces. *)
Receipt == mempool = << >>

mine ==
    /\ mempool # << >>
    /\ chain' = Apply(Head(mempool), chain)
    /\ mempool' = Tail(mempool)
    /\ UNCHANGED <<scenario, now, funded, files, run, seen>>

Tick ==
    /\ now < MaxTime
    /\ \E w \in chain.waiting : w.ready > now
    /\ now' = now + 1
    /\ UNCHANGED <<scenario, chain, mempool, funded, files, run, seen>>

-----------------------------------------------------------------------------
(* The settings of a run: process.env, which holds .env too.  PROPOSERS and
   EXECUTORS are texts: an address as ethers writes it stands for itself.  The
   timelock and security.ts read the same address in another case of letters. *)

LowerCase(address) == <<"lower case", address>>
Addresses(texts) == {a \in {Deployer, Safe} : texts \cap {a, LowerCase(a)} # {}}

(* MULTISIG_ADDRESS is compared by its length here, spaces and all *)
UsesMultisig(env) == env.multisig # NoOne /\ ~env.padded

Role(env, named) ==
    CASE UsesMultisig(env) -> {env.multisig}
      [] ~UsesMultisig(env) /\ named # {} -> named
      [] OTHER -> {Deployer}

Proposers(env) == Role(env, env.proposers)
Executors(env) == Role(env, env.executors)

(* proposers.includes(deployerAddr): the same text *)
deployerCanExecute(env) ==
    env.delay = 0 /\ Deployer \in Proposers(env) /\ Deployer \in Executors(env)

(* MULTISIG_ADDRESS is compared by a pattern, trimmed, here *)
assertHardenedMainnet(env) ==
    scenario.chain = "mainnet" /\ ~scenario.fork =>
        /\ env.delay > 0
        /\ env.multisig # NoOne \/ Deployer \notin Addresses(Proposers(env) \cup Executors(env))

reuse(r) == r.env.reuse /\ r.envKey # NoOne

At(pc) == run.pc = pc
Goto(pc) == run' = [run EXCEPT !.pc = pc]

(* The contracts of the run, one after the other, each awaited *)
begin(env) ==
    /\ At("idle")
    /\ seen.sets < MaxRuns
    /\ assertHardenedMainnet(env)
    /\ seen' = [seen EXCEPT !.sets = @ + 1]
    /\ run' = [Idle EXCEPT !.script = IF scenario.chain = "local" THEN "local" ELSE "base",
                           !.pc = "ron", !.env = env, !.n = seen.sets + 1,
                           !.envKey = files.env]
    /\ UNCHANGED <<scenario, now, chain, mempool, funded, files>>

deployContract(name, next) ==
    /\ At(name) /\ Receipt
    /\ chain' = [chain EXCEPT !.owner[<<run.n, name>>] = Deployer]
    /\ Goto(next)
    /\ UNCHANGED <<scenario, now, mempool, funded, files, seen>>

deployTimelock ==
    /\ At("timelock") /\ Receipt
    /\ chain' = [chain EXCEPT !.timelock[run.n] =
                    [delay |-> run.env.delay, proposers |-> Addresses(Proposers(run.env)),
                     executors |-> Addresses(Executors(run.env))]]
    /\ Goto("handover")
    /\ UNCHANGED <<scenario, now, mempool, funded, files, seen>>

(* What the script sends to hand the contracts over, none of it awaited *)
Call(name, what) ==
    [call |-> what, c |-> <<run.n, name>>, from |-> Deployer, salt |-> 0, delay |-> 0]

(* Mutant: the registry has to wait for somebody else *)
FaultyHandover ==
    <<Call("ron", "transferOwnership"), Call("registry", "transferOwnership")>> \o
    IF deployerCanExecute(run.env)
    THEN <<Call("ron", "schedule"), Call("ron", "execute")>>
    ELSE << >>

handover ==
    <<Call("ron", "transferOwnership"), Call("registry", "transferOwnership")>> \o
    IF deployerCanExecute(run.env)
    THEN <<Call("ron", "schedule"), Call("ron", "execute"),
           Call("registry", "schedule"), Call("registry", "execute")>>
    ELSE << >>

sendHandover ==
    /\ At("handover")
    /\ run.sent < Len(handover)
    /\ Send(handover[run.sent + 1])
    /\ run' = [run EXCEPT !.sent = @ + 1]
    /\ seen' = IF deployerCanExecute(run.env) /\ run.sent + 1 = Len(handover)
               THEN [seen EXCEPT !.accepted = @ \cup {run.n}] ELSE seen
    /\ UNCHANGED <<scenario, now, funded, files>>

(* Agent A: the one of .env if that is asked for, or a new one *)
chooseAgent ==
    /\ At("handover")
    /\ run.sent = Len(handover)
    /\ IF run.script = "local"
       THEN run' = [run EXCEPT !.agent = LocalAgent, !.pc = "describe"] /\ seen' = seen
       ELSE IF reuse(run)
       THEN run' = [run EXCEPT !.agent = run.envKey, !.pc = "fund"] /\ seen' = seen
       ELSE /\ run' = [run EXCEPT !.agent = seen.keys + 1, !.pc = "fund"]
            /\ seen' = [seen EXCEPT !.keys = @ + 1]
    /\ UNCHANGED <<scenario, now, chain, mempool, funded, files>>

autoFund == scenario.chain # "mainnet" \/ run.env.fund

fundAgent ==
    /\ At("fund")
    /\ IF run.agent \notin funded /\ autoFund
       THEN Receipt /\ funded' = funded \cup {run.agent}
       ELSE funded' = funded
    /\ IF run.env.rehearsal \/ scenario.fork
       THEN Goto("describe") /\ seen' = [seen EXCEPT !.throwaway = @ \cup {run.agent}]
       ELSE Goto("backup") /\ seen' = seen
    /\ UNCHANGED <<scenario, now, chain, mempool, files>>

(* Mutant: the copy is made after the key is replaced *)
FaultyBackupEnv ==
    /\ At("backup")
    /\ "env" \in scenario.ignored
    /\ files' = [files EXCEPT !.env = run.agent, !.backups = @ \cup {run.agent}]
    /\ Goto("upsert")
    /\ UNCHANGED <<scenario, now, chain, mempool, funded, seen>>

(* assertNotTracked ends the process before .env is touched; backupFile copies
   it; writeFileSync empties it before it writes *)
backupEnv ==
    /\ At("backup")
    /\ "env" \in scenario.ignored
    /\ files' = [files EXCEPT !.backups = @ \cup ({files.env} \ {NoOne})]
    /\ Goto("upsert")
    /\ UNCHANGED <<scenario, now, chain, mempool, funded, seen>>

truncateEnv ==
    /\ At("upsert")
    /\ files' = [files EXCEPT !.env = NoOne]
    /\ Goto("writeKey")
    /\ UNCHANGED <<scenario, now, chain, mempool, funded, seen>>

upsertEnvVar ==
    /\ At("writeKey")
    /\ files' = [files EXCEPT !.env = run.agent]
    /\ seen' = [seen EXCEPT !.stored = @ \cup {run.agent}]
    /\ Goto("describe")
    /\ UNCHANGED <<scenario, now, chain, mempool, funded>>

-----------------------------------------------------------------------------
(* deployments.json *)

outPath(env) == IF env.staged THEN "staged" ELSE "live"
Broken == [chain |-> "unreadable"]
Readable(d) == d # NoOne /\ d # Broken

(* Only the local script looks at what it is about to replace *)
assertSafeOverwrite(env) ==
    run.script = "local" /\ ~env.staged /\ ~env.overwrite /\ Readable(files.live)
        => files.live.chain = "local"

Description == [chain |-> scenario.chain, n |-> run.n, agent |-> run.agent]

truncateDescriptor ==
    /\ At("describe")
    /\ assertSafeOverwrite(run.env)
    /\ "out" \in scenario.ignored \/ run.env.staged
    /\ files' = [files EXCEPT ![outPath(run.env)] = Broken]
    /\ Goto("writeOut")
    /\ UNCHANGED <<scenario, now, chain, mempool, funded, seen>>

writeDescriptor ==
    /\ At("writeOut")
    /\ files' = [files EXCEPT ![outPath(run.env)] = Description]
    /\ run' = Idle
    /\ UNCHANGED <<scenario, now, chain, mempool, funded, seen>>

(* A throw, process.exit or the operator: nothing is undone *)
die ==
    /\ ~At("idle")
    /\ run' = Idle
    /\ UNCHANGED <<scenario, now, chain, mempool, funded, files, seen>>

-----------------------------------------------------------------------------
(* timelock-tx.mjs --action acceptOwnership, and what the Safe does with the
   two files it writes.  It does not read .env: the delay is what the shell has,
   or 3600.  A second batch replaces the first. *)
buildBatch(name, delay) ==
    /\ At("idle")
    /\ Readable(files.live)
    /\ seen.salts < scenario.batches
    /\ seen' = [seen EXCEPT !.salts = @ + 1]
    /\ files' = [files EXCEPT !.batch =
                    [c |-> <<files.live.n, name>>, salt |-> seen.salts + 1, delay |-> delay]]
    /\ UNCHANGED <<scenario, now, chain, mempool, funded, run>>

submitBatch(from, what) ==
    LET tx == [call |-> what, c |-> files.batch.c, from |-> from,
               salt |-> files.batch.salt, delay |-> files.batch.delay]
    IN  /\ files.batch # NoOne
        /\ from = Deployer => Receipt
        /\ Valid(tx, chain)
        /\ chain' = Apply(tx, chain)
        /\ UNCHANGED <<scenario, now, mempool, funded, files, run, seen>>

-----------------------------------------------------------------------------
(* verify-deployment.mjs, on the live file: the owners in one round of calls,  *)
(* then what the contracts can do, then the key of .env.  Every check counts.  *)

HandedOver(n) == \A name \in Names : chain.owner[<<n, name>>] = Timelock(n)

(* A call of v0.2 or v0.3 that reverts is a failure.  What v0.4 and v0.5 added may
   be absent, as it is from the pilot, but where the bytecode has a mark of it all
   of it has to answer. *)
Feature ==
    [v2 |-> {"CHALLENGE_WINDOW", "getTwoSidedScore", "countCapabilitiesByType"},
     v3 |-> {"paused", "attestCooldown", "getCreditScore"},
     v4 |-> {"CHALLENGE_TIMEOUT", "cancelChallenge", "RON MAX_URI_LEN", "Registry MAX_URI_LEN",
             "acceptOwnership"},
     v5 |-> {"STAKE_PER_POINT", "FREE_POINTS", "SLASH_PER_DISPUTE", "CHALLENGE_ELIGIBILITY",
             "depositStake", "withdrawStake", "MIN_BOND"}]

Mark == [v4 |-> {"CHALLENGE_TIMEOUT", "cancelChallenge"}, v5 |-> {"STAKE_PER_POINT", "depositStake"}]

Code(n) == Feature.v2 \cup Feature.v3 \cup (IF n = 0 THEN {} ELSE Feature.v4 \cup Feature.v5)

SurfaceOk(code) ==
    /\ Feature.v2 \cup Feature.v3 \subseteq code
    /\ \A v \in DOMAIN Mark : Mark[v] \cap code # {} => Feature[v] \subseteq code

readOwners ==
    /\ At("idle")
    /\ Readable(files.live)
    /\ run' = [Idle EXCEPT !.script = "verify", !.pc = "verifyKey", !.n = files.live.n,
                           !.agent = files.live.agent,
                           !.ok = HandedOver(files.live.n) /\ SurfaceOk(Code(files.live.n))]
    /\ UNCHANGED <<scenario, now, chain, mempool, funded, files, seen>>

checkKey ==
    /\ At("verifyKey")
    /\ LET ok == run.ok /\ (files.env = NoOne \/ files.env = run.agent)
       IN  seen' = IF ok THEN [seen EXCEPT !.verified = @ \cup {run.n}] ELSE seen
    /\ run' = Idle
    /\ UNCHANGED <<scenario, now, chain, mempool, funded, files>>

-----------------------------------------------------------------------------
Deploy ==
    \/ \E env \in scenario.envs : begin(env)
    \/ deployContract("ron", "registry")
    \/ deployContract("registry", "timelock")
    \/ deployTimelock \/ sendHandover \/ chooseAgent \/ fundAgent
    \/ backupEnv \/ truncateEnv \/ upsertEnvVar
    \/ truncateDescriptor \/ writeDescriptor

Finish ==
    \/ \E name \in Names, delay \in {DefaultDelay, 2} : buildBatch(name, delay)
    \/ \E from \in {Safe, Deployer}, what \in {"schedule", "execute"} : submitBatch(from, what)
    \/ readOwners \/ checkKey

DeploymentNext == Deploy \/ Finish \/ die \/ mine \/ Tick

-----------------------------------------------------------------------------
(* Whatever dies or is refused at any point of any run: a key that .env has held
   can still be found, in .env or in a backup, and no deployments.json names an
   agent whose key was never stored, rehearsals aside.
   (deploy-base-sepolia.ts:250-295, security.ts:5-17) *)
AgentKeysSurvive ==
    /\ seen.stored \subseteq {files.env} \cup files.backups
    /\ \A d \in {files.live, files.staged} : Readable(d) =>
            d.agent \in seen.stored \cup seen.throwaway \cup {LocalAgent}

(* Nobody awaits the transactions that hand a set over.  What verify-deployment.mjs
   has passed is its timelock's already; what a script has called accepted is its
   timelock's once the queue is mined, though the script had only sent it; and what
   a deployments.json names is offered to its timelock by then, if it is not its own.
   An offered set is still the deployer's until somebody executes acceptOwnership.
   (deploy-base-sepolia.ts:179-205, verify-deployment.mjs:76-84) *)
DescribedIsHandedOver ==
    LET final == Mined(mempool, chain)
    IN  /\ \A n \in seen.verified : HandedOver(n)
        /\ \A n \in seen.accepted, name \in Names : final.owner[<<n, name>>] = Timelock(n)
        /\ \A d \in {files.live, files.staged}, name \in Names : Readable(d) =>
                Timelock(d.n) \in {final.owner[<<d.n, name>>], final.pendingOwner[<<d.n, name>>]}
=============================================================================
