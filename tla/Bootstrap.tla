----------------------------- MODULE Bootstrap -----------------------------
(***************************************************************************)
(* packages/backend/src/contracts.ts: how the server comes up.             *)
(* ensureCapability looks for Agent A's capability in the database, then   *)
(* on the chain, and registers one if it finds none; it runs before the    *)
(* server serves, and whatever it throws ends the process.                 *)
(*                                                                         *)
(* A step is the answer to one awaited call and the code up to the next:   *)
(* boot.pc names the call.  The process may die at any call, and a call    *)
(* that fails without being caught is a way to die.  Other wallets use the *)
(* registry meanwhile.  A deployment has an address of its own.            *)
(*                                                                         *)
(* Left out: the Agent A stake, the nonces, the model card, and the        *)
(* read-only mode, which skips all this.  Bonds are left out: a slashed    *)
(* capability can be burned.                                               *)
(***************************************************************************)
EXTENDS BackendDb

CONSTANTS Requests, Scenarios

VARIABLES
    scenario,           \* what others do, what fails, how large (bounds)
    registry,           \* the deployment deployments.json names
    chain,              \* its contracts, and the logs they have emitted
    db,                 \* SQLite
    boot,               \* the local variables of ensureCapability
    requests            \* the local variables of the routes under way

vars == <<scenario, registry, chain, db, boot, requests>>

NoRequest == [pc |-> "idle", id |-> 0, upheld |-> FALSE]
Down == [pc |-> "down", id |-> 0, i |-> 0, total |-> 0]

NewChain ==
    [capabilities |-> << >>,
     tokens |-> << >>,              \* ERC721Enumerable: the live ids in the order of the index
     nextCompletionId |-> 1,
     completions |-> [i \in Completions |-> "absent"],
     operations |-> {},             \* scheduled on the timelock
     logs |-> << >>]

Init ==
    /\ scenario \in Scenarios
    /\ registry = 1
    /\ chain = NewChain
    /\ db = EmptyDb
    /\ boot = Down
    /\ requests = [r \in Requests |-> NoRequest]

-----------------------------------------------------------------------------
(* The registry, as far as ids, owners and flags go *)

Ids == 1..Len(chain.capabilities)
Live(i) == i \in Ids /\ chain.capabilities[i].live
IsDemoCapability(i) ==
    i \in Ids /\ chain.capabilities[i].creator = AgentA /\ chain.capabilities[i].type = Hash

Logged(c, kind, i) == [c EXCEPT !.logs = Append(@, [kind |-> kind, id |-> i])]

Registered(c, creator, type) ==
    LET i == Len(c.capabilities) + 1
    IN  Logged([c EXCEPT !.capabilities = Append(@, [creator |-> creator, type |-> type,
                                                     live |-> TRUE, certified |-> FALSE,
                                                     slashed |-> FALSE]),
                         !.tokens = Append(@, i)],
               "CapabilityRegistered", i)

Certified(c, i) ==
    Logged([c EXCEPT !.capabilities[i].certified = TRUE], "CapabilityCertified", i)

Slashed(c, i) == Logged([c EXCEPT !.capabilities[i].slashed = TRUE], "CapabilitySlashed", i)

\* The last token of the enumeration takes the place of the one that is burned.
Burned(c, i) ==
    LET n == Len(c.tokens)
        moved == [k \in 1..n |-> IF c.tokens[k] = i THEN c.tokens[n] ELSE c.tokens[k]]
    IN  Logged([c EXCEPT !.capabilities[i].live = FALSE, !.tokens = SubSeq(moved, 1, n - 1)],
               "BondWithdrawn", i)

May(deed) == deed \in scenario.deeds

\* The last id is kept for Agent A, and others mint and burn no more than the ids allow
\* (bound): in the code nothing limits them.
RoomForOthers == Len(chain.capabilities) + 1 < scenario.capabilities
RoomForAgentA == Len(chain.capabilities) < scenario.capabilities

othersRegister(creator, type) ==
    /\ May("register") /\ RoomForOthers
    /\ creator = AgentA => type # Hash          \* what /capabilities/register may do
    /\ chain' = Registered(chain, creator, type)
    /\ UNCHANGED <<scenario, registry, db, boot, requests>>

\* By the route or by another certifier.
certifyCapability(i) ==
    /\ May("certify") /\ Live(i) /\ ~chain.capabilities[i].certified
    /\ chain' = Certified(chain, i)
    /\ UNCHANGED <<scenario, registry, db, boot, requests>>

slashCapability(i) ==
    /\ May("slash") /\ Live(i) /\ ~chain.capabilities[i].slashed
    /\ chain' = Slashed(chain, i)
    /\ UNCHANGED <<scenario, registry, db, boot, requests>>

\* Agent A can do without a capability only while it can register another (bound).
withdrawBond(i) ==
    /\ May("burn") /\ Live(i)
    /\ IsDemoCapability(i) => RoomForAgentA
    /\ chain' = Burned(chain, i)
    /\ UNCHANGED <<scenario, registry, db, boot, requests>>

-----------------------------------------------------------------------------
(* ensureCapability *)

\* Killed, or ended by what ensureCapability threw.
IsDown == boot.pc \in {"down", "failed"}

Serve(i) == [Down EXCEPT !.pc = "serving", !.id = i]

\* After the checks of the registry: the database first, then the chain.
Lookup(d) ==
    LET found == isCapabilityRegistered(d, AgentA, Label)
    IN  IF found = {} THEN {[Down EXCEPT !.pc = "supply"]}
                      ELSE {[Down EXCEPT !.pc = "cached", !.id = dbId] : dbId \in found}

\* Whether the caches are about another registry than the one of this deployment.
RegistryChanged == db.lastRegistry # 0 /\ db.lastRegistry # registry

Invalidated ==
    IF RegistryChanged
    THEN [db EXCEPT !.capabilities = EmptyDb.capabilities, !.completions = EmptyDb.completions,
                    !.lastRegistry = registry]
    ELSE [db EXCEPT !.lastRegistry = registry]

start ==
    /\ IsDown
    /\ db' = Invalidated
    /\ boot' \in Lookup(Invalidated)
    /\ UNCHANGED <<scenario, registry, chain, requests>>

\* Notes the new registry before it clears the tables.
FaultyDieInvalidating ==
    /\ IsDown /\ RegistryChanged /\ May("crash")
    /\ db' = [db EXCEPT !.lastRegistry = registry]
    /\ UNCHANGED <<scenario, registry, chain, boot, requests>>

\* The three statements commit one by one: the process may die after the first or the second.
dieInvalidating ==
    /\ IsDown /\ RegistryChanged /\ May("crash")
    /\ \E completions \in {db.completions, EmptyDb.completions} :
          db' = [db EXCEPT !.capabilities = EmptyDb.capabilities, !.completions = completions]
    /\ UNCHANGED <<scenario, registry, chain, boot, requests>>

Exit(pc) ==
    /\ boot' = [Down EXCEPT !.pc = pc]
    /\ requests' = [r \in Requests |-> NoRequest]
    /\ UNCHANGED <<scenario, registry, chain, db>>

IsAgentAs(i) == Live(i) /\ chain.capabilities[i].creator = AgentA

\* getCapability(dbId).  Should it not be certified, whatever certifyCapability throws is
\* caught after useCached is set.
checkCached ==
    /\ boot.pc = "cached" /\ IsAgentAs(boot.id)
    /\ boot' = Serve(boot.id)
    /\ chain' \in {chain, IF chain.capabilities[boot.id].certified THEN chain
                          ELSE Certified(chain, boot.id)}
    /\ UNCHANGED <<scenario, registry, db, requests>>

\* Lets the failure end the process, as every other.
FaultyCachedFails ==
    /\ boot.pc = "cached"
    /\ May("rpc") \/ ~IsAgentAs(boot.id)
    /\ Exit("failed")

\* NoSuchCapability, another creator, or any failure of the call.
cachedFails ==
    /\ boot.pc = "cached"
    /\ May("rpc") \/ ~IsAgentAs(boot.id)
    /\ boot' = [Down EXCEPT !.pc = "supply"]
    /\ UNCHANGED <<scenario, registry, chain, db, requests>>

\* The head of the loop over the enumeration.
NextToken(i, total) ==
    [Down EXCEPT !.pc = IF i < total THEN "token" ELSE "register", !.i = i, !.total = total]

totalSupply ==
    /\ boot.pc = "supply"
    /\ boot' = NextToken(0, Len(chain.tokens))
    /\ UNCHANGED <<scenario, registry, chain, db, requests>>

tokenByIndex(i) ==
    /\ boot.pc = "token" /\ boot.i = i /\ i < Len(chain.tokens)
    /\ boot' = [boot EXCEPT !.pc = "capability", !.id = chain.tokens[i + 1]]
    /\ UNCHANGED <<scenario, registry, chain, db, requests>>

\* The first capability of Agent A with the right type is taken, certified if need be.
getCapability(i) ==
    /\ boot.pc = "capability" /\ boot.i = i /\ Live(boot.id)
    /\ LET found == IsDemoCapability(boot.id)
           certified == chain.capabilities[boot.id].certified
       IN  /\ boot' = CASE ~found -> NextToken(i + 1, boot.total)
                        [] found /\ certified -> Serve(boot.id)
                        [] found /\ ~certified -> [boot EXCEPT !.pc = "certify"]
           /\ db' = IF found /\ certified THEN recordCapability(db, boot.id, AgentA, registry)
                                          ELSE db
    /\ UNCHANGED <<scenario, registry, chain, requests>>

\* Burned since, or the call failed: the scan goes on without it.
skipCapability ==
    /\ boot.pc = "capability"
    /\ ~Live(boot.id) \/ (May("rpc") /\ RoomForAgentA)
    /\ boot' = NextToken(boot.i + 1, boot.total)
    /\ UNCHANGED <<scenario, registry, chain, db, requests>>

\* Caches the capability when it is registered: a crash leaves it uncertified.
FaultyRegisterCapabilityEth ==
    /\ boot.pc = "register" /\ RoomForAgentA
    /\ chain' = Registered(chain, AgentA, Hash)
    /\ db' = recordCapability(db, Len(chain.capabilities) + 1, AgentA, registry)
    /\ boot' = [boot EXCEPT !.pc = "visible", !.id = Len(chain.capabilities) + 1]
    /\ UNCHANGED <<scenario, registry, requests>>

registerCapabilityEth ==
    /\ boot.pc = "register" /\ RoomForAgentA
    /\ chain' = Registered(chain, AgentA, Hash)
    /\ boot' = [boot EXCEPT !.pc = "visible", !.id = Len(chain.capabilities) + 1]
    /\ UNCHANGED <<scenario, registry, db, requests>>

\* The replica that answers has seen the registration.
seeCapability ==
    /\ boot.pc = "visible" /\ Live(boot.id)
    /\ boot' = [boot EXCEPT !.pc = "certify"]
    /\ UNCHANGED <<scenario, registry, chain, db, requests>>

certifyAndRecord ==
    /\ boot.pc = "certify" /\ Live(boot.id)
    /\ chain' = Certified(chain, boot.id)
    /\ db' = recordCapability(db, boot.id, AgentA, registry)
    /\ boot' = Serve(boot.id)
    /\ UNCHANGED <<scenario, registry, requests>>

\* A call that cannot but revert, and is not caught: an index past the end, a capability
\* that is gone.
throw ==
    /\ \/ boot.pc = "token" /\ boot.i >= Len(chain.tokens)
       \/ boot.pc \in {"visible", "certify"} /\ ~Live(boot.id)
    /\ Exit("failed")

die ==
    /\ May("crash") /\ ~IsDown
    /\ Exit("down")

ensureCapability ==
    \/ start
    \/ dieInvalidating
    \/ checkCached
    \/ cachedFails
    \/ totalSupply
    \/ \E i \in 0..MaxCapabilities : tokenByIndex(i) \/ getCapability(i)
    \/ skipCapability
    \/ registerCapabilityEth
    \/ seeCapability
    \/ certifyAndRecord
    \/ throw

-----------------------------------------------------------------------------

\* New contracts, and the server is started with their addresses.
redeploy ==
    /\ May("redeploy") /\ IsDown /\ registry < MaxRegistries
    /\ registry' = registry + 1
    /\ chain' = NewChain
    /\ db' = [db EXCEPT !.cursor = 0]
    /\ UNCHANGED <<scenario, boot, requests>>

\* The indexer, which starts when ensureCapability is done.
indexLog ==
    /\ boot.pc = "serving" /\ db.cursor < Len(chain.logs)
    /\ db' = [applyLog(db, chain.logs[db.cursor + 1], chain.capabilities, registry)
                EXCEPT !.cursor = @ + 1]
    /\ UNCHANGED <<scenario, registry, chain, boot, requests>>

BootstrapNext ==
    \/ ensureCapability
    \/ die
    \/ redeploy
    \/ indexLog
    \/ \E c \in Others \cup {AgentA}, t \in {Hash, OtherHash} : othersRegister(c, t)
    \/ \E i \in Capabilities : certifyCapability(i) \/ slashCapability(i) \/ withdrawBond(i)

=============================================================================
