------------------------------- MODULE Backend -------------------------------
(***************************************************************************)
(* The backend as a whole: Bootstrap brings the process up, and the routes *)
(* of packages/backend/src/server.ts, runDemo of demo.ts and               *)
(* executeViaTimelock of contracts.ts then write to the contracts, cache   *)
(* what they did and keep the audit log.                                   *)
(*                                                                         *)
(* A route waits for its transaction and writes to the database after it;  *)
(* other routes, other wallets and the end of the process come in between. *)
(* requests[r].pc says what a request waits for.  A request may fail at    *)
(* any call, its transaction mined or not, and then writes nothing.        *)
(*                                                                         *)
(* A completion is the status its challenge has on the chain; windows,     *)
(* bonds, receipts and the pause are left to ReputationOracle.             *)
(***************************************************************************)
EXTENDS Bootstrap, FiniteSets

ASSUME BackendAssumption ==
    \A s \in Scenarios :
        /\ s.deeds \subseteq {"register", "certify", "slash", "burn", "redeploy", "rpc", "crash",
                              "dispute"}
        /\ s.capabilities \in 0..MaxCapabilities /\ s.completions \in 0..MaxCompletions
        /\ s.timelock \in {"none", "instant", "delayed"}

\* The status of a completion: absent, attested, challenged, contested, upheld or rejected.
Pending(i) == chain.completions[i] \in {"challenged", "contested"}

Is(c, i, status) == [c EXCEPT !.completions[i] = status]
Verdict(upheld) == IF upheld THEN "upheld" ELSE "rejected"

CanAttest == chain.nextCompletionId <= scenario.completions

Attested ==
    [Logged(Is(chain, chain.nextCompletionId, "attested"), "SelfAttested", chain.nextCompletionId)
        EXCEPT !.nextCompletionId = @ + 1]

\* /discover: the index, once it has a capability of the type, or else the contracts, where
\* an id that cannot be read is left out.  Scores, pages and the order are left out.
onChainDiscover ==
    {i \in Ids : /\ Live(i) /\ chain.capabilities[i].type = Hash
                 /\ chain.capabilities[i].certified /\ ~chain.capabilities[i].slashed}

discover ==
    IF queryIndexedCapabilities(db) # {} THEN queryIndexedCapabilities(db) ELSE onChainDiscover

-----------------------------------------------------------------------------
(* Other wallets, and routes that write nothing to the database *)

OnChain(i, from, to) ==
    /\ May("dispute")
    /\ chain.completions[i] \in from
    /\ chain' = Is(chain, i, to)
    /\ UNCHANGED <<scenario, registry, db, boot, requests>>

attestCompletion ==
    /\ May("dispute") /\ CanAttest
    /\ chain' = Attested
    /\ UNCHANGED <<scenario, registry, db, boot, requests>>

challengeCompletion(i) == OnChain(i, {"attested"}, "challenged")
contestChallenge(i) == OnChain(i, {"challenged"}, "contested")
finalizeChallenge(i) == OnChain(i, {"challenged"}, "upheld")
cancelChallenge(i) == OnChain(i, {"challenged", "contested"}, "rejected")

\* Once its delay has passed anybody with the role may execute an operation; it reverts
\* unless the challenge is still pending.
executeScheduled(i, upheld) ==
    /\ [id |-> i, upheld |-> upheld] \in chain.operations
    /\ Pending(i)
    /\ chain' = Is(chain, i, Verdict(upheld))
    /\ UNCHANGED <<scenario, registry, db, boot, requests>>

-----------------------------------------------------------------------------
(* Routes *)

Waits(r, pc) == boot.pc = "serving" /\ requests[r].pc = pc

\* Request r goes on to wait for pc.
Goes(r, pc, i, upheld) ==
    /\ requests' = [requests EXCEPT ![r] = [pc |-> pc, id |-> i, upheld |-> upheld]]
    /\ UNCHANGED <<scenario, registry, boot>>

Ends(r) == Goes(r, "idle", 0, FALSE)

\* runDemo: the attestation is mined.
attestDemo(r) ==
    /\ Waits(r, "idle") /\ CanAttest
    /\ chain' = Attested
    /\ Goes(r, "attested", chain.nextCompletionId, FALSE)
    /\ UNCHANGED db

\* After the score and the capability have been read; the latter must be there.
recordDemo(r) ==
    /\ Waits(r, "attested") /\ Live(boot.id)
    /\ db' = recordCompletion(db, requests[r].id, registry)
    /\ Ends(r)
    /\ UNCHANGED chain

challengeRoute(r, i) ==
    /\ Waits(r, "idle") /\ chain.completions[i] = "attested"
    /\ chain' = Is(chain, i, "challenged")
    /\ Goes(r, "challenged", i, FALSE)
    /\ UNCHANGED db

markChallenged(r) ==
    /\ Waits(r, "challenged")
    /\ db' = markCompletionChallenged(db, requests[r].id)
    /\ Ends(r)
    /\ UNCHANGED chain

\* Does not tell a scheduled ruling from one that was executed.
FaultyScheduleResolve(r, i, upheld) ==
    /\ Waits(r, "idle") /\ scenario.timelock # "none"
    /\ chain' = [chain EXCEPT !.operations = @ \cup {[id |-> i, upheld |-> upheld]}]
    /\ Goes(r, "resolved", i, upheld)
    /\ UNCHANGED db

\* executeViaTimelock: the operation is on the timelock.  Nothing looks at the completion.
scheduleResolve(r, i, upheld) ==
    /\ Waits(r, "idle") /\ scenario.timelock # "none"
    /\ chain' = [chain EXCEPT !.operations = @ \cup {[id |-> i, upheld |-> upheld]}]
    /\ Goes(r, IF scenario.timelock = "delayed" THEN "scheduled" ELSE "ready", i, upheld)
    /\ UNCHANGED db

\* Without delay it is executed as soon as it is ready, or after ten looks all the same.
executeNow(r) ==
    /\ Waits(r, "ready") /\ Pending(requests[r].id)
    /\ chain' = Is(chain, requests[r].id, Verdict(requests[r].upheld))
    /\ Goes(r, "resolved", requests[r].id, requests[r].upheld)
    /\ UNCHANGED db

resolveDirectly(r, i, upheld) ==
    /\ Waits(r, "idle") /\ scenario.timelock = "none"
    /\ Pending(i)
    /\ chain' = Is(chain, i, Verdict(upheld))
    /\ Goes(r, "resolved", i, upheld)
    /\ UNCHANGED db

reportScheduled(r) ==
    /\ Waits(r, "scheduled")
    /\ db' = recordAdminAction(db, requests[r].id, requests[r].upheld, FALSE, registry)
    /\ Ends(r)
    /\ UNCHANGED chain

reportResolved(r) ==
    /\ Waits(r, "resolved")
    /\ LET q == requests[r]
       IN  db' = recordAdminAction(markCompletionResolved(db, q.id, q.upheld),
                                   q.id, q.upheld, TRUE, registry)
    /\ Ends(r)
    /\ UNCHANGED chain

finalizeRoute(r, i) ==
    /\ Waits(r, "idle") /\ chain.completions[i] = "challenged"
    /\ chain' = Is(chain, i, "upheld")
    /\ Goes(r, "finalized", i, TRUE)
    /\ UNCHANGED db

markFinalized(r) ==
    /\ Waits(r, "finalized")
    /\ db' = markCompletionResolved(db, requests[r].id, TRUE)
    /\ Ends(r)
    /\ UNCHANGED chain

failRequest(r) ==
    /\ requests[r].pc # "idle"
    /\ Ends(r)
    /\ UNCHANGED <<chain, db>>

Route(r) ==
    \/ attestDemo(r)
    \/ recordDemo(r)
    \/ \E i \in Completions :
          \/ challengeRoute(r, i)
          \/ finalizeRoute(r, i)
          \/ \E upheld \in BOOLEAN : scheduleResolve(r, i, upheld) \/ resolveDirectly(r, i, upheld)
    \/ markChallenged(r)
    \/ executeNow(r)
    \/ reportScheduled(r)
    \/ reportResolved(r)
    \/ markFinalized(r)
    \/ failRequest(r)

Next ==
    \/ BootstrapNext
    \/ \E r \in Requests : Route(r)
    \/ attestCompletion
    \/ \E i \in Completions :
          \/ challengeCompletion(i)
          \/ contestChallenge(i)
          \/ finalizeChallenge(i)
          \/ cancelChallenge(i)
          \/ \E upheld \in BOOLEAN : executeScheduled(i, upheld)

\* Whoever runs the server starts it again whenever it is down; Node and the RPC node
\* answer a call that does not fail.
Fairness == WF_vars(ensureCapability)

Spec == Init /\ [][Next]_vars /\ Fairness

-----------------------------------------------------------------------------
(* Properties *)

\* A server that is past the check of the registry has no row of another deployment in
\* its two tables, although it may have died anywhere in the clearing of them.
RowsOfThisRegistry ==
    ~IsDown =>
        /\ \A i \in Capabilities : db.capabilities[i].registry \in {0, registry}
        /\ \A i \in Completions : db.completions[i].registry \in {0, registry}

\* What is served as Agent A's capability was created by it on this registry, has the
\* demo type and was certified, whichever way the server came up and whatever the others
\* did to the registry meanwhile.
ServesOwnCertified ==
    boot.pc = "serving" =>
        IsDemoCapability(boot.id) /\ chain.capabilities[boot.id].certified

\* What the cache, the index and the audit log say of this deployment is so on the chain:
\* routes that race each other, a keeper, other wallets and two writers of one row never
\* list what was not certified or make a dispute of what was not upheld, and an action
\* that was only scheduled is on the timelock.
CachedFactsAreReal ==
    /\ \A i \in Capabilities :
          db.capabilities[i].registry = registry =>
              /\ db.capabilities[i].certified => chain.capabilities[i].certified
              /\ db.capabilities[i].slashed => chain.capabilities[i].slashed
    /\ boot.pc = "serving" =>
          \A i \in discover : i \in Ids /\ chain.capabilities[i].certified
    /\ \A i \in Completions :
          db.completions[i].registry = registry =>
              /\ db.completions[i].challenged => chain.completions[i] \notin {"absent", "attested"}
              /\ db.completions[i].disputed => chain.completions[i] = "upheld"
    /\ \A a \in db.adminActions :
          a.registry = registry =>
              IF a.executed THEN chain.completions[a.id] = Verdict(a.upheld)
              ELSE [id |-> a.id, upheld |-> a.upheld] \in chain.operations

\* The enumeration that the startup scan walks (contracts.ts:302-304) changes under it.
ReorderTokens ==
    \/ \E c \in Others \cup {AgentA}, t \in {Hash, OtherHash} : othersRegister(c, t)
    \/ \E i \in Capabilities : withdrawBond(i)

\* Unless it is killed again and again, or others mint and burn again and again, the server
\* comes up and stays up: no content of the caches, no failing call that is caught and no
\* change of the registry before the start makes every start fail.  Wallets that go on for
\* ever can: totalSupply is read once and an index past the end is not caught.  Ids are
\* bounded here, so the second alternative is what the bound assumes, written out.
EventuallyServes ==
    \/ []<><<die>>_vars
    \/ []<><<ReorderTokens>>_vars
    \/ <>[](boot.pc = "serving")

=============================================================================
