----------------------------- MODULE BackendDb -----------------------------
(***************************************************************************)
(* packages/backend/src/db.ts: the rows the server caches in SQLite, with  *)
(* the writes the indexer makes to the same two tables (index_db.ts).      *)
(* IndexDb has the indexer's own tables; here the rows carry what the two  *)
(* writers tell apart: the type, the flags, and whose writing they are.    *)
(*                                                                         *)
(* A write is a function from one content of the database to the next.     *)
(* The field registry of a row is an observation: the deployment that the  *)
(* row describes, 0 if there is no row.                                    *)
(***************************************************************************)
EXTENDS Naturals, Sequences

CONSTANTS
    AgentA,             \* the address of AGENT_A_PK
    Others,             \* other creators
    MaxCapabilities,    \* capability ids of one registry (bound)
    MaxCompletions,     \* completion ids of one deployment (bound)
    MaxRegistries       \* deployments in all (bound)

ASSUME BackendDbAssumption ==
    /\ AgentA \notin Others
    /\ MaxCapabilities \in Nat /\ MaxCompletions \in Nat /\ MaxRegistries \in Nat \ {0}

Capabilities == 1..MaxCapabilities
Completions == 1..MaxCompletions
Registries == 1..MaxRegistries

\* The label of the demo capability as it is, and as the registry stores it.
Label == "LoRA"
Hash == "id(LoRA)"
OtherHash == "id(other)"

NoCapability ==
    [registry |-> 0, creator |-> AgentA, type |-> Hash, certified |-> FALSE, slashed |-> FALSE]
NoCompletion == [registry |-> 0, challenged |-> FALSE, disputed |-> FALSE]

EmptyDb ==
    [capabilities |-> [i \in Capabilities |-> NoCapability],
     completions |-> [i \in Completions |-> NoCompletion],
     lastRegistry |-> 0,            \* the meta row last_registry
     cursor |-> 0,                  \* logs of this deployment the indexer has passed
     adminActions |-> {}]

-----------------------------------------------------------------------------
(* Capabilities *)

\* The capabilities cached for a creator and a type: the query returns any of them.
isCapabilityRegistered(db, creator, type) ==
    {i \in Capabilities : /\ db.capabilities[i].registry # 0
                          /\ db.capabilities[i].creator = creator
                          /\ db.capabilities[i].type = type}

\* INSERT OR REPLACE, with the label, as certified and never slashed.
recordCapability(db, i, creator, registry) ==
    [db EXCEPT !.capabilities[i] =
        [registry |-> registry, creator |-> creator, type |-> Label,
         certified |-> TRUE, slashed |-> FALSE]]

\* With the hash; the flags of a row it finds stay.
upsertIndexedCapability(db, i, c, registry) ==
    [db EXCEPT !.capabilities[i] =
        [@ EXCEPT !.registry = registry, !.creator = c.creator, !.type = c.type]]

HasRow(db, i) == db.capabilities[i].registry # 0

certifyIndexedCapability(db, i) ==
    IF HasRow(db, i) THEN [db EXCEPT !.capabilities[i].certified = TRUE] ELSE db

slashIndexedCapability(db, i) ==
    IF HasRow(db, i) THEN [db EXCEPT !.capabilities[i].slashed = TRUE] ELSE db

deleteIndexedCapability(db, i) == [db EXCEPT !.capabilities[i] = NoCapability]

\* What discovery lists from the index.
queryIndexedCapabilities(db) ==
    {i \in Capabilities : /\ HasRow(db, i)
                          /\ db.capabilities[i].type = Hash
                          /\ db.capabilities[i].certified
                          /\ ~db.capabilities[i].slashed}

-----------------------------------------------------------------------------
(* Completions and the audit log *)

\* INSERT OR REPLACE: a row that was there loses its flags.
recordCompletion(db, i, registry) ==
    [db EXCEPT !.completions[i] = [NoCompletion EXCEPT !.registry = registry]]

\* INSERT OR IGNORE.
recordIndexedCompletion(db, i, registry) ==
    IF db.completions[i].registry = 0 THEN recordCompletion(db, i, registry) ELSE db

\* The updates touch no row when there is none.
markCompletionChallenged(db, i) ==
    IF db.completions[i].registry = 0 THEN db ELSE [db EXCEPT !.completions[i].challenged = TRUE]

markCompletionResolved(db, i, upheld) ==
    IF db.completions[i].registry = 0 THEN db ELSE [db EXCEPT !.completions[i].disputed = upheld]

recordAdminAction(db, i, upheld, executed, registry) ==
    [db EXCEPT !.adminActions =
        @ \cup {[id |-> i, upheld |-> upheld, executed |-> executed, registry |-> registry]}]

-----------------------------------------------------------------------------
(* What the indexer does with a log.  The capability is read as it is now; *)
(* one that is gone leaves no row.                                         *)

applyLog(db, e, capabilities, registry) ==
    CASE e.kind = "CapabilityRegistered" /\ capabilities[e.id].live ->
            upsertIndexedCapability(db, e.id, capabilities[e.id], registry)
      [] e.kind = "CapabilityRegistered" /\ ~capabilities[e.id].live -> db
      [] e.kind = "CapabilityCertified" -> certifyIndexedCapability(db, e.id)
      [] e.kind = "CapabilitySlashed" -> slashIndexedCapability(db, e.id)
      [] e.kind = "BondWithdrawn" -> deleteIndexedCapability(db, e.id)
      [] e.kind = "SelfAttested" -> recordIndexedCompletion(db, e.id, registry)

=============================================================================
