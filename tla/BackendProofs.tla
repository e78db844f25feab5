--------------------------- MODULE BackendProofs ---------------------------
(***************************************************************************)
(* Proofs about Backend, for any number of requests under way, of          *)
(* capabilities, completions and deployments, and any scenarios.           *)
(*                                                                         *)
(* The three properties are proved together: a row is true of the chain    *)
(* because whoever wrote it had just read or done what it says, or had a   *)
(* log of it, and because on one deployment certifications, slashes and    *)
(* verdicts are never taken back (ChainKept); a redeployment changes the   *)
(* chain under the rows, and the check of the registry clears them before  *)
(* anything reads them.                                                    *)
(*                                                                         *)
(* The last part is about the page of the demo, the caller of the routes.  *)
(***************************************************************************)
EXTENDS Backend, DemoApp, TLAPS

Creators == Others \cup {AgentA}
Statuses == {"absent", "attested", "challenged", "contested", "upheld", "rejected"}
Untouched == {"absent", "attested"}
Final == {"upheld", "rejected"}

Capability ==
    [creator : Creators, type : {Hash, OtherHash}, live : BOOLEAN, certified : BOOLEAN,
     slashed : BOOLEAN]
CapabilityRow ==
    [registry : Nat, creator : Creators, type : {Hash, OtherHash, Label}, certified : BOOLEAN,
     slashed : BOOLEAN]
CompletionRow == [registry : Nat, challenged : BOOLEAN, disputed : BOOLEAN]
Log ==
    [kind : {"CapabilityRegistered", "CapabilityCertified", "CapabilitySlashed", "BondWithdrawn",
             "SelfAttested"},
     id : Nat]
Operation == [id : Completions, upheld : BOOLEAN]
AdminAction == [id : Completions, upheld : BOOLEAN, executed : BOOLEAN, registry : Nat]

\* The values of the variables, as far as the proofs need them.
ChainTyped ==
    /\ chain = [capabilities |-> chain.capabilities, tokens |-> chain.tokens,
                nextCompletionId |-> chain.nextCompletionId, completions |-> chain.completions,
                operations |-> chain.operations, logs |-> chain.logs]
    /\ chain.capabilities \in Seq(Capability)
    /\ chain.nextCompletionId \in Nat \ {0}
    /\ chain.completions \in [Completions -> Statuses]
    /\ chain.operations \subseteq Operation
    /\ chain.logs \in Seq(Log)

DbTyped ==
    db \in [capabilities : [Capabilities -> CapabilityRow],
            completions : [Completions -> CompletionRow],
            lastRegistry : Nat, cursor : Nat, adminActions : SUBSET AdminAction]

LocalsTyped ==
    /\ scenario \in Scenarios
    /\ registry \in Nat \ {0}
    /\ boot = [pc |-> boot.pc, id |-> boot.id, i |-> boot.i, total |-> boot.total]
    /\ requests \in [Requests -> [pc : {"idle", "attested", "challenged", "scheduled", "ready",
                                        "resolved", "finalized"},
                                  id : Nat, upheld : BOOLEAN]]

\* A log speaks of a capability or completion there is, and what it says is so.
LogTrue(e) ==
    /\ e.kind # "SelfAttested" => e.id \in Ids
    /\ e.kind = "CapabilityCertified" => chain.capabilities[e.id].certified
    /\ e.kind = "CapabilitySlashed" => chain.capabilities[e.id].slashed

LogsTrue == \A e \in Log, k \in 1..Len(chain.logs) : e = chain.logs[k] => LogTrue(e)

\* Ids that have not been given have no status.
Unattested ==
    \A i \in Completions : i >= chain.nextCompletionId => chain.completions[i] = "absent"

\* Rows are of the registry last noted, which is the current one when the server is up.
RowsNoted ==
    /\ \A i \in Capabilities : db.capabilities[i].registry \in {0, db.lastRegistry}
    /\ \A i \in Completions : db.completions[i].registry \in {0, db.lastRegistry}
    /\ db.lastRegistry <= registry
    /\ ~IsDown => db.lastRegistry = registry
    /\ \A a \in db.adminActions : a.registry <= registry

\* What a row says of a capability; a row with the label was written when it was certified.
CapabilityRowTrue(i) ==
    LET row == db.capabilities[i]
    IN  /\ row.registry = 0 => ~row.certified /\ ~row.slashed /\ row.type # Label
        /\ row.registry = registry =>
              /\ i \in Ids
              /\ row.certified => chain.capabilities[i].certified
              /\ row.slashed => chain.capabilities[i].slashed
              /\ row.type = Label => IsDemoCapability(i) /\ chain.capabilities[i].certified

CompletionRowTrue(i) ==
    LET row == db.completions[i]
    IN  row.registry = registry =>
            /\ row.challenged => chain.completions[i] \notin Untouched
            /\ row.disputed => chain.completions[i] = "upheld"

AdminActionTrue(a) ==
    a.registry = registry =>
        IF a.executed THEN chain.completions[a.id] = Verdict(a.upheld)
        ELSE [id |-> a.id, upheld |-> a.upheld] \in chain.operations

RowsTrue ==
    /\ \A i \in Capabilities : CapabilityRowTrue(i)
    /\ \A i \in Completions : CompletionRowTrue(i)
    /\ \A a \in db.adminActions : AdminActionTrue(a)

\* What ensureCapability knows of the capability it works on.
BootTrue ==
    /\ boot.pc \in {"cached", "serving"} =>
          IsDemoCapability(boot.id) /\ chain.capabilities[boot.id].certified
    /\ boot.pc \in {"visible", "certify"} => IsDemoCapability(boot.id)

\* What a route knows of the completion it works on.
RequestTrue(q) ==
    /\ q.pc # "idle" => q.id \in Completions /\ boot.pc = "serving"
    /\ q.pc = "challenged" => chain.completions[q.id] \notin Untouched
    /\ q.pc = "resolved" => chain.completions[q.id] = Verdict(q.upheld)
    /\ q.pc = "finalized" => chain.completions[q.id] = "upheld"
    /\ q.pc = "scheduled" => [id |-> q.id, upheld |-> q.upheld] \in chain.operations

RequestsTrue == \A r \in Requests : RequestTrue(requests[r])

IInv ==
    /\ ChainTyped /\ DbTyped /\ LocalsTyped
    /\ LogsTrue /\ Unattested
    /\ RowsNoted /\ RowsTrue
    /\ BootTrue /\ RequestsTrue

-----------------------------------------------------------------------------
(* The chain of one deployment *)

\* Nothing that a row, a route or ensureCapability may rely on is taken back.
ChainKept ==
    /\ registry' = registry
    /\ Ids \subseteq Ids'
    /\ \A i \in Ids :
          /\ chain'.capabilities[i].creator = chain.capabilities[i].creator
          /\ chain'.capabilities[i].type = chain.capabilities[i].type
          /\ chain.capabilities[i].certified => chain'.capabilities[i].certified
          /\ chain.capabilities[i].slashed => chain'.capabilities[i].slashed
    /\ \A i \in Completions :
          /\ chain.completions[i] \in Final => chain'.completions[i] = chain.completions[i]
          /\ chain.completions[i] \notin Untouched => chain'.completions[i] \notin Untouched
    /\ chain.operations \subseteq chain'.operations

ChainGood == ChainTyped /\ LogsTrue /\ Unattested

\* A step that appends one true log and keeps the capabilities there were keeps the
\* logs true.
LEMMA LogAppended ==
    ASSUME ChainGood, ChainKept, NEW e \in Log, chain'.logs = Append(chain.logs, e), LogTrue(e)'
    PROVE  chain'.logs \in Seq(Log) /\ LogsTrue'
<1>1. chain.logs \in Seq(Log) /\ LogsTrue
  BY DEF ChainGood, ChainTyped
<1>2. chain'.logs \in Seq(Log) /\ Len(chain'.logs) = Len(chain.logs) + 1
  BY <1>1
<1>3. \A k \in 1..Len(chain'.logs) :
         chain'.logs[k] = e \/ (k \in 1..Len(chain.logs) /\ chain'.logs[k] = chain.logs[k])
  BY <1>1
<1>4. ASSUME NEW f \in Log, LogTrue(f) PROVE LogTrue(f)'
  BY <1>4 DEF LogTrue, ChainKept
<1>5. ASSUME NEW f \in Log, NEW k \in 1..Len(chain'.logs), f = chain'.logs[k]
      PROVE  LogTrue(f)'
  BY <1>1, <1>3, <1>4, <1>5 DEF LogsTrue
<1> QED BY <1>2, <1>5 DEF LogsTrue

LEMMA RegisterStep ==
    ASSUME ChainGood, NEW creator \in Creators, NEW type \in {Hash, OtherHash},
           NEW i \in Nat, i = Len(chain.capabilities) + 1,
           chain' = Registered(chain, creator, type), registry' = registry
    PROVE  /\ ChainGood' /\ ChainKept
           /\ creator = AgentA /\ type = Hash => IsDemoCapability(i)'
<1> DEFINE c == [creator |-> creator, type |-> type, live |-> TRUE, certified |-> FALSE,
                 slashed |-> FALSE]
           e == [kind |-> "CapabilityRegistered", id |-> i]
<1>1. /\ chain.capabilities \in Seq(Capability)
      /\ chain.completions \in [Completions -> Statuses]
  BY DEF ChainGood, ChainTyped
<1>2. /\ chain'.capabilities = Append(chain.capabilities, c)
      /\ chain'.tokens = Append(chain.tokens, i)
      /\ chain'.nextCompletionId = chain.nextCompletionId
      /\ chain'.completions = chain.completions
      /\ chain'.operations = chain.operations
      /\ chain'.logs = Append(chain.logs, e)
      /\ chain' = [capabilities |-> chain'.capabilities, tokens |-> chain'.tokens,
                   nextCompletionId |-> chain'.nextCompletionId,
                   completions |-> chain'.completions,
                   operations |-> chain'.operations, logs |-> chain'.logs]
  BY DEF ChainGood, ChainTyped, Registered, Logged
<1>3. c \in Capability /\ e \in Log
  BY <1>1 DEF Capability, Log
<1>4. /\ chain'.capabilities \in Seq(Capability)
      /\ Len(chain'.capabilities) = i
      /\ chain'.capabilities[i] = c
      /\ \A j \in 1..Len(chain.capabilities) : chain'.capabilities[j] = chain.capabilities[j]
  <2> HIDE DEF c
  <2> QED BY <1>1, <1>2, <1>3
<1>5. ChainKept
  BY <1>1, <1>2, <1>4 DEF ChainKept, Ids
<1>6. LogTrue(e)'
  BY <1>1, <1>4 DEF LogTrue, Ids
<1>7. chain'.logs \in Seq(Log) /\ LogsTrue'
  BY <1>2, <1>3, <1>5, <1>6, LogAppended
<1>8. ChainTyped'
  BY <1>2, <1>4, <1>7 DEF ChainGood, ChainTyped
<1>9. Unattested'
  BY <1>2 DEF ChainGood, Unattested
<1>10. creator = AgentA /\ type = Hash => IsDemoCapability(i)'
  BY <1>1, <1>4 DEF IsDemoCapability, Ids
<1> QED BY <1>5, <1>7, <1>8, <1>9, <1>10 DEF ChainGood

\* A step that sets flags of one capability and says so in a log.
LEMMA FlagsStep ==
    ASSUME ChainGood, NEW i \in Ids, NEW c \in Capability, NEW e \in Log, registry' = registry,
           c.creator = chain.capabilities[i].creator, c.type = chain.capabilities[i].type,
           chain.capabilities[i].certified => c.certified,
           chain.capabilities[i].slashed => c.slashed,
           e.id = i, e.kind # "SelfAttested",
           e.kind = "CapabilityCertified" => c.certified,
           e.kind = "CapabilitySlashed" => c.slashed,
           chain'.capabilities = [chain.capabilities EXCEPT ![i] = c],
           chain'.nextCompletionId = chain.nextCompletionId,
           chain'.completions = chain.completions,
           chain'.operations = chain.operations,
           chain'.logs = Append(chain.logs, e),
           chain' = [capabilities |-> chain'.capabilities, tokens |-> chain'.tokens,
                     nextCompletionId |-> chain'.nextCompletionId,
                     completions |-> chain'.completions,
                     operations |-> chain'.operations, logs |-> chain'.logs]
    PROVE  /\ ChainGood' /\ ChainKept
           /\ i \in Ids' /\ chain'.capabilities[i] = c
<1>1. /\ chain.capabilities \in Seq(Capability) /\ i \in 1..Len(chain.capabilities)
      /\ chain.completions \in [Completions -> Statuses]
  BY DEF ChainGood, ChainTyped, Ids
<1>2. /\ chain'.capabilities \in Seq(Capability)
      /\ Len(chain'.capabilities) = Len(chain.capabilities)
      /\ chain'.capabilities[i] = c
      /\ \A j \in 1..Len(chain.capabilities) :
            j # i => chain'.capabilities[j] = chain.capabilities[j]
  BY <1>1
<1>3. ChainKept
  BY <1>1, <1>2 DEF ChainKept, Ids
<1>4. LogTrue(e)'
  BY <1>1, <1>2 DEF LogTrue, Ids
<1>5. chain'.logs \in Seq(Log) /\ LogsTrue'
  BY <1>3, <1>4, LogAppended
<1>6. ChainTyped'
  BY <1>2, <1>5 DEF ChainGood, ChainTyped
<1>7. Unattested'
  BY DEF ChainGood, Unattested
<1> QED BY <1>1, <1>2, <1>3, <1>5, <1>6, <1>7 DEF ChainGood, Ids

LEMMA CertifyStep ==
    ASSUME ChainGood, NEW i \in Ids, chain' = Certified(chain, i), registry' = registry
    PROVE  /\ ChainGood' /\ ChainKept
           /\ i \in Ids' /\ chain'.capabilities[i].certified
           /\ IsDemoCapability(i) => IsDemoCapability(i)'
<1> DEFINE c == [chain.capabilities[i] EXCEPT !.certified = TRUE]
           e == [kind |-> "CapabilityCertified", id |-> i]
<1>1. chain.capabilities[i] \in Capability /\ i \in Nat
  BY DEF ChainGood, ChainTyped, Ids
<1>2. /\ c \in Capability /\ c.certified /\ e \in Log
      /\ c.creator = chain.capabilities[i].creator /\ c.type = chain.capabilities[i].type
      /\ c.slashed = chain.capabilities[i].slashed
  BY <1>1 DEF Capability, Log
<1>3. /\ chain'.capabilities = [chain.capabilities EXCEPT ![i] = c]
      /\ chain'.nextCompletionId = chain.nextCompletionId
      /\ chain'.completions = chain.completions
      /\ chain'.operations = chain.operations
      /\ chain'.logs = Append(chain.logs, e)
      /\ chain' = [capabilities |-> chain'.capabilities, tokens |-> chain'.tokens,
                   nextCompletionId |-> chain'.nextCompletionId,
                   completions |-> chain'.completions,
                   operations |-> chain'.operations, logs |-> chain'.logs]
  BY DEF ChainGood, ChainTyped, Certified, Logged
<1>4. /\ e.id = i /\ e.kind # "SelfAttested"
      /\ e.kind = "CapabilityCertified" => c.certified
      /\ e.kind = "CapabilitySlashed" => c.slashed
  BY <1>2
<1>5. ChainGood' /\ ChainKept /\ i \in Ids' /\ chain'.capabilities[i] = c
  <2> HIDE DEF c, e
  <2> QED BY <1>2, <1>3, <1>4, FlagsStep
<1> QED BY <1>2, <1>5 DEF IsDemoCapability

LEMMA SlashStep ==
    ASSUME ChainGood, NEW i \in Ids, chain' = Slashed(chain, i), registry' = registry
    PROVE  ChainGood' /\ ChainKept
<1> DEFINE c == [chain.capabilities[i] EXCEPT !.slashed = TRUE]
           e == [kind |-> "CapabilitySlashed", id |-> i]
<1>1. chain.capabilities[i] \in Capability /\ i \in Nat
  BY DEF ChainGood, ChainTyped, Ids
<1>2. /\ c \in Capability /\ c.slashed /\ e \in Log
      /\ c.creator = chain.capabilities[i].creator /\ c.type = chain.capabilities[i].type
      /\ c.certified = chain.capabilities[i].certified
  BY <1>1 DEF Capability, Log
<1>3. /\ chain'.capabilities = [chain.capabilities EXCEPT ![i] = c]
      /\ chain'.nextCompletionId = chain.nextCompletionId
      /\ chain'.completions = chain.completions
      /\ chain'.operations = chain.operations
      /\ chain'.logs = Append(chain.logs, e)
      /\ chain' = [capabilities |-> chain'.capabilities, tokens |-> chain'.tokens,
                   nextCompletionId |-> chain'.nextCompletionId,
                   completions |-> chain'.completions,
                   operations |-> chain'.operations, logs |-> chain'.logs]
  BY DEF ChainGood, ChainTyped, Slashed, Logged
<1>4. /\ e.id = i /\ e.kind # "SelfAttested"
      /\ e.kind = "CapabilityCertified" => c.certified
      /\ e.kind = "CapabilitySlashed" => c.slashed
  BY <1>2
<1> HIDE DEF c, e
<1> QED BY <1>2, <1>3, <1>4, FlagsStep

LEMMA BurnStep ==
    ASSUME ChainGood, NEW i \in Ids, chain' = Burned(chain, i), registry' = registry
    PROVE  ChainGood' /\ ChainKept
<1> DEFINE c == [chain.capabilities[i] EXCEPT !.live = FALSE]
           e == [kind |-> "BondWithdrawn", id |-> i]
<1>1. chain.capabilities[i] \in Capability /\ i \in Nat
  BY DEF ChainGood, ChainTyped, Ids
<1>2. /\ c \in Capability /\ e \in Log
      /\ c.creator = chain.capabilities[i].creator /\ c.type = chain.capabilities[i].type
      /\ c.certified = chain.capabilities[i].certified
      /\ c.slashed = chain.capabilities[i].slashed
  BY <1>1 DEF Capability, Log
<1>3. /\ chain'.capabilities = [chain.capabilities EXCEPT ![i] = c]
      /\ chain'.nextCompletionId = chain.nextCompletionId
      /\ chain'.completions = chain.completions
      /\ chain'.operations = chain.operations
      /\ chain'.logs = Append(chain.logs, e)
      /\ chain' = [capabilities |-> chain'.capabilities, tokens |-> chain'.tokens,
                   nextCompletionId |-> chain'.nextCompletionId,
                   completions |-> chain'.completions,
                   operations |-> chain'.operations, logs |-> chain'.logs]
  BY DEF ChainGood, ChainTyped, Burned, Logged
<1>4. /\ e.id = i /\ e.kind # "SelfAttested"
      /\ e.kind = "CapabilityCertified" => c.certified
      /\ e.kind = "CapabilitySlashed" => c.slashed
  OBVIOUS
<1> HIDE DEF c, e
<1> QED BY <1>2, <1>3, <1>4, FlagsStep

LEMMA AttestStep ==
    ASSUME ChainGood, LocalsTyped, CanAttest, NEW i \in Nat, i = chain.nextCompletionId,
           chain' = Attested, registry' = registry
    PROVE  ChainGood' /\ ChainKept /\ i \in Completions
<1> DEFINE e == [kind |-> "SelfAttested", id |-> i]
<1>1. /\ chain.completions \in [Completions -> Statuses] /\ chain.nextCompletionId \in Nat \ {0}
      /\ scenario.completions \in 0..MaxCompletions
  BY BackendAssumption DEF ChainGood, ChainTyped, LocalsTyped
<1>2. i \in Completions
  BY <1>1, BackendDbAssumption DEF CanAttest, Completions
<1>3. /\ chain'.capabilities = chain.capabilities
      /\ chain'.nextCompletionId = i + 1
      /\ chain'.completions = [chain.completions EXCEPT ![i] = "attested"]
      /\ chain'.operations = chain.operations
      /\ chain'.logs = Append(chain.logs, e)
      /\ chain' = [capabilities |-> chain'.capabilities, tokens |-> chain'.tokens,
                   nextCompletionId |-> chain'.nextCompletionId,
                   completions |-> chain'.completions,
                   operations |-> chain'.operations, logs |-> chain'.logs]
  BY DEF ChainGood, ChainTyped, Attested, Is, Logged
<1>4. chain.completions[i] = "absent"
  BY <1>1, <1>2 DEF ChainGood, Unattested
<1>5. ChainKept
  BY <1>1, <1>2, <1>3, <1>4 DEF ChainKept, Ids, Final, Untouched
<1>6. e \in Log /\ LogTrue(e)'
  BY DEF Log, LogTrue
<1>7. chain'.logs \in Seq(Log) /\ LogsTrue'
  BY <1>3, <1>5, <1>6, LogAppended
<1>8. ChainTyped'
  BY <1>1, <1>2, <1>3, <1>7 DEF ChainGood, ChainTyped, Statuses
<1>9. Unattested'
  BY <1>1, <1>2, <1>3 DEF ChainGood, Unattested, Completions
<1> QED BY <1>2, <1>5, <1>7, <1>8, <1>9 DEF ChainGood

LEMMA StatusStep ==
    ASSUME ChainGood, NEW i \in Completions, NEW status \in Statuses \ Untouched,
           chain.completions[i] \notin Final, chain.completions[i] # "absent",
           chain' = Is(chain, i, status), registry' = registry
    PROVE  ChainGood' /\ ChainKept /\ chain'.completions[i] = status
<1>1. chain.completions \in [Completions -> Statuses] /\ chain.nextCompletionId \in Nat
  BY DEF ChainGood, ChainTyped
<1>2. /\ chain'.capabilities = chain.capabilities
      /\ chain'.nextCompletionId = chain.nextCompletionId
      /\ chain'.completions = [chain.completions EXCEPT ![i] = status]
      /\ chain'.operations = chain.operations
      /\ chain'.logs = chain.logs
      /\ chain' = [capabilities |-> chain'.capabilities, tokens |-> chain'.tokens,
                   nextCompletionId |-> chain'.nextCompletionId,
                   completions |-> chain'.completions,
                   operations |-> chain'.operations, logs |-> chain'.logs]
  BY DEF ChainGood, ChainTyped, Is
<1>3. ChainKept
  BY <1>1, <1>2 DEF ChainKept, Ids
<1>4. ChainTyped'
  BY <1>1, <1>2 DEF ChainGood, ChainTyped
<1>5. LogsTrue'
  BY <1>2 DEF ChainGood, LogsTrue, LogTrue, Ids
<1>6. i < chain.nextCompletionId
  BY <1>1 DEF ChainGood, Unattested, Completions
<1>7. Unattested'
  BY <1>1, <1>2, <1>6 DEF ChainGood, Unattested, Completions
<1> QED BY <1>1, <1>2, <1>3, <1>4, <1>5, <1>7 DEF ChainGood

LEMMA ScheduleStep ==
    ASSUME ChainGood, NEW o \in Operation,
           chain' = [chain EXCEPT !.operations = @ \cup {o}], registry' = registry
    PROVE  ChainGood' /\ ChainKept /\ o \in chain'.operations
<1>1. /\ chain'.capabilities = chain.capabilities
      /\ chain'.nextCompletionId = chain.nextCompletionId
      /\ chain'.completions = chain.completions
      /\ chain'.operations = chain.operations \cup {o}
      /\ chain'.logs = chain.logs
      /\ chain' = [capabilities |-> chain'.capabilities, tokens |-> chain'.tokens,
                   nextCompletionId |-> chain'.nextCompletionId,
                   completions |-> chain'.completions,
                   operations |-> chain'.operations, logs |-> chain'.logs]
  BY DEF ChainGood, ChainTyped
<1>2. ChainTyped'
  BY <1>1 DEF ChainGood, ChainTyped
<1>3. LogsTrue' /\ Unattested'
  BY <1>1 DEF ChainGood, LogsTrue, LogTrue, Ids, Unattested
<1> QED BY <1>1, <1>2, <1>3 DEF ChainGood, ChainKept, Ids

-----------------------------------------------------------------------------
(* What stays true while the chain moves on *)

LEMMA SameChain == ASSUME UNCHANGED <<chain, registry>> PROVE ChainKept
BY DEF ChainKept, Ids

\* Rows that stay remain true.
LEMMA CapabilityRowKept ==
    ASSUME ChainGood, ChainKept, DbTyped, NEW i \in Capabilities, CapabilityRowTrue(i),
           db'.capabilities[i] = db.capabilities[i]
    PROVE  CapabilityRowTrue(i)'
BY DEF ChainKept, CapabilityRowTrue, IsDemoCapability, ChainGood, ChainTyped, DbTyped

LEMMA CompletionRowKept ==
    ASSUME ChainGood, ChainKept, NEW i \in Completions, CompletionRowTrue(i),
           db'.completions[i] = db.completions[i]
    PROVE  CompletionRowTrue(i)'
BY DEF ChainKept, CompletionRowTrue, Final

LEMMA AdminActionKept ==
    ASSUME ChainGood, ChainKept, NEW a \in AdminAction, AdminActionTrue(a)
    PROVE  AdminActionTrue(a)'
BY DEF ChainKept, AdminActionTrue, AdminAction, Verdict, Final

LEMMA RowsKept ==
    ASSUME ChainGood, ChainKept, DbTyped, RowsTrue,
           NEW cursor \in Nat, UNCHANGED db \/ db' = [db EXCEPT !.cursor = cursor]
    PROVE  DbTyped' /\ RowsTrue'
<1>1. /\ DbTyped'
      /\ db'.capabilities = db.capabilities /\ db'.completions = db.completions
      /\ db'.adminActions = db.adminActions
  BY DEF DbTyped
<1>2. ASSUME NEW i \in Capabilities PROVE CapabilityRowTrue(i)'
  BY <1>1, CapabilityRowKept DEF RowsTrue
<1>3. ASSUME NEW i \in Completions PROVE CompletionRowTrue(i)'
  BY <1>1, CompletionRowKept DEF RowsTrue
<1>4. ASSUME NEW a \in db'.adminActions PROVE AdminActionTrue(a)'
  BY <1>1, AdminActionKept DEF RowsTrue, DbTyped
<1> QED BY <1>1, <1>2, <1>3, <1>4 DEF RowsTrue

LEMMA BootKept ==
    ASSUME ChainGood, ChainKept, BootTrue, UNCHANGED boot
    PROVE  BootTrue'
BY DEF ChainKept, BootTrue, IsDemoCapability

LEMMA RequestKept ==
    ASSUME ChainGood, ChainKept, NEW q, RequestTrue(q), boot'.pc = boot.pc, q.upheld \in BOOLEAN
    PROVE  RequestTrue(q)'
<1>1. chain.completions \in [Completions -> Statuses]
  BY DEF ChainGood, ChainTyped
<1> QED BY <1>1 DEF ChainKept, RequestTrue, Verdict, Final

-----------------------------------------------------------------------------
(* The writes to the database *)

\* The rows of a server that is up are of its registry or missing.
LEMMA RowsOfCurrent ==
    ASSUME RowsNoted, ~IsDown, DbTyped
    PROVE  /\ db.lastRegistry = registry
           /\ \A i \in Capabilities : db.capabilities[i].registry \in {0, registry}
           /\ \A i \in Completions : db.completions[i].registry \in {0, registry}
BY DEF RowsNoted

\* A write to one row of a table; the indexer moves its cursor as well.
CapabilityWrite(i, row) ==
    \E cursor \in Nat : db' = [db EXCEPT !.capabilities[i] = row, !.cursor = cursor]
CompletionWrite(i, row) ==
    \E cursor \in Nat : db' = [db EXCEPT !.completions[i] = row, !.cursor = cursor]

\* A write to one row of the capabilities.
LEMMA CapabilityWritten ==
    ASSUME ChainGood, ChainKept, DbTyped, RowsNoted, RowsTrue, ~IsDown,
           NEW i, NEW row \in CapabilityRow, row.registry \in {0, registry},
           i \in Capabilities /\ db'.capabilities[i] = row => CapabilityRowTrue(i)',
           CapabilityWrite(i, row)
    PROVE  DbTyped' /\ RowsNoted' /\ RowsTrue'
<1>1. /\ DbTyped'
      /\ db'.capabilities = [db.capabilities EXCEPT ![i] = row]
      /\ db'.completions = db.completions /\ db'.adminActions = db.adminActions
      /\ db'.lastRegistry = db.lastRegistry
  <2> DEFINE table == [db.capabilities EXCEPT ![i] = row]
  <2>1. table \in [Capabilities -> CapabilityRow]
    BY DEF DbTyped
  <2>2. PICK cursor \in Nat : db' = [db EXCEPT !.capabilities = table, !.cursor = cursor]
    BY DEF CapabilityWrite
  <2> HIDE DEF table
  <2>3. DbTyped'
    BY <2>1, <2>2 DEF DbTyped
  <2>4. /\ db'.capabilities = table /\ db'.completions = db.completions
        /\ db'.adminActions = db.adminActions /\ db'.lastRegistry = db.lastRegistry
    BY <2>2 DEF DbTyped
  <2> QED BY <2>3, <2>4 DEF table
<1>2. RowsNoted'
  BY <1>1, RowsOfCurrent DEF RowsNoted, DbTyped, ChainKept
<1>3. ASSUME NEW j \in Capabilities PROVE CapabilityRowTrue(j)'
  <2>1. CASE j = i
    BY <1>1, <2>1 DEF DbTyped
  <2>2. CASE j # i
    BY <1>1, <2>2, CapabilityRowKept DEF DbTyped, RowsTrue
  <2> QED BY <2>1, <2>2
<1>4. ASSUME NEW j \in Completions PROVE CompletionRowTrue(j)'
  BY <1>1, CompletionRowKept DEF RowsTrue
<1>5. ASSUME NEW a \in db'.adminActions PROVE AdminActionTrue(a)'
  BY <1>1, AdminActionKept DEF RowsTrue, DbTyped
<1> QED BY <1>1, <1>2, <1>3, <1>4, <1>5 DEF RowsTrue

\* A write to one row of the completions.
LEMMA CompletionWritten ==
    ASSUME ChainGood, ChainKept, DbTyped, RowsNoted, RowsTrue, ~IsDown,
           NEW i, NEW row \in CompletionRow, row.registry \in {0, registry},
           i \in Completions /\ db'.completions[i] = row => CompletionRowTrue(i)',
           CompletionWrite(i, row)
    PROVE  DbTyped' /\ RowsNoted' /\ RowsTrue'
<1>1. /\ DbTyped'
      /\ db'.completions = [db.completions EXCEPT ![i] = row]
      /\ db'.capabilities = db.capabilities /\ db'.adminActions = db.adminActions
      /\ db'.lastRegistry = db.lastRegistry
  <2> DEFINE table == [db.completions EXCEPT ![i] = row]
  <2>1. table \in [Completions -> CompletionRow]
    BY DEF DbTyped
  <2>2. PICK cursor \in Nat : db' = [db EXCEPT !.completions = table, !.cursor = cursor]
    BY DEF CompletionWrite
  <2> HIDE DEF table
  <2>3. DbTyped'
    BY <2>1, <2>2 DEF DbTyped
  <2>4. /\ db'.completions = table /\ db'.capabilities = db.capabilities
        /\ db'.adminActions = db.adminActions /\ db'.lastRegistry = db.lastRegistry
    BY <2>2 DEF DbTyped
  <2> QED BY <2>3, <2>4 DEF table
<1>2. RowsNoted'
  BY <1>1, RowsOfCurrent DEF RowsNoted, DbTyped, ChainKept
<1>3. ASSUME NEW j \in Completions PROVE CompletionRowTrue(j)'
  <2>1. CASE j = i
    BY <1>1, <2>1 DEF DbTyped
  <2>2. CASE j # i
    BY <1>1, <2>2, CompletionRowKept DEF DbTyped, RowsTrue
  <2> QED BY <2>1, <2>2
<1>4. ASSUME NEW j \in Capabilities PROVE CapabilityRowTrue(j)'
  BY <1>1, CapabilityRowKept DEF RowsTrue
<1>5. ASSUME NEW a \in db'.adminActions PROVE AdminActionTrue(a)'
  BY <1>1, AdminActionKept DEF RowsTrue, DbTyped
<1> QED BY <1>1, <1>2, <1>3, <1>4, <1>5 DEF RowsTrue

\* ensureCapability caches a demo capability that is certified by then.
LEMMA RecordCapabilityStep ==
    ASSUME ChainGood, ChainKept, DbTyped, LocalsTyped, RowsNoted, RowsTrue, ~IsDown,
           NEW i, IsDemoCapability(i)', chain'.capabilities[i].certified,
           db' = recordCapability(db, i, AgentA, registry)
    PROVE  DbTyped' /\ RowsNoted' /\ RowsTrue'
<1>1. PICK row \in CapabilityRow :
         row = [registry |-> registry, creator |-> AgentA, type |-> Label,
                certified |-> TRUE, slashed |-> FALSE]
  BY DEF CapabilityRow, Creators, LocalsTyped
<1>2. CapabilityWrite(i, row)
  BY <1>1 DEF recordCapability, DbTyped, CapabilityWrite
<1>3. i \in Capabilities /\ db'.capabilities[i] = row => CapabilityRowTrue(i)'
  BY <1>1 DEF CapabilityRowTrue, IsDemoCapability, ChainKept, LocalsTyped
<1> QED BY <1>1, <1>2, <1>3, CapabilityWritten

\* What the indexer writes when it applies a log.
LEMMA ApplyLogStep ==
    ASSUME ChainGood, ChainKept, UNCHANGED chain, DbTyped, LocalsTyped, RowsNoted, RowsTrue,
           ~IsDown, NEW e \in Log, LogTrue(e),
           NEW cursor \in Nat,
           db' = [applyLog(db, e, chain.capabilities, registry) EXCEPT !.cursor = cursor]
    PROVE  DbTyped' /\ RowsNoted' /\ RowsTrue'
<1>1. /\ db.capabilities \in [Capabilities -> CapabilityRow]
      /\ db.completions \in [Completions -> CompletionRow]
      /\ chain.capabilities \in Seq(Capability)
      /\ registry \in Nat \ {0}
  BY DEF DbTyped, ChainGood, ChainTyped, LocalsTyped
<1>2. ASSUME db' = [db EXCEPT !.cursor = cursor] PROVE DbTyped' /\ RowsNoted' /\ RowsTrue'
  BY <1>2, RowsKept, RowsOfCurrent DEF RowsNoted, ChainKept, DbTyped
<1>3. CASE e.kind = "CapabilityRegistered"
  <2>1. e.id \in Ids /\ chain.capabilities[e.id] \in Capability
    BY <1>1, <1>3 DEF LogTrue, Ids
  <2>2. CASE ~chain.capabilities[e.id].live
    <3>1. db' = [db EXCEPT !.cursor = cursor]
      BY <1>3, <2>1, <2>2 DEF applyLog
    <3> QED BY <1>2, <3>1
  <2>3. CASE chain.capabilities[e.id].live /\ e.id \notin Capabilities
    <3>1. db' = [db EXCEPT !.cursor = cursor]
      BY <1>1, <1>3, <2>1, <2>3, ZenonT(60) DEF applyLog, upsertIndexedCapability, DbTyped
    <3> QED BY <1>2, <3>1
  <2>4. CASE chain.capabilities[e.id].live /\ e.id \in Capabilities
    <3>1. PICK c \in Capability : c = chain.capabilities[e.id]
      BY <2>1
    <3>2. PICK row : row = [db.capabilities[e.id] EXCEPT
                              !.registry = registry, !.creator = c.creator, !.type = c.type]
      OBVIOUS
    <3>3. /\ row \in CapabilityRow /\ row.registry = registry /\ row.type = c.type
          /\ row.certified = db.capabilities[e.id].certified
          /\ row.slashed = db.capabilities[e.id].slashed
      BY <1>1, <2>4, <3>1, <3>2, ZenonT(60) DEF CapabilityRow, Capability
    <3>4. CapabilityWrite(e.id, row)
      BY <1>3, <2>4, <3>1, <3>2 DEF applyLog, CapabilityWrite, upsertIndexedCapability
    <3>5. CapabilityRowTrue(e.id) /\ db.capabilities[e.id].registry \in {0, registry}
      BY <2>4, RowsOfCurrent DEF RowsTrue
    <3>6. db'.capabilities[e.id] = row => CapabilityRowTrue(e.id)'
      BY <1>1, <2>1, <3>1, <3>3, <3>5
         DEF CapabilityRowTrue, Capability, ChainKept, Ids, IsDemoCapability, Label, Hash, OtherHash
    <3> HIDE <3>2
    <3> QED BY <3>3, <3>4, <3>6, CapabilityWritten
  <2> QED BY <2>2, <2>3, <2>4
<1>4. CASE e.kind = "CapabilityCertified" \/ e.kind = "CapabilitySlashed"
  <2>1. CASE ~HasRow(db, e.id)
    <3>1. db' = [db EXCEPT !.cursor = cursor]
      BY <1>4, <2>1 DEF applyLog, certifyIndexedCapability, slashIndexedCapability
    <3> QED BY <1>2, <3>1
  <2>2. CASE HasRow(db, e.id) /\ e.id \notin Capabilities
    <3>1. CASE e.kind = "CapabilityCertified"
      <4>1. db' = [[db EXCEPT !.capabilities[e.id].certified = TRUE] EXCEPT !.cursor = cursor]
        BY <2>2, <3>1 DEF applyLog, certifyIndexedCapability
      <4>2. [db EXCEPT !.capabilities[e.id].certified = TRUE] = db
        BY <1>1, <2>2 DEF DbTyped
      <4> QED BY <1>2, <4>1, <4>2
    <3>2. CASE e.kind = "CapabilitySlashed"
      <4>1. db' = [[db EXCEPT !.capabilities[e.id].slashed = TRUE] EXCEPT !.cursor = cursor]
        BY <2>2, <3>2 DEF applyLog, slashIndexedCapability
      <4>2. [db EXCEPT !.capabilities[e.id].slashed = TRUE] = db
        BY <1>1, <2>2 DEF DbTyped
      <4> QED BY <1>2, <4>1, <4>2
    <3> QED BY <1>4, <3>1, <3>2
  <2>3. CASE HasRow(db, e.id) /\ e.id \in Capabilities
    <3>1. CapabilityRowTrue(e.id) /\ db.capabilities[e.id].registry = registry
      BY <2>3, RowsOfCurrent DEF RowsTrue, HasRow
    <3>2. CASE e.kind = "CapabilityCertified"
      <4>1. PICK row : row = [db.capabilities[e.id] EXCEPT !.certified = TRUE]
        OBVIOUS
      <4>2. /\ row \in CapabilityRow /\ row.registry = registry /\ row.certified
            /\ row.type = db.capabilities[e.id].type
            /\ row.slashed = db.capabilities[e.id].slashed
        BY <1>1, <2>3, <3>1, <4>1 DEF CapabilityRow
      <4>3. CapabilityWrite(e.id, row)
        BY <2>3, <3>2, <4>1 DEF applyLog, CapabilityWrite, certifyIndexedCapability, DbTyped
      <4>4. db'.capabilities[e.id] = row => CapabilityRowTrue(e.id)'
        BY <1>1, <3>1, <3>2, <4>2
           DEF LogTrue, CapabilityRowTrue, ChainKept, Ids, IsDemoCapability
      <4> HIDE <4>1
      <4> QED BY <4>2, <4>3, <4>4, CapabilityWritten
    <3>3. CASE e.kind = "CapabilitySlashed"
      <4>1. PICK row : row = [db.capabilities[e.id] EXCEPT !.slashed = TRUE]
        OBVIOUS
      <4>2. /\ row \in CapabilityRow /\ row.registry = registry /\ row.slashed
            /\ row.type = db.capabilities[e.id].type
            /\ row.certified = db.capabilities[e.id].certified
        BY <1>1, <2>3, <3>1, <4>1 DEF CapabilityRow
      <4>3. CapabilityWrite(e.id, row)
        BY <2>3, <3>3, <4>1 DEF applyLog, CapabilityWrite, slashIndexedCapability, DbTyped
      <4>4. db'.capabilities[e.id] = row => CapabilityRowTrue(e.id)'
        BY <1>1, <3>1, <3>3, <4>2
           DEF LogTrue, CapabilityRowTrue, ChainKept, Ids, IsDemoCapability
      <4> HIDE <4>1
      <4> QED BY <4>2, <4>3, <4>4, CapabilityWritten
    <3> QED BY <1>4, <3>2, <3>3
  <2> QED BY <2>1, <2>2, <2>3
<1>5. CASE e.kind = "BondWithdrawn"
  <2>1. PICK row \in CapabilityRow : row = NoCapability
    BY DEF NoCapability, CapabilityRow, Creators
  <2>2. CapabilityWrite(e.id, row) /\ row.registry = 0
    BY <1>5, <2>1 DEF applyLog, CapabilityWrite, deleteIndexedCapability, NoCapability
  <2>3. e.id \in Capabilities /\ db'.capabilities[e.id] = row => CapabilityRowTrue(e.id)'
    BY <1>1, <2>1 DEF NoCapability, CapabilityRowTrue, ChainKept, Label, Hash
  <2> QED BY <2>1, <2>2, <2>3, CapabilityWritten
<1>6. CASE e.kind = "SelfAttested"
  <2>1. CASE db.completions[e.id].registry # 0
    <3>1. db' = [db EXCEPT !.cursor = cursor]
      BY <1>6, <2>1 DEF applyLog, recordIndexedCompletion
    <3> QED BY <1>2, <3>1
  <2>2. CASE db.completions[e.id].registry = 0
    <3>1. PICK row \in CompletionRow : row = [NoCompletion EXCEPT !.registry = registry]
      BY <1>1 DEF NoCompletion, CompletionRow
    <3>2. /\ row.registry = registry /\ ~row.challenged /\ ~row.disputed
          /\ CompletionWrite(e.id, row)
      BY <1>6, <2>2, <3>1
         DEF applyLog, CompletionWrite, recordIndexedCompletion, recordCompletion, NoCompletion
    <3>3. db'.completions[e.id] = row => CompletionRowTrue(e.id)'
      BY <3>2 DEF CompletionRowTrue
    <3> QED BY <3>1, <3>2, <3>3, CompletionWritten
  <2> QED BY <2>1, <2>2
<1> QED BY <1>3, <1>4, <1>5, <1>6 DEF Log

\* A write to the audit log.
LEMMA RecordAdminActionStep ==
    ASSUME ChainGood, ChainKept, DbTyped, LocalsTyped, RowsNoted, RowsTrue, ~IsDown,
           NEW i \in Completions, NEW upheld \in BOOLEAN, NEW executed \in BOOLEAN,
           IF executed THEN chain'.completions[i] = Verdict(upheld)
           ELSE [id |-> i, upheld |-> upheld] \in chain'.operations,
           db' = recordAdminAction(db, i, upheld, executed, registry)
    PROVE  DbTyped' /\ RowsNoted' /\ RowsTrue'
<1>1. PICK a \in AdminAction :
         a = [id |-> i, upheld |-> upheld, executed |-> executed, registry |-> registry]
  BY DEF AdminAction, LocalsTyped
<1>2. /\ DbTyped'
      /\ db'.capabilities = db.capabilities /\ db'.completions = db.completions
      /\ db'.lastRegistry = db.lastRegistry
      /\ db'.adminActions = db.adminActions \cup {a}
  BY <1>1 DEF DbTyped, recordAdminAction
<1>3. RowsNoted'
  <2>1. a.registry = registry /\ registry \in Nat
    BY <1>1 DEF LocalsTyped
  <2> QED BY <1>2, <2>1, RowsOfCurrent DEF RowsNoted, DbTyped, ChainKept
<1>4. AdminActionTrue(a)'
  BY <1>1 DEF AdminActionTrue
<1>5. ASSUME NEW b \in db'.adminActions PROVE AdminActionTrue(b)'
  BY <1>2, <1>4, AdminActionKept DEF RowsTrue, DbTyped
<1>6. ASSUME NEW j \in Capabilities PROVE CapabilityRowTrue(j)'
  BY <1>2, CapabilityRowKept DEF RowsTrue
<1>7. ASSUME NEW j \in Completions PROVE CompletionRowTrue(j)'
  BY <1>2, CompletionRowKept DEF RowsTrue
<1> QED BY <1>2, <1>3, <1>5, <1>6, <1>7 DEF RowsTrue

\* The two marks: they touch no row when there is none.
LEMMA MarkStep ==
    ASSUME ChainGood, ChainKept, DbTyped, RowsNoted, RowsTrue, ~IsDown,
           NEW i \in Completions, NEW upheld \in BOOLEAN,
           \/ /\ db' = markCompletionChallenged(db, i)
              /\ chain'.completions[i] \notin Untouched
           \/ /\ db' = markCompletionResolved(db, i, upheld)
              /\ upheld => chain'.completions[i] = "upheld"
    PROVE  DbTyped' /\ RowsNoted' /\ RowsTrue'
<1>1. CASE db.completions[i].registry = 0
  <2>1. UNCHANGED db
    BY <1>1 DEF markCompletionChallenged, markCompletionResolved
  <2> QED BY <2>1, RowsKept, RowsOfCurrent DEF RowsNoted, ChainKept, DbTyped
<1>2. CASE db.completions[i].registry # 0
  <2>1. /\ db.completions[i] \in CompletionRow /\ db.completions[i].registry = registry
        /\ CompletionRowTrue(i)
    BY <1>2, RowsOfCurrent DEF RowsTrue, DbTyped
  <2>2. CASE db' = markCompletionChallenged(db, i) /\ chain'.completions[i] \notin Untouched
    <3>1. PICK row : row = [db.completions[i] EXCEPT !.challenged = TRUE]
      OBVIOUS
    <3>2. /\ row \in CompletionRow /\ row.registry = registry
          /\ row.disputed = db.completions[i].disputed
          /\ CompletionWrite(i, row)
      BY <1>2, <2>1, <2>2, <3>1, ZenonT(60)
         DEF CompletionRow, CompletionWrite, markCompletionChallenged, DbTyped
    <3>3. db'.completions[i] = row => CompletionRowTrue(i)'
      BY <2>1, <2>2, <3>2 DEF CompletionRowTrue, ChainKept, Final
    <3> HIDE <3>1
    <3> QED BY <3>2, <3>3, CompletionWritten
  <2>3. CASE /\ db' = markCompletionResolved(db, i, upheld)
             /\ upheld => chain'.completions[i] = "upheld"
    <3>1. PICK row : row = [db.completions[i] EXCEPT !.disputed = upheld]
      OBVIOUS
    <3>2. /\ row \in CompletionRow /\ row.registry = registry
          /\ row.challenged = db.completions[i].challenged /\ row.disputed = upheld
          /\ CompletionWrite(i, row)
      BY <1>2, <2>1, <2>3, <3>1
         DEF CompletionRow, CompletionWrite, markCompletionResolved, DbTyped
    <3>3. db'.completions[i] = row => CompletionRowTrue(i)'
      BY <2>1, <2>3, <3>2 DEF CompletionRowTrue, ChainKept
    <3> HIDE <3>1
    <3> QED BY <3>2, <3>3, CompletionWritten
  <2> QED BY <2>2, <2>3
<1> QED BY <1>1, <1>2

-----------------------------------------------------------------------------
(* The steps *)

\* The contracts alone.
LEMMA ChainOnly ==
    ASSUME IInv, ChainGood', ChainKept, UNCHANGED <<scenario, registry, db, boot, requests>>
    PROVE  IInv'
<1>1. DbTyped' /\ RowsTrue'
  BY RowsKept DEF IInv, ChainGood
<1>2. LocalsTyped' /\ RowsNoted'
  BY DEF IInv, LocalsTyped, RowsNoted, IsDown
<1>3. BootTrue'
  BY BootKept DEF IInv, ChainGood
<1>4. ASSUME NEW r \in Requests PROVE RequestTrue(requests[r])'
  <2>1. PICK q : q = requests[r] /\ q.upheld \in BOOLEAN /\ RequestTrue(q)
    BY DEF IInv, LocalsTyped, RequestsTrue
  <2>2. requests'[r] = q
    BY <2>1
  <2>3. RequestTrue(q)'
    BY <2>1, RequestKept DEF IInv, ChainGood
  <2> QED BY <2>2, <2>3 DEF RequestTrue
<1> QED BY <1>1, <1>2, <1>3, <1>4 DEF IInv, ChainGood, RequestsTrue

\* No request is under way when the server does not serve.
LEMMA AllIdle ==
    ASSUME IInv, boot.pc # "serving", NEW r \in Requests
    PROVE  requests[r].pc = "idle"
BY DEF IInv, RequestsTrue, RequestTrue, LocalsTyped

\* A step of ensureCapability, given what it makes of the database and of boot.
LEMMA BootStep ==
    ASSUME IInv, boot.pc # "serving", ChainGood', ChainKept,
           DbTyped', RowsNoted', RowsTrue', BootTrue',
           boot' = [pc |-> boot'.pc, id |-> boot'.id, i |-> boot'.i, total |-> boot'.total],
           UNCHANGED <<scenario, registry, requests>>
    PROVE  IInv'
<1>1. LocalsTyped'
  BY DEF IInv, LocalsTyped
<1>2. ASSUME NEW r \in Requests PROVE RequestTrue(requests[r])'
  BY AllIdle DEF RequestTrue
<1> QED BY <1>1, <1>2 DEF IInv, ChainGood, RequestsTrue

\* A step of a request, given what it makes of the chain and of the database.
LEMMA RouteStep ==
    ASSUME IInv, boot.pc = "serving", ChainGood', ChainKept, DbTyped', RowsNoted', RowsTrue',
           NEW r \in Requests, NEW i \in Nat, NEW upheld \in BOOLEAN,
           NEW pc \in {"idle", "attested", "challenged", "scheduled", "ready", "resolved",
                       "finalized"},
           Goes(r, pc, i, upheld),
           RequestTrue([pc |-> pc, id |-> i, upheld |-> upheld])'
    PROVE  IInv'
<1>1. LocalsTyped'
  BY DEF IInv, LocalsTyped, Goes
<1>2. BootTrue'
  BY BootKept DEF IInv, ChainGood, Goes
<1>3. ASSUME NEW s \in Requests PROVE RequestTrue(requests[s])'
  <2>1. CASE s = r
    <3>1. requests'[s] = [pc |-> pc, id |-> i, upheld |-> upheld]
      BY <2>1 DEF IInv, LocalsTyped, Goes
    <3> QED BY <3>1 DEF RequestTrue
  <2>2. CASE s # r
    <3>1. PICK q : q = requests[s] /\ q.upheld \in BOOLEAN /\ RequestTrue(q)
      BY DEF IInv, LocalsTyped, RequestsTrue
    <3>2. requests'[s] = q
      BY <2>2, <3>1 DEF IInv, LocalsTyped, Goes
    <3>3. RequestTrue(q)'
      BY <3>1, RequestKept DEF IInv, ChainGood, Goes
    <3> QED BY <3>2, <3>3 DEF RequestTrue
  <2> QED BY <2>1, <2>2
<1> QED BY <1>1, <1>2, <1>3 DEF IInv, ChainGood, RequestsTrue

\* The process ends.
LEMMA ExitStep ==
    ASSUME IInv, NEW pc \in {"down", "failed"}, Exit(pc)
    PROVE  IInv'
<1>1. UNCHANGED <<scenario, registry, chain, db>> /\ boot'.pc = pc
  BY DEF Exit, Down
<1>2. ChainGood' /\ ChainGood /\ ChainKept
  BY <1>1, SameChain DEF IInv, ChainGood, ChainTyped, LogsTrue, LogTrue, Unattested, Ids
<1>3. DbTyped' /\ RowsTrue'
  BY <1>1, <1>2, RowsKept DEF IInv
<1>4. RowsNoted' /\ BootTrue'
  BY <1>1 DEF IInv, RowsNoted, IsDown, BootTrue
<1>5. LocalsTyped' /\ RequestsTrue'
  BY <1>1 DEF IInv, LocalsTyped, Exit, Down, NoRequest, RequestsTrue, RequestTrue
<1> QED BY <1>2, <1>3, <1>4, <1>5 DEF IInv, ChainGood

LEMMA UnchangedStep ==
    ASSUME IInv, UNCHANGED vars
    PROVE  IInv'
<1>1. ChainGood' /\ ChainGood /\ ChainKept
  BY SameChain DEF IInv, vars, ChainGood, ChainTyped, LogsTrue, LogTrue, Unattested, Ids
<1> QED BY <1>1, ChainOnly DEF vars

\* The clearing of one table or both, whatever becomes of the noted registry.
LEMMA ClearedStep ==
    ASSUME IInv, UNCHANGED <<chain, registry>>, NEW noted \in Nat,
           NEW capabilities \in {db.capabilities, EmptyDb.capabilities},
           NEW completions \in {db.completions, EmptyDb.completions},
           NEW cursor \in Nat,
           db' = [capabilities |-> capabilities, completions |-> completions,
                  lastRegistry |-> noted, cursor |-> cursor, adminActions |-> db.adminActions]
    PROVE  DbTyped' /\ RowsTrue' /\ ChainGood /\ ChainGood' /\ ChainKept
<1>1. ChainGood' /\ ChainGood /\ ChainKept
  BY SameChain DEF IInv, ChainGood, ChainTyped, LogsTrue, LogTrue, Unattested, Ids
<1>2. DbTyped'
  <2>1. /\ db.capabilities \in [Capabilities -> CapabilityRow]
        /\ db.completions \in [Completions -> CompletionRow]
        /\ db.adminActions \in SUBSET AdminAction
    BY DEF IInv, DbTyped
  <2>2. NoCapability \in CapabilityRow /\ NoCompletion \in CompletionRow
    BY DEF NoCapability, NoCompletion, CapabilityRow, CompletionRow, Creators
  <2>3. /\ capabilities \in [Capabilities -> CapabilityRow]
        /\ completions \in [Completions -> CompletionRow]
    BY <2>1, <2>2 DEF EmptyDb
  <2> QED BY <2>1, <2>3 DEF DbTyped
<1>3. ASSUME NEW i \in Capabilities PROVE CapabilityRowTrue(i)'
  <2>1. CASE db'.capabilities = db.capabilities
    BY <1>1, <2>1, CapabilityRowKept DEF IInv, RowsTrue
  <2>2. CASE db'.capabilities = EmptyDb.capabilities
    BY <1>1, <2>2
       DEF IInv, LocalsTyped, EmptyDb, NoCapability, CapabilityRowTrue, Label, Hash, ChainKept
  <2> QED BY <2>1, <2>2
<1>4. ASSUME NEW i \in Completions PROVE CompletionRowTrue(i)'
  <2>1. CASE db'.completions = db.completions
    BY <1>1, <2>1, CompletionRowKept DEF IInv, RowsTrue
  <2>2. CASE db'.completions = EmptyDb.completions
    BY <1>1, <2>2 DEF IInv, LocalsTyped, EmptyDb, NoCompletion, CompletionRowTrue, ChainKept
  <2> QED BY <2>1, <2>2
<1>5. ASSUME NEW a \in db'.adminActions PROVE AdminActionTrue(a)'
  BY <1>1, <1>5, AdminActionKept DEF IInv, RowsTrue, DbTyped
<1> QED BY <1>1, <1>2, <1>3, <1>4, <1>5 DEF RowsTrue

LEMMA StartStep == ASSUME IInv, start PROVE IInv'
<1>1. /\ IsDown /\ UNCHANGED <<scenario, registry, chain, requests>>
      /\ registry \in Nat \ {0} /\ db.lastRegistry \in Nat
      /\ db' = Invalidated /\ boot' \in Lookup(db')
  BY DEF start, IInv, LocalsTyped, DbTyped
<1>2. boot.pc # "serving" /\ boot.pc \in {"down", "failed"}
  BY <1>1 DEF IsDown
<1>3. PICK capabilities \in {db.capabilities, EmptyDb.capabilities},
           completions \in {db.completions, EmptyDb.completions}, cursor \in Nat :
         /\ db' = [capabilities |-> capabilities, completions |-> completions,
                   lastRegistry |-> registry, cursor |-> cursor,
                   adminActions |-> db.adminActions]
         /\ RegistryChanged => /\ capabilities = EmptyDb.capabilities
                               /\ completions = EmptyDb.completions
         /\ ~RegistryChanged => /\ capabilities = db.capabilities
                                /\ completions = db.completions
  BY <1>1 DEF Invalidated, IInv, DbTyped
<1>4. DbTyped' /\ RowsTrue' /\ ChainGood' /\ ChainKept
  <2> HIDE <1>3
  <2> QED BY <1>1, <1>3, ClearedStep
<1>5. /\ \A i \in Capabilities : db'.capabilities[i].registry \in {0, registry}
      /\ \A i \in Completions : db'.completions[i].registry \in {0, registry}
  BY <1>1, <1>3 DEF IInv, RowsNoted, RegistryChanged, EmptyDb, NoCapability, NoCompletion
<1>6. RowsNoted'
  BY <1>1, <1>3, <1>5 DEF IInv, RowsNoted
<1>7. \/ boot' = [pc |-> "supply", id |-> 0, i |-> 0, total |-> 0]
      \/ \E dbId \in isCapabilityRegistered(db', AgentA, Label) :
            boot' = [pc |-> "cached", id |-> dbId, i |-> 0, total |-> 0]
  BY <1>1 DEF Lookup, Down
<1>8. BootTrue'
  <2>1. CASE boot' = [pc |-> "supply", id |-> 0, i |-> 0, total |-> 0]
    BY <2>1 DEF BootTrue
  <2>2. ASSUME NEW dbId \in isCapabilityRegistered(db', AgentA, Label),
               boot' = [pc |-> "cached", id |-> dbId, i |-> 0, total |-> 0]
        PROVE  BootTrue'
    <3>1. /\ dbId \in Capabilities /\ db'.capabilities[dbId].registry # 0
          /\ db'.capabilities[dbId].type = Label
      BY DEF isCapabilityRegistered
    <3>2. IsDemoCapability(dbId)' /\ chain'.capabilities[dbId].certified
      BY <1>1, <1>4, <1>5, <3>1 DEF RowsTrue, CapabilityRowTrue
    <3> QED BY <2>2, <3>2 DEF BootTrue, IsDemoCapability
  <2> QED BY <1>7, <2>1, <2>2
<1> QED BY <1>1, <1>2, <1>4, <1>6, <1>7, <1>8, BootStep

LEMMA DieInvalidatingStep == ASSUME IInv, dieInvalidating PROVE IInv'
<1>1. IsDown /\ UNCHANGED <<scenario, registry, chain, boot, requests>>
  BY DEF dieInvalidating
<1>2. PICK completions \in {db.completions, EmptyDb.completions}, noted \in Nat, cursor \in Nat :
         /\ db' = [capabilities |-> EmptyDb.capabilities, completions |-> completions,
                   lastRegistry |-> noted, cursor |-> cursor,
                   adminActions |-> db.adminActions]
         /\ noted = db.lastRegistry
  BY DEF dieInvalidating, IInv, DbTyped
<1>3. DbTyped' /\ RowsTrue' /\ ChainGood' /\ ChainKept
  <2> HIDE <1>2
  <2> QED BY <1>1, <1>2, ClearedStep
<1>4. RowsNoted'
  BY <1>1, <1>2 DEF IInv, RowsNoted, IsDown, EmptyDb, NoCapability, NoCompletion
<1>5. BootTrue' /\ boot.pc # "serving"
  BY <1>1 DEF IInv, BootTrue, IsDown
<1>6. boot' = [pc |-> boot'.pc, id |-> boot'.id, i |-> boot'.i, total |-> boot'.total]
  BY <1>1 DEF IInv, LocalsTyped
<1> QED BY <1>1, <1>3, <1>4, <1>5, <1>6, BootStep

\* The chain is as it was, and a call of ensureCapability is answered.
LEMMA AnswerStep ==
    ASSUME IInv, ~IsDown, boot.pc # "serving", boot'.pc \notin {"down", "failed"},
           UNCHANGED <<scenario, registry, chain, db, requests>>, BootTrue',
           boot' = [pc |-> boot'.pc, id |-> boot'.id, i |-> boot'.i, total |-> boot'.total]
    PROVE  IInv'
<1>1. ChainGood' /\ ChainGood /\ ChainKept
  BY SameChain DEF IInv, ChainGood, ChainTyped, LogsTrue, LogTrue, Unattested, Ids
<1>2. DbTyped' /\ RowsTrue'
  BY <1>1, RowsKept DEF IInv
<1>3. RowsNoted'
  BY DEF IInv, RowsNoted
<1> QED BY <1>1, <1>2, <1>3, BootStep

LEMMA CheckCachedStep == ASSUME IInv, checkCached PROVE IInv'
<1>1. /\ boot.pc = "cached" /\ ~IsDown
      /\ UNCHANGED <<scenario, registry, db, requests>>
      /\ boot' = [pc |-> "serving", id |-> boot.id, i |-> 0, total |-> 0]
      /\ IsDemoCapability(boot.id) /\ chain.capabilities[boot.id].certified
  BY DEF checkCached, IsDown, Serve, Down, IInv, BootTrue
<1>2. UNCHANGED chain
  BY <1>1 DEF checkCached
<1>3. BootTrue'
  BY <1>1, <1>2 DEF BootTrue, IsDemoCapability, Ids
<1> QED BY <1>1, <1>2, <1>3, AnswerStep

LEMMA CallStep ==
    ASSUME IInv, \/ cachedFails
                 \/ totalSupply
                 \/ \E i \in 0..MaxCapabilities : tokenByIndex(i)
                 \/ skipCapability
                 \/ seeCapability
    PROVE  IInv'
<1>1. /\ ~IsDown /\ boot.pc # "serving"
      /\ UNCHANGED <<scenario, registry, chain, db, requests>>
  BY DEF cachedFails, totalSupply, tokenByIndex, skipCapability, seeCapability, IsDown
<1>2. /\ boot'.pc \in {"supply", "token", "register", "capability", "certify"}
      /\ boot'.pc = "certify" => boot.pc = "visible" /\ boot'.id = boot.id
      /\ boot' = [pc |-> boot'.pc, id |-> boot'.id, i |-> boot'.i, total |-> boot'.total]
  BY DEF cachedFails, totalSupply, tokenByIndex, skipCapability, seeCapability, NextToken, Down,
         IInv, LocalsTyped
<1>3. BootTrue'
  BY <1>1, <1>2 DEF IInv, BootTrue, IsDemoCapability, Ids
<1> QED BY <1>1, <1>2, <1>3, AnswerStep

LEMMA GetCapabilityStep == ASSUME IInv, NEW i \in Nat, getCapability(i) PROVE IInv'
<1>1. /\ boot.pc = "capability" /\ ~IsDown /\ boot.pc # "serving"
      /\ UNCHANGED <<scenario, registry, chain, requests>>
  BY DEF getCapability, IsDown
<1>2. ChainGood' /\ ChainGood /\ ChainKept
  BY <1>1, SameChain DEF IInv, ChainGood, ChainTyped, LogsTrue, LogTrue, Unattested, Ids
<1>3. CASE ~IsDemoCapability(boot.id)
  <2>1. /\ UNCHANGED db
        /\ boot'.pc \in {"token", "register"}
        /\ boot' = [pc |-> boot'.pc, id |-> boot'.id, i |-> boot'.i, total |-> boot'.total]
    BY <1>3 DEF getCapability, NextToken, Down
  <2>2. BootTrue'
    BY <2>1 DEF BootTrue
  <2> QED BY <1>1, <2>1, <2>2, AnswerStep
<1>4. CASE IsDemoCapability(boot.id) /\ ~chain.capabilities[boot.id].certified
  <2>1. /\ UNCHANGED db
        /\ boot'.pc = "certify" /\ boot'.id = boot.id
        /\ boot' = [pc |-> boot'.pc, id |-> boot'.id, i |-> boot'.i, total |-> boot'.total]
    BY <1>4 DEF getCapability, IInv, LocalsTyped
  <2>2. BootTrue'
    BY <1>1, <1>4, <2>1 DEF BootTrue, IsDemoCapability, Ids
  <2> QED BY <1>1, <2>1, <2>2, AnswerStep
<1>5. CASE IsDemoCapability(boot.id) /\ chain.capabilities[boot.id].certified
  <2>1. PICK id : id = boot.id
    OBVIOUS
  <2>2. /\ db' = recordCapability(db, id, AgentA, registry)
        /\ boot' = [pc |-> "serving", id |-> id, i |-> 0, total |-> 0]
    BY <1>5, <2>1 DEF getCapability, Serve, Down
  <2>3. IsDemoCapability(id)' /\ chain'.capabilities[id].certified
    BY <1>1, <1>5, <2>1 DEF IsDemoCapability, Ids
  <2>4. DbTyped' /\ RowsNoted' /\ RowsTrue'
    <3>1. RowsNoted'
      BY <1>1, <1>2, <2>2, <2>3, RecordCapabilityStep DEF IInv
    <3> QED BY <1>1, <1>2, <2>2, <2>3, <3>1, RecordCapabilityStep DEF IInv
  <2>5. BootTrue'
    BY <2>2, <2>3 DEF BootTrue, IsDemoCapability
  <2> QED BY <1>1, <1>2, <2>2, <2>4, <2>5, BootStep
<1> QED BY <1>3, <1>4, <1>5

LEMMA RegisterCapabilityEthStep == ASSUME IInv, registerCapabilityEth PROVE IInv'
<1>1. PICK i \in Nat : i = Len(chain.capabilities) + 1
  BY DEF IInv, ChainTyped
<1>2. /\ boot.pc = "register" /\ ~IsDown /\ boot.pc # "serving"
      /\ UNCHANGED <<scenario, registry, db, requests>>
      /\ chain' = Registered(chain, AgentA, Hash)
      /\ boot'.pc = "visible" /\ boot'.id = i
      /\ boot' = [pc |-> boot'.pc, id |-> boot'.id, i |-> boot'.i, total |-> boot'.total]
  BY <1>1 DEF registerCapabilityEth, IsDown, IInv, LocalsTyped
<1>3. ChainGood /\ AgentA \in Creators
  BY DEF IInv, ChainGood, Creators
<1>4. ChainGood' /\ ChainKept /\ IsDemoCapability(i)'
  BY <1>1, <1>2, <1>3, RegisterStep
<1>5. DbTyped' /\ RowsTrue'
  BY <1>2, <1>3, <1>4, RowsKept DEF IInv
<1>6. RowsNoted'
  BY <1>2 DEF IInv, RowsNoted
<1>7. BootTrue'
  BY <1>2, <1>4 DEF BootTrue, IsDemoCapability
<1> QED BY <1>2, <1>4, <1>5, <1>6, <1>7, BootStep

LEMMA CertifyAndRecordStep == ASSUME IInv, certifyAndRecord PROVE IInv'
<1>1. PICK i : i = boot.id
  OBVIOUS
<1>2. /\ boot.pc = "certify" /\ ~IsDown /\ boot.pc # "serving"
      /\ UNCHANGED <<scenario, registry, requests>>
      /\ chain' = Certified(chain, i)
      /\ db' = recordCapability(db, i, AgentA, registry)
      /\ boot' = [pc |-> "serving", id |-> i, i |-> 0, total |-> 0]
  BY <1>1 DEF certifyAndRecord, IsDown, Serve, Down
<1>3. ChainGood /\ IsDemoCapability(i) /\ i \in Ids
  BY <1>1, <1>2 DEF IInv, ChainGood, BootTrue, IsDemoCapability
<1>4. ChainGood' /\ ChainKept /\ IsDemoCapability(i)' /\ chain'.capabilities[i].certified
  BY <1>2, <1>3, CertifyStep
<1>5. DbTyped' /\ RowsNoted' /\ RowsTrue'
  BY <1>2, <1>3, <1>4, RecordCapabilityStep DEF IInv
<1>6. BootTrue'
  BY <1>2, <1>4 DEF BootTrue, IsDemoCapability
<1> QED BY <1>2, <1>4, <1>5, <1>6, BootStep

\* The check of a cached capability never has to certify it; were it not certified, the
\* step would still do no harm.
LEMMA EnsureCapabilityStep == ASSUME IInv, ensureCapability PROVE IInv'
<1>1. ASSUME NEW i \in 0..MaxCapabilities, getCapability(i) PROVE IInv'
  BY <1>1, GetCapabilityStep
<1>2. CASE throw
  BY <1>2, ExitStep DEF throw
<1> QED BY <1>1, <1>2, StartStep, DieInvalidatingStep, CheckCachedStep, CallStep,
           RegisterCapabilityEthStep, CertifyAndRecordStep
        DEF ensureCapability

LEMMA RedeployStep == ASSUME IInv, redeploy PROVE IInv'
<1>1. /\ IsDown /\ boot.pc # "serving" /\ registry' = registry + 1 /\ registry \in Nat \ {0}
      /\ UNCHANGED <<scenario, boot, requests>>
      /\ chain' = NewChain
      /\ db' = [db EXCEPT !.cursor = 0]
  BY DEF redeploy, IsDown, IInv, LocalsTyped
<1>2. ChainTyped'
  <2>1. /\ NewChain.capabilities = << >> /\ NewChain.logs = << >>
        /\ NewChain.nextCompletionId = 1 /\ NewChain.operations = {}
        /\ NewChain.completions = [i \in Completions |-> "absent"]
        /\ NewChain = [capabilities |-> NewChain.capabilities, tokens |-> NewChain.tokens,
                       nextCompletionId |-> NewChain.nextCompletionId,
                       completions |-> NewChain.completions,
                       operations |-> NewChain.operations, logs |-> NewChain.logs]
    BY DEF NewChain
  <2>2. [i \in Completions |-> "absent"] \in [Completions -> Statuses]
    BY DEF Statuses
  <2> QED BY <1>1, <2>1, <2>2 DEF ChainTyped
<1>3. LogsTrue' /\ Unattested'
  BY <1>1 DEF NewChain, LogsTrue, Unattested
<1>4. /\ db'.capabilities = db.capabilities /\ db'.completions = db.completions
      /\ db'.adminActions = db.adminActions /\ db'.lastRegistry = db.lastRegistry
      /\ DbTyped'
  BY <1>1 DEF IInv, DbTyped
<1>5. /\ \A i \in Capabilities : db.capabilities[i].registry # registry'
      /\ \A i \in Completions : db.completions[i].registry # registry'
      /\ \A a \in db.adminActions : a.registry <= registry /\ a.registry \in Nat
  BY <1>1 DEF IInv, RowsNoted, DbTyped, AdminAction
<1>6. RowsNoted'
  BY <1>1, <1>4, <1>5 DEF IInv, RowsNoted, IsDown, DbTyped
<1>7. ASSUME NEW i \in Capabilities PROVE CapabilityRowTrue(i)'
  BY <1>4, <1>5 DEF IInv, RowsTrue, CapabilityRowTrue
<1>8. ASSUME NEW i \in Completions PROVE CompletionRowTrue(i)'
  BY <1>4, <1>5 DEF CompletionRowTrue
<1>9. ASSUME NEW a \in db'.adminActions PROVE AdminActionTrue(a)'
  BY <1>1, <1>4, <1>5 DEF AdminActionTrue
<1>10. BootTrue' /\ LocalsTyped'
  BY <1>1 DEF IInv, BootTrue, IsDown, LocalsTyped
<1>11. ASSUME NEW r \in Requests PROVE RequestTrue(requests[r])'
  BY <1>1, AllIdle DEF RequestTrue
<1> QED BY <1>2, <1>3, <1>4, <1>6, <1>7, <1>8, <1>9, <1>10, <1>11
        DEF IInv, RowsTrue, RequestsTrue

LEMMA IndexLogStep == ASSUME IInv, indexLog PROVE IInv'
<1>1. /\ boot.pc = "serving" /\ ~IsDown
      /\ UNCHANGED <<scenario, registry, chain, boot, requests>>
      /\ db.cursor \in Nat /\ db.cursor < Len(chain.logs)
  BY DEF indexLog, IsDown, IInv, DbTyped
<1>2. ChainGood' /\ ChainGood /\ ChainKept
  BY <1>1, SameChain DEF IInv, ChainGood, ChainTyped, LogsTrue, LogTrue, Unattested, Ids
<1>3. PICK e \in Log : e = chain.logs[db.cursor + 1] /\ LogTrue(e)
  BY <1>1 DEF IInv, ChainTyped, LogsTrue
<1>4. PICK cursor \in Nat :
         db' = [applyLog(db, e, chain.capabilities, registry) EXCEPT !.cursor = cursor]
  <2>1. applyLog(db, e, chain.capabilities, registry).cursor = db.cursor
    BY <1>1, <1>3 DEF applyLog, upsertIndexedCapability, certifyIndexedCapability,
          slashIndexedCapability, deleteIndexedCapability, recordIndexedCompletion,
          recordCompletion, Log, IInv, DbTyped
  <2>2. PICK applied : applied = applyLog(db, e, chain.capabilities, registry)
    OBVIOUS
  <2>3. db' = [applied EXCEPT !.cursor = applied.cursor + 1]
    BY <1>3, <2>2 DEF indexLog
  <2>4. PICK cursor \in Nat : cursor = applied.cursor + 1
    BY <1>1, <2>1, <2>2
  <2>5. db' = [applied EXCEPT !.cursor = cursor]
    BY <2>3, <2>4, Zenon
  <2> QED BY <2>2, <2>5, Zenon
<1>5. DbTyped' /\ RowsNoted' /\ RowsTrue'
  BY <1>1, <1>2, <1>3, <1>4, ApplyLogStep DEF IInv
<1>6. LocalsTyped' /\ BootTrue'
  BY <1>1, <1>2, BootKept DEF IInv, LocalsTyped
<1>7. ASSUME NEW r \in Requests PROVE RequestTrue(requests[r])'
  <2>1. PICK q : q = requests[r] /\ q.upheld \in BOOLEAN /\ RequestTrue(q)
    BY DEF IInv, LocalsTyped, RequestsTrue
  <2>2. requests'[r] = q
    BY <1>1, <2>1
  <2>3. RequestTrue(q)'
    BY <1>1, <1>2, <2>1, RequestKept
  <2> QED BY <2>2, <2>3 DEF RequestTrue
<1> QED BY <1>2, <1>5, <1>6, <1>7 DEF IInv, ChainGood, RequestsTrue

\* Other wallets.
LEMMA OthersStep ==
    ASSUME IInv,
           \/ \E c \in Creators, t \in {Hash, OtherHash} : othersRegister(c, t)
           \/ \E i \in Capabilities : certifyCapability(i) \/ slashCapability(i) \/ withdrawBond(i)
           \/ attestCompletion
    PROVE  IInv'
<1>1. ChainGood /\ LocalsTyped
  BY DEF IInv, ChainGood
<1>2. UNCHANGED <<scenario, registry, db, boot, requests>>
  BY DEF othersRegister, certifyCapability, slashCapability, withdrawBond, attestCompletion
<1>3. ASSUME NEW c \in Creators, NEW t \in {Hash, OtherHash}, othersRegister(c, t)
      PROVE  ChainGood' /\ ChainKept
  <2>1. PICK i \in Nat : i = Len(chain.capabilities) + 1
    BY DEF IInv, ChainTyped
  <2>2. chain' = Registered(chain, c, t)
    BY <1>3 DEF othersRegister
  <2> QED BY <1>1, <1>2, <2>1, <2>2, RegisterStep
<1>4. ASSUME NEW i \in Capabilities, certifyCapability(i) PROVE ChainGood' /\ ChainKept
  <2>1. i \in Ids /\ chain' = Certified(chain, i)
    BY <1>4 DEF certifyCapability, Live
  <2> QED BY <1>1, <1>2, <2>1, CertifyStep
<1>5. ASSUME NEW i \in Capabilities, slashCapability(i) PROVE ChainGood' /\ ChainKept
  <2>1. i \in Ids /\ chain' = Slashed(chain, i)
    BY <1>5 DEF slashCapability, Live
  <2> QED BY <1>1, <1>2, <2>1, SlashStep
<1>6. ASSUME NEW i \in Capabilities, withdrawBond(i) PROVE ChainGood' /\ ChainKept
  <2>1. i \in Ids /\ chain' = Burned(chain, i)
    BY <1>6 DEF withdrawBond, Live
  <2> QED BY <1>1, <1>2, <2>1, BurnStep
<1>7. ASSUME attestCompletion PROVE ChainGood' /\ ChainKept
  <2>1. PICK i \in Nat : i = chain.nextCompletionId
    BY DEF IInv, ChainTyped
  <2>2. CanAttest /\ chain' = Attested
    BY <1>7 DEF attestCompletion
  <2> QED BY <1>1, <1>2, <2>1, <2>2, AttestStep
<1>8. ChainGood' /\ ChainKept
  BY <1>3, <1>4, <1>5, <1>6, <1>7
<1> QED BY <1>2, <1>8, ChainOnly

LEMMA DisputeStep ==
    ASSUME IInv, NEW i \in Completions,
           \/ challengeCompletion(i)
           \/ contestChallenge(i)
           \/ finalizeChallenge(i)
           \/ cancelChallenge(i)
           \/ \E upheld \in BOOLEAN : executeScheduled(i, upheld)
    PROVE  IInv'
<1>1. ChainGood
  BY DEF IInv, ChainGood
<1>2. /\ UNCHANGED <<scenario, registry, db, boot, requests>>
      /\ chain.completions[i] \in {"attested", "challenged", "contested"}
  BY DEF challengeCompletion, contestChallenge, finalizeChallenge, cancelChallenge, OnChain,
         executeScheduled, Pending
<1>3. PICK status \in Statuses \ Untouched : chain' = Is(chain, i, status)
  BY DEF challengeCompletion, contestChallenge, finalizeChallenge, cancelChallenge, OnChain,
         executeScheduled, Verdict, Statuses, Untouched
<1>4. chain.completions[i] \notin Final /\ chain.completions[i] # "absent"
  BY <1>2 DEF Final
<1>5. ChainGood' /\ ChainKept
  BY <1>1, <1>2, <1>3, <1>4, StatusStep
<1> QED BY <1>2, <1>5, ChainOnly

\* A request whose transaction is mined.
LEMMA MinedStep ==
    ASSUME IInv, boot.pc = "serving", ChainGood', ChainKept, UNCHANGED db,
           NEW r \in Requests, NEW i \in Completions, NEW upheld \in BOOLEAN,
           NEW pc \in {"attested", "challenged", "scheduled", "ready", "resolved", "finalized"},
           Goes(r, pc, i, upheld),
           pc = "challenged" => chain'.completions[i] \notin Untouched,
           pc = "resolved" => chain'.completions[i] = Verdict(upheld),
           pc = "finalized" => chain'.completions[i] = "upheld",
           pc = "scheduled" => [id |-> i, upheld |-> upheld] \in chain'.operations
    PROVE  IInv'
<1>1. DbTyped' /\ RowsTrue'
  BY RowsKept DEF IInv, ChainGood
<1>2. RowsNoted'
  BY DEF IInv, RowsNoted, IsDown, Goes
<1>3. RequestTrue([pc |-> pc, id |-> i, upheld |-> upheld])'
  BY DEF RequestTrue, Goes
<1>4. i \in Nat
  BY DEF Completions
<1> QED BY <1>1, <1>2, <1>3, <1>4, RouteStep

\* A request that ends, having written to the database or not.
LEMMA EndStep ==
    ASSUME IInv, boot.pc = "serving", UNCHANGED chain, NEW r \in Requests, Ends(r),
           ChainGood /\ ChainGood' /\ ChainKept => DbTyped' /\ RowsNoted' /\ RowsTrue'
    PROVE  IInv'
<1>1. Goes(r, "idle", 0, FALSE) /\ UNCHANGED <<registry, boot>>
  BY DEF Ends, Goes
<1>2. ChainGood' /\ ChainGood /\ ChainKept
  BY <1>1, SameChain DEF IInv, ChainGood, ChainTyped, LogsTrue, LogTrue, Unattested, Ids
<1>3. RequestTrue([pc |-> "idle", id |-> 0, upheld |-> FALSE])'
  BY DEF RequestTrue
<1> QED BY <1>1, <1>2, <1>3, RouteStep

LEMMA TransactionStep ==
    ASSUME IInv, NEW r \in Requests,
           \/ attestDemo(r)
           \/ \E i \in Completions :
                 \/ challengeRoute(r, i)
                 \/ finalizeRoute(r, i)
                 \/ \E upheld \in BOOLEAN : scheduleResolve(r, i, upheld)
                                            \/ resolveDirectly(r, i, upheld)
           \/ executeNow(r)
    PROVE  IInv'
<1>1. ChainGood /\ LocalsTyped
  BY DEF IInv, ChainGood
<1>2. CASE attestDemo(r)
  <2>1. PICK i \in Nat : i = chain.nextCompletionId
    BY DEF IInv, ChainTyped
  <2>2. /\ boot.pc = "serving" /\ CanAttest /\ chain' = Attested /\ registry' = registry
        /\ UNCHANGED db /\ Goes(r, "attested", i, FALSE)
    BY <1>2, <2>1 DEF attestDemo, Waits, Goes
  <2>3. ChainGood' /\ ChainKept /\ i \in Completions
    BY <1>1, <2>1, <2>2, AttestStep
  <2> QED BY <2>2, <2>3, MinedStep
<1>3. ASSUME NEW i \in Completions, challengeRoute(r, i) PROVE IInv'
  <2>1. /\ boot.pc = "serving" /\ chain' = Is(chain, i, "challenged") /\ registry' = registry
        /\ UNCHANGED db /\ Goes(r, "challenged", i, FALSE)
        /\ chain.completions[i] \notin Final /\ chain.completions[i] # "absent"
        /\ "challenged" \in Statuses \ Untouched
    BY <1>3 DEF challengeRoute, Waits, Goes, Final, Statuses, Untouched
  <2>2. ChainGood' /\ ChainKept /\ chain'.completions[i] \notin Untouched
    BY <1>1, <2>1, StatusStep
  <2> QED BY <2>1, <2>2, MinedStep
<1>4. ASSUME NEW i \in Completions, finalizeRoute(r, i) PROVE IInv'
  <2>1. /\ boot.pc = "serving" /\ chain' = Is(chain, i, "upheld") /\ registry' = registry
        /\ UNCHANGED db /\ Goes(r, "finalized", i, TRUE)
        /\ chain.completions[i] \notin Final /\ chain.completions[i] # "absent"
        /\ "upheld" \in Statuses \ Untouched
    BY <1>4 DEF finalizeRoute, Waits, Goes, Final, Statuses, Untouched
  <2>2. ChainGood' /\ ChainKept /\ chain'.completions[i] = "upheld"
    BY <1>1, <2>1, StatusStep
  <2> QED BY <2>1, <2>2, MinedStep
<1>5. ASSUME NEW i \in Completions, NEW upheld \in BOOLEAN, scheduleResolve(r, i, upheld)
      PROVE  IInv'
  <2>1. PICK o \in Operation : o = [id |-> i, upheld |-> upheld]
    BY DEF Operation
  <2>2. PICK pc \in {"scheduled", "ready"} :
           /\ boot.pc = "serving" /\ registry' = registry /\ UNCHANGED db
           /\ chain' = [chain EXCEPT !.operations = @ \cup {o}]
           /\ Goes(r, pc, i, upheld)
    BY <1>5, <2>1 DEF scheduleResolve, Waits, Goes
  <2>3. ChainGood' /\ ChainKept /\ o \in chain'.operations
    BY <1>1, <2>2, ScheduleStep
  <2> QED BY <2>1, <2>2, <2>3, MinedStep
<1>6. ASSUME NEW i \in Completions, NEW upheld \in BOOLEAN, boot.pc = "serving", Pending(i),
             chain' = Is(chain, i, Verdict(upheld)), Goes(r, "resolved", i, upheld), UNCHANGED db
      PROVE  IInv'
  <2>1. PICK status \in Statuses \ Untouched : status = Verdict(upheld)
    BY DEF Statuses, Untouched, Verdict
  <2>2. chain.completions[i] \notin Final /\ chain.completions[i] # "absent" /\ registry' = registry
    BY <1>6 DEF Pending, Final, Goes
  <2>3. ChainGood' /\ ChainKept /\ chain'.completions[i] = Verdict(upheld)
    BY <1>1, <1>6, <2>1, <2>2, StatusStep
  <2> QED BY <1>6, <2>3, MinedStep
<1>7. ASSUME NEW i \in Completions, NEW upheld \in BOOLEAN, resolveDirectly(r, i, upheld)
      PROVE  IInv'
  BY <1>6, <1>7 DEF resolveDirectly, Waits
<1>8. CASE executeNow(r)
  <2>1. PICK q : q = requests[r]
    OBVIOUS
  <2>2. q.id \in Completions /\ q.upheld \in BOOLEAN
    BY <1>8, <2>1 DEF IInv, LocalsTyped, RequestsTrue, RequestTrue, executeNow, Waits
  <2> QED BY <1>6, <1>8, <2>1, <2>2 DEF executeNow, Waits
<1> QED BY <1>2, <1>3, <1>4, <1>5, <1>7, <1>8

LEMMA WriteStep ==
    ASSUME IInv, NEW r \in Requests,
           \/ recordDemo(r)
           \/ markChallenged(r)
           \/ reportScheduled(r)
           \/ reportResolved(r)
           \/ markFinalized(r)
           \/ failRequest(r)
    PROVE  IInv'
<1>1. PICK q : q = requests[r]
  OBVIOUS
<1>2. /\ q.id \in Completions /\ q.upheld \in BOOLEAN /\ RequestTrue(q)
      /\ boot.pc = "serving" /\ ~IsDown
      /\ UNCHANGED <<chain, registry>> /\ Ends(r)
  BY <1>1 DEF IInv, LocalsTyped, RequestsTrue, RequestTrue, recordDemo, markChallenged,
              reportScheduled, reportResolved, markFinalized, failRequest, Ends, Goes, Waits, IsDown
<1>3. DbTyped /\ LocalsTyped /\ RowsNoted /\ RowsTrue
  BY DEF IInv
<1>4. SUFFICES ASSUME ChainGood, ChainGood', ChainKept PROVE DbTyped' /\ RowsNoted' /\ RowsTrue'
  BY <1>2, EndStep
<1>5. CASE recordDemo(r)
  <2>1. PICK row \in CompletionRow : row = [NoCompletion EXCEPT !.registry = registry]
    BY DEF IInv, LocalsTyped, NoCompletion, CompletionRow
  <2>2. /\ CompletionWrite(q.id, row) /\ row.registry = registry
        /\ ~row.challenged /\ ~row.disputed
    BY <1>1, <1>3, <1>5, <2>1
       DEF recordDemo, recordCompletion, CompletionWrite, DbTyped, NoCompletion
  <2>3. db'.completions[q.id] = row => CompletionRowTrue(q.id)'
    BY <2>2 DEF CompletionRowTrue
  <2> QED BY <1>2, <1>3, <1>4, <2>2, <2>3, CompletionWritten
<1>6. CASE markChallenged(r)
  <2>1. db' = markCompletionChallenged(db, q.id) /\ chain'.completions[q.id] \notin Untouched
    BY <1>1, <1>2, <1>6 DEF markChallenged, Waits, RequestTrue
  <2> QED BY <1>2, <1>3, <1>4, <2>1, MarkStep
<1>7. CASE reportScheduled(r)
  <2>1. /\ db' = recordAdminAction(db, q.id, q.upheld, FALSE, registry)
        /\ [id |-> q.id, upheld |-> q.upheld] \in chain'.operations
    BY <1>1, <1>2, <1>7 DEF reportScheduled, Waits, RequestTrue
  <2> QED BY <1>2, <1>3, <1>4, <2>1, RecordAdminActionStep
<1>8. CASE markFinalized(r)
  <2>1. db' = markCompletionResolved(db, q.id, TRUE) /\ chain'.completions[q.id] = "upheld"
    BY <1>1, <1>2, <1>8 DEF markFinalized, Waits, RequestTrue
  <2> QED BY <1>2, <1>3, <1>4, <2>1, MarkStep
<1>9. CASE failRequest(r)
  <2>1. UNCHANGED db
    BY <1>9 DEF failRequest
  <2> QED BY <1>2, <1>3, <1>4, <2>1, RowsKept DEF RowsNoted, DbTyped
<1>10. CASE reportResolved(r)
  <2>1. /\ db' = recordAdminAction(markCompletionResolved(db, q.id, q.upheld),
                                   q.id, q.upheld, TRUE, registry)
        /\ chain'.completions[q.id] = Verdict(q.upheld)
    BY <1>1, <1>2, <1>10 DEF reportResolved, Waits, RequestTrue
  <2>2. PICK a \in AdminAction :
           a = [id |-> q.id, upheld |-> q.upheld, executed |-> TRUE, registry |-> registry]
    BY <1>2 DEF AdminAction, IInv, LocalsTyped
  <2>3. PICK completions \in [Completions -> CompletionRow] :
           /\ completions = markCompletionResolved(db, q.id, q.upheld).completions
           /\ \A j \in Completions :
                 \/ completions[j] = db.completions[j]
                 \/ /\ j = q.id
                    /\ completions[j].registry = db.completions[j].registry
                    /\ completions[j].challenged = db.completions[j].challenged
                    /\ completions[j].disputed = q.upheld
    <3>1. db.completions \in [Completions -> CompletionRow]
      BY <1>3 DEF DbTyped
    <3>2. PICK row : row = [db.completions[q.id] EXCEPT !.disputed = q.upheld]
      OBVIOUS
    <3>3. /\ row \in CompletionRow /\ row.disputed = q.upheld
          /\ row.registry = db.completions[q.id].registry
          /\ row.challenged = db.completions[q.id].challenged
      BY <1>2, <3>1, <3>2 DEF CompletionRow
    <3>4. markCompletionResolved(db, q.id, q.upheld).completions
             \in {db.completions, [db.completions EXCEPT ![q.id] = row]}
      BY <1>3, <3>2 DEF markCompletionResolved, DbTyped
    <3> HIDE <3>2
    <3> QED BY <1>2, <3>1, <3>3, <3>4
  <2>4. /\ DbTyped'
        /\ db'.capabilities = db.capabilities /\ db'.completions = completions
        /\ db'.lastRegistry = db.lastRegistry
        /\ db'.adminActions = db.adminActions \cup {a}
    BY <1>3, <2>1, <2>2, <2>3 DEF DbTyped, recordAdminAction, markCompletionResolved
  <2>5. RowsNoted'
    <3>1. a.registry = registry /\ registry \in Nat
      BY <2>2 DEF IInv, LocalsTyped
    <3>2. \A j \in Completions : completions[j].registry = db.completions[j].registry
      BY <2>3
    <3> QED BY <1>2, <1>3, <1>4, <2>4, <3>1, <3>2, RowsOfCurrent DEF RowsNoted, DbTyped, ChainKept
  <2>6. ASSUME NEW j \in Capabilities PROVE CapabilityRowTrue(j)'
    BY <1>3, <1>4, <2>4, CapabilityRowKept DEF RowsTrue
  <2>7. ASSUME NEW j \in Completions PROVE CompletionRowTrue(j)'
    <3>1. CASE completions[j] = db.completions[j]
      BY <1>3, <1>4, <2>4, <3>1, CompletionRowKept DEF RowsTrue
    <3>2. CASE completions[j] # db.completions[j]
      BY <1>2, <1>3, <1>4, <2>1, <2>3, <2>4, <3>2, ZenonT(60)
         DEF RowsTrue, CompletionRowTrue, ChainKept, Verdict, Untouched
    <3> QED BY <3>1, <3>2
  <2>8. AdminActionTrue(a)'
    BY <2>1, <2>2 DEF AdminActionTrue
  <2>9. ASSUME NEW b \in db'.adminActions PROVE AdminActionTrue(b)'
    BY <1>3, <1>4, <2>4, <2>8, AdminActionKept DEF RowsTrue, DbTyped
  <2> QED BY <2>4, <2>5, <2>6, <2>7, <2>9 DEF RowsTrue
<1> QED BY <1>5, <1>6, <1>7, <1>8, <1>9, <1>10

-----------------------------------------------------------------------------
(* The theorems *)

LEMMA InitInv == Init => IInv
<1> SUFFICES ASSUME Init PROVE IInv
  OBVIOUS
<1>1. ChainTyped
  <2>1. /\ chain.capabilities = << >> /\ chain.logs = << >>
        /\ chain.nextCompletionId = 1 /\ chain.operations = {}
        /\ chain.completions = [i \in Completions |-> "absent"]
        /\ chain = [capabilities |-> chain.capabilities, tokens |-> chain.tokens,
                    nextCompletionId |-> chain.nextCompletionId,
                    completions |-> chain.completions,
                    operations |-> chain.operations, logs |-> chain.logs]
    BY DEF Init, NewChain
  <2>2. [i \in Completions |-> "absent"] \in [Completions -> Statuses]
    BY DEF Statuses
  <2> QED BY <2>1, <2>2 DEF ChainTyped
<1>2. LogsTrue /\ Unattested
  BY DEF Init, NewChain, LogsTrue, Unattested
<1>3. DbTyped
  <2>1. PICK c \in CapabilityRow, row \in CompletionRow : c = NoCapability /\ row = NoCompletion
    BY DEF NoCapability, NoCompletion, CapabilityRow, CompletionRow, Creators
  <2>2. /\ [i \in Capabilities |-> NoCapability] \in [Capabilities -> CapabilityRow]
        /\ [i \in Completions |-> NoCompletion] \in [Completions -> CompletionRow]
    BY <2>1
  <2> QED BY <2>2 DEF Init, EmptyDb, DbTyped
<1>4. RowsNoted /\ RowsTrue
  BY DEF Init, EmptyDb, NoCapability, NoCompletion, RowsNoted, RowsTrue, IsDown, Down,
         CapabilityRowTrue, CompletionRowTrue, Label, Hash
<1>5. LocalsTyped /\ BootTrue /\ RequestsTrue
  BY DEF Init, Down, NoRequest, LocalsTyped, BootTrue, RequestsTrue, RequestTrue
<1> QED BY <1>1, <1>2, <1>3, <1>4, <1>5 DEF IInv

LEMMA StepInv == IInv /\ [Next]_vars => IInv'
<1> SUFFICES ASSUME IInv, [Next]_vars PROVE IInv'
  OBVIOUS
<1>1. CASE UNCHANGED vars
  BY <1>1, UnchangedStep
<1>2. CASE BootstrapNext
  <2>1. CASE die
    BY <2>1, ExitStep DEF die
  <2> QED BY <1>2, <2>1, EnsureCapabilityStep, RedeployStep, IndexLogStep, OthersStep
          DEF BootstrapNext, Creators
<1>3. ASSUME NEW r \in Requests, Route(r) PROVE IInv'
  BY <1>3, TransactionStep, WriteStep DEF Route
<1> QED BY <1>1, <1>2, <1>3, OthersStep, DisputeStep DEF Next

\* Whatever the scenario, the values are of their types, rows, routes and the start of the
\* server know only what is so, and rows are of the deployment that was noted.
THEOREM BackendKept == Spec => []IInv
BY InitInv, StepInv, PTL DEF Spec

\* A server that has passed the check of the registry has no row of another deployment:
\* the two tables are cleared before the new registry is noted (contracts.ts, db.ts).
THEOREM RowsAreCurrent == Spec => []RowsOfThisRegistry
<1>1. IInv => RowsOfThisRegistry
  BY RowsOfCurrent DEF IInv, RowsOfThisRegistry
<1> QED BY <1>1, BackendKept, PTL

\* ensureCapability never leaves the server with a capability that is not a certified demo
\* capability of Agent A on this registry.
THEOREM ServedIsOwn == Spec => []ServesOwnCertified
<1>1. IInv => ServesOwnCertified
  BY DEF IInv, BootTrue, ServesOwnCertified
<1> QED BY <1>1, BackendKept, PTL

\* No route, log or restart makes the cache, the index or the audit log say of a capability
\* or a completion what is not so on the chain.
THEOREM CacheIsReal == Spec => []CachedFactsAreReal
<1>1. ASSUME IInv PROVE CachedFactsAreReal
  <2>1. \A i \in Capabilities :
           db.capabilities[i].registry = registry =>
              /\ db.capabilities[i].certified => chain.capabilities[i].certified
              /\ db.capabilities[i].slashed => chain.capabilities[i].slashed
    BY <1>1 DEF IInv, RowsTrue, CapabilityRowTrue
  <2>2. ASSUME boot.pc = "serving", NEW i \in discover
        PROVE  i \in Ids /\ chain.capabilities[i].certified
    <3>1. CASE i \in onChainDiscover
      BY <3>1 DEF onChainDiscover
    <3>2. CASE i \in queryIndexedCapabilities(db)
      <4>1. /\ i \in Capabilities /\ db.capabilities[i].certified
            /\ db.capabilities[i].registry # 0
        BY <3>2 DEF queryIndexedCapabilities, HasRow
      <4>2. db.capabilities[i].registry = registry
        BY <1>1, <2>2, <4>1, RowsOfCurrent DEF IInv, IsDown
      <4> QED BY <1>1, <4>1, <4>2 DEF IInv, RowsTrue, CapabilityRowTrue
    <3> QED BY <2>2, <3>1, <3>2 DEF discover
  <2>3. \A i \in Completions :
           db.completions[i].registry = registry =>
              /\ db.completions[i].challenged => chain.completions[i] \notin {"absent", "attested"}
              /\ db.completions[i].disputed => chain.completions[i] = "upheld"
    BY <1>1 DEF IInv, RowsTrue, CompletionRowTrue, Untouched
  <2>4. \A a \in db.adminActions :
           a.registry = registry =>
              IF a.executed THEN chain.completions[a.id] = Verdict(a.upheld)
              ELSE [id |-> a.id, upheld |-> a.upheld] \in chain.operations
    BY <1>1 DEF IInv, RowsTrue, AdminActionTrue
  <2> QED BY <2>1, <2>2, <2>3, <2>4 DEF CachedFactsAreReal
<1> QED BY <1>1, BackendKept, PTL

-----------------------------------------------------------------------------
(* The page of the demo, whatever routes, clicks and failures overlap.  A handler  *)
(* keeps the completion it was clicked on; the page may show a newer one.          *)

OnOne == {"challenge", "resolve", "receipt", "contest", "finalize"}
Asks == OnOne \cup {"nothing", "run", "register", "list", "identity"}
Rulings == {"done", "executed", "scheduled"}
Identities == {"none", "typed", "onChain"}
Contesting == {"contested", "upheld"}

PageState ==
    [demo : Nat,
     status : {"idle", "attesting", "challenging", "resolving", "challenged", "done", "error"},
     error : BOOLEAN, busy : SUBSET Handlers, lastResolve : Rulings \cup {"null", "{}"},
     receiptDone : BOOLEAN, contested : BOOLEAN, identity : Identities]

Request ==
    [asks : Asks, id : Nat, state : {"idle", "sent", "ok", "failed"},
     got : Nat \cup Rulings \cup Identities \cup {"registered", "simulated"}]

Shown == [challenge : {"none", "open"} \cup Contesting, confirmed : BOOLEAN]

ServerState ==
    [completions : Seq(Shown), identity : Identities,
     timelock : {"none", "instant", "delayed"}]

PageTyped ==
    /\ page \in PageState /\ calls \in [Handlers -> Request] /\ server \in ServerState
    /\ seen \in [clicks : Nat, acked : SUBSET (Buttons \X Nat), overtaken : BOOLEAN]

\* What a handler waits for, and what an answer holds.
CallOK(h) ==
    LET call == calls[h]
    IN  /\ call.asks \in {"nothing", "list", "identity"} \cup {h}
                            \cup (IF h = "challenge" THEN {"resolve"} ELSE {})
        /\ call.asks = "nothing" <=> call.state = "idle"
        /\ call.id <= page.demo
        /\ call.asks \in OnOne => call.id # 0
        /\ call.asks = "run" => "run" \in page.busy
        /\ call.state = "ok" =>
              /\ call.asks = "run" =>
                    call.got \in Nat /\ page.demo < call.got /\ call.got <= Len(server.completions)
              /\ call.asks = "resolve" => call.got \in Rulings
              /\ call.asks = "identity" => call.got \in Identities

\* What was acknowledged of the completion the page shows, it shows.
AcksShown ==
    /\ \A a \in seen.acked : a[1] \in {"challenge", "receipt", "contest"} /\ a[2] <= page.demo
    /\ <<"challenge", page.demo>> \in seen.acked => page.lastResolve # "null"
    /\ <<"receipt", page.demo>> \in seen.acked => page.receiptDone
    /\ <<"contest", page.demo>> \in seen.acked => page.contested

PageOK ==
    /\ PageTyped
    /\ page.demo <= Len(server.completions)
    /\ \A h \in Handlers : CallOK(h)
    /\ AcksShown

\* A completion is only ever challenged further.
Later(c, d) ==
    /\ c.challenge # "none" => d.challenge # "none"
    /\ c.challenge \in Contesting => d.challenge \in Contesting
    /\ c.challenge = "upheld" => d.challenge = "upheld"
    /\ c.confirmed => d.confirmed

\* What a request does to the server.
Done(what, id) ==
    LET old == server.completions
        new == server'.completions
    IN  /\ server' \in ServerState /\ server'.timelock = server.timelock
        /\ Len(new) = IF what = "run" THEN Len(old) + 1 ELSE Len(old)
        /\ \A i \in 1..Len(old) : Later(old[i], new[i])
        /\ what = "challenge" => new[id].challenge # "none"
        /\ what = "resolve" /\ server.timelock # "delayed" => new[id].challenge = "upheld"
        /\ what = "contest" => new[id].challenge \in Contesting
        /\ what = "receipt" => new[id].confirmed

LEMMA ServerMoved ==
  ASSUME server \in ServerState, NEW list \in Seq(Shown),
         server' = [server EXCEPT !.completions = list]
  PROVE  /\ server' \in ServerState /\ server'.timelock = server.timelock
         /\ server'.completions = list
<1> DEFINE lists == Seq(Shown)
<1>1. /\ list \in lists
      /\ server \in [completions : lists, identity : Identities,
                     timelock : {"none", "instant", "delayed"}]
  BY DEF ServerState
<1> HIDE DEF lists
<1>2. server' = [completions |-> list, identity |-> server.identity,
                 timelock |-> server.timelock]
  BY <1>1
<1>3. /\ server' \in [completions : lists, identity : Identities,
                     timelock : {"none", "instant", "delayed"}]
      /\ server'.timelock = server.timelock /\ server'.completions = list
  BY <1>1, <1>2
<1> QED BY <1>3 DEF ServerState, lists

LEMMA ChallengedDone ==
  ASSUME server \in ServerState, NEW id \in 1..Len(server.completions), NEW as \in {"open"} \cup Contesting,
         server.completions[id].challenge \in Contesting => as \in Contesting,
         server.completions[id].challenge = "upheld" => as = "upheld",
         server' = Challenged(id, as)
  PROVE  /\ server' \in ServerState /\ server'.timelock = server.timelock
         /\ Len(server'.completions) = Len(server.completions)
         /\ \A i \in 1..Len(server.completions) :
                Later(server.completions[i], server'.completions[i])
         /\ server'.completions[id].challenge = as
<1> DEFINE old == server.completions
           c == [old[id] EXCEPT !.challenge = as]
           new == [old EXCEPT ![id] = c]
<1>1. old \in Seq(Shown) /\ old[id] \in Shown
  BY DEF ServerState
<1>2. c \in Shown /\ c.challenge = as /\ c.confirmed = old[id].confirmed
  BY <1>1 DEF Shown
<1>3. server' = [server EXCEPT !.completions = new]
  BY DEF Challenged
<1> HIDE DEF c
<1>4. /\ new \in Seq(Shown) /\ Len(new) = Len(old) /\ new[id] = c
      /\ \A i \in 1..Len(old) : i # id => new[i] = old[i]
  BY <1>1, <1>2
<1> HIDE DEF new
<1>5. server' \in ServerState /\ server'.timelock = server.timelock /\ server'.completions = new
  BY <1>1, <1>3, <1>4, ServerMoved
<1>6. \A i \in 1..Len(old) : Later(old[i], new[i])
  <2> TAKE i \in 1..Len(old)
  <2>1. CASE i = id
    BY <2>1, <1>2, <1>4 DEF Later, Contesting
  <2>2. CASE i # id
    BY <2>2, <1>4 DEF Later
  <2> QED BY <2>1, <2>2
<1> QED BY <1>2, <1>4, <1>5, <1>6

LEMMA EffectDone ==
  ASSUME server \in ServerState, NEW what \in Asks, NEW id \in Nat,
         what \in OnOne => id \in 1..Len(server.completions),
         Accepts(what, id), server' = Effect(what, id)
  PROVE  Done(what, id)
<1> DEFINE old == server.completions
<1>0. /\ old \in Seq(Shown) /\ Len(old) \in Nat
      /\ what \in OnOne => old[id] \in Shown
  BY DEF ServerState
<1>1. CASE what = "run"
  <2> DEFINE new == Append(old, Unchallenged)
  <2>1. server' = [server EXCEPT !.completions = new]
    BY <1>1 DEF Effect
  <2>2. Unchallenged \in Shown
    BY DEF Unchallenged, Shown
  <2>3. /\ new \in Seq(Shown) /\ Len(new) = Len(old) + 1
        /\ \A i \in 1..Len(old) : new[i] = old[i]
    BY <1>0, <2>2
  <2> HIDE DEF new
  <2>4. server' \in ServerState /\ server'.timelock = server.timelock /\ server'.completions = new
    BY <1>0, <2>1, <2>3, ServerMoved
  <2> QED BY <1>1, <2>3, <2>4 DEF Done, Later
<1>2. CASE what = "challenge"
  <2>1. server' = Challenged(id, "open") /\ old[id].challenge = "none"
    BY <1>2 DEF Effect, Accepts
  <2> QED BY <1>2, <2>1, ChallengedDone DEF Done, OnOne, Contesting
<1>3. CASE what = "resolve"
  <2>1. CASE server.timelock = "delayed"
    <3>1. server' = server
      BY <1>3, <2>1 DEF Effect
    <3> QED BY <1>3, <2>1, <3>1 DEF Done, Later
  <2>2. CASE server.timelock # "delayed"
    <3>1. server' = Challenged(id, "upheld")
      BY <1>3, <2>2 DEF Effect
    <3> QED BY <1>3, <3>1, ChallengedDone DEF Done, OnOne, Contesting
  <2> QED BY <2>1, <2>2
<1>4. CASE what = "contest"
  <2>1. server' = Challenged(id, "contested") /\ old[id].challenge = "open"
    BY <1>4 DEF Effect, Accepts
  <2> QED BY <1>4, <2>1, ChallengedDone DEF Done, OnOne, Contesting
<1>5. CASE what = "finalize"
  <2>1. server' = Challenged(id, "upheld")
    BY <1>5 DEF Effect
  <2> QED BY <1>5, <2>1, ChallengedDone DEF Done, OnOne, Contesting
<1>6. CASE what = "receipt"
  <2> DEFINE c == [old[id] EXCEPT !.confirmed = TRUE]
             new == [old EXCEPT ![id] = c]
  <2>1. server' = [server EXCEPT !.completions = new]
    BY <1>6 DEF Effect
  <2>2. c \in Shown /\ c.confirmed /\ c.challenge = old[id].challenge
    BY <1>0, <1>6 DEF Shown, OnOne
  <2>3. id \in 1..Len(old)
    BY <1>6 DEF OnOne
  <2> HIDE DEF c
  <2>4. /\ new \in Seq(Shown) /\ Len(new) = Len(old) /\ new[id] = c
        /\ \A i \in 1..Len(old) : i # id => new[i] = old[i]
    BY <1>0, <2>2, <2>3
  <2> HIDE DEF new
  <2>5. server' \in ServerState /\ server'.timelock = server.timelock /\ server'.completions = new
    BY <1>0, <2>1, <2>4, ServerMoved
  <2>6. \A i \in 1..Len(old) : Later(old[i], new[i])
    <3> TAKE i \in 1..Len(old)
    <3>1. CASE i = id
      BY <3>1, <2>2, <2>4 DEF Later
    <3>2. CASE i # id
      BY <3>2, <2>4 DEF Later
    <3> QED BY <3>1, <3>2
  <2> QED BY <1>6, <2>2, <2>4, <2>5, <2>6 DEF Done
<1>7. CASE what = "register"
  <2>1. server' = [server EXCEPT !.identity = "onChain"]
    BY <1>7 DEF Effect
  <2>2. /\ server' \in ServerState /\ server'.timelock = server.timelock
        /\ server'.completions = server.completions
    BY <2>1 DEF ServerState, Identities
  <2> QED BY <1>7, <2>2 DEF Done, Later
<1>8. CASE what \in {"nothing", "list", "identity"}
  <2>1. server' = server
    BY <1>8 DEF Effect
  <2> QED BY <1>8, <2>1 DEF Done, Later
<1> QED BY <1>1, <1>2, <1>3, <1>4, <1>5, <1>6, <1>7, <1>8 DEF Asks, OnOne

LEMMA CallIs ==
  ASSUME PageTyped, NEW h \in Handlers
  PROVE  calls[h] \in Request
BY DEF PageTyped

LEMMA RequestSet ==
  ASSUME NEW r \in Request, NEW state, NEW got, NEW s, s = [r EXCEPT !.state = state, !.got = got]
  PROVE  s = [asks |-> r.asks, id |-> r.id, state |-> state, got |-> got]
<1> DEFINE gots == Nat \cup Rulings \cup Identities \cup {"registered", "simulated"}
           states == {"idle", "sent", "ok", "failed"}
<1>1. r \in [asks : Asks, id : Nat, state : states, got : gots]
  BY DEF Request
<1> HIDE DEF gots, states
<1> QED BY <1>1

\* An answer, or a failure with or without the effect.
LEMMA ServeDoes ==
  ASSUME PageOK, NEW h \in Handlers, serve(h)
  PROVE  /\ PageTyped' /\ UNCHANGED <<page, seen>>
         /\ \A g \in Handlers :
               /\ g # h => calls'[g] = calls[g]
               /\ calls'[g].asks = calls[g].asks /\ calls'[g].id = calls[g].id
         /\ calls[h].state = "sent" /\ calls'[h].state \in {"ok", "failed"}
         /\ server' = server \/ Done(calls[h].asks, calls[h].id)
         /\ calls'[h].state = "ok" =>
               \/ Done(calls[h].asks, calls[h].id) /\ calls'[h].got = Body(calls[h].asks)
               \/ calls[h].asks = "register"
<1> DEFINE what == calls[h].asks
           id == calls[h].id
<1>1. /\ calls[h] \in Request /\ calls[h].state = "sent" /\ UNCHANGED <<page, seen>>
      /\ server \in ServerState
  BY CallIs DEF PageOK, PageTyped, serve
<1>2. what \in Asks /\ id \in Nat /\ (what \in OnOne => id \in 1..Len(server.completions))
  <2>1. CallOK(h) /\ page.demo \in Nat /\ page.demo <= Len(server.completions)
        /\ Len(server.completions) \in Nat
    <3>1. page \in PageState /\ page.demo <= Len(server.completions) /\ CallOK(h)
      BY DEF PageOK, PageTyped
    <3>2. page.demo \in Nat
      BY <3>1 DEF PageState
    <3>3. Len(server.completions) \in Nat
      BY <1>1 DEF ServerState
    <3> QED BY <3>1, <3>2, <3>3
  <2> QED BY <1>1, <2>1 DEF CallOK, Request
<1>3. Accepts(what, id) /\ server' = Effect(what, id) => Done(what, id)
  BY <1>1, <1>2, EffectDone
<1>4. Body(what) \in Nat \cup Rulings \cup Identities \cup {"registered", "simulated"}
  <2>1. Len(server.completions) \in Nat /\ server.identity \in Identities
        /\ server.timelock \in {"none", "instant", "delayed"}
    BY <1>1 DEF ServerState
  <2> QED BY <1>2, <2>1 DEF Body, Asks, OnOne, Rulings
<1> HIDE DEF what, id
<1>5. /\ \/ server' = server
         \/ Accepts(what, id) /\ server' = Effect(what, id)
      /\ \E call \in Request :
            /\ calls' = [calls EXCEPT ![h] = call]
            /\ call.asks = what /\ call.id = id /\ call.state \in {"ok", "failed"}
            /\ call.state = "ok" =>
                  \/ /\ Accepts(what, id) /\ server' = Effect(what, id)
                     /\ call.got = Body(what)
                  \/ what = "register"
  <2>1. CASE /\ Accepts(what, id)
             /\ server' = Effect(what, id)
             /\ \E outcome \in {"ok", "failed"} :
                   calls' = [calls EXCEPT ![h].state = outcome,
                                          ![h].got = IF outcome = "ok" THEN Body(what) ELSE 0]
    <3>1. PICK outcome \in {"ok", "failed"} :
            calls' = [calls EXCEPT ![h].state = outcome,
                                   ![h].got = IF outcome = "ok" THEN Body(what) ELSE 0]
      BY <2>1
    <3> DEFINE got == IF outcome = "ok" THEN Body(what) ELSE 0
               call == [asks |-> what, id |-> id, state |-> outcome, got |-> got]
    <3>2. got \in Nat \cup Rulings \cup Identities \cup {"registered", "simulated"}
      BY <1>4
    <3>3. calls' = [calls EXCEPT ![h].state = outcome, ![h].got = got]
      BY <3>1
    <3>4. outcome = "ok" => got = Body(what)
      OBVIOUS
    <3> HIDE DEF got
    <3>5. call \in Request
      BY <1>1, <1>2, <3>2 DEF Request
    <3>6. calls' = [calls EXCEPT ![h] = call]
      <4> DEFINE s == [calls[h] EXCEPT !.state = outcome, !.got = got]
      <4>1. calls[h] \in Request
        BY <1>1 DEF PageOK, PageTyped
      <4>2. calls' = [calls EXCEPT ![h] = s]
        BY <3>3
      <4>3. s = [calls[h] EXCEPT !.state = outcome, !.got = got]
        OBVIOUS
      <4> HIDE DEF s
      <4>4. s = [asks |-> calls[h].asks, id |-> calls[h].id, state |-> outcome, got |-> got]
        BY <4>1, <4>3, RequestSet
      <4> QED BY <4>2, <4>4 DEF what, id
    <3> QED BY <2>1, <3>4, <3>5, <3>6
  <2>2. CASE server' = server /\ calls' = [calls EXCEPT ![h].state = "failed"]
    <3> DEFINE call == [calls[h] EXCEPT !.state = "failed"]
    <3>1. /\ call \in Request /\ call.asks = what /\ call.id = id /\ call.state = "failed"
          /\ calls' = [calls EXCEPT ![h] = call]
      BY <1>1, <2>2 DEF Request, what, id
    <3> HIDE DEF call
    <3> QED BY <2>2, <3>1
  <2>3. CASE /\ what = "register" /\ server' = server
             /\ calls' = [calls EXCEPT ![h].state = "ok", ![h].got = "simulated"]
    <3> DEFINE call == [asks |-> what, id |-> id, state |-> "ok", got |-> "simulated"]
    <3>1. call \in Request
      BY <1>1, <1>2 DEF Request
    <3>2. calls' = [calls EXCEPT ![h] = call]
      <4> DEFINE s == [calls[h] EXCEPT !.state = "ok", !.got = "simulated"]
      <4>1. calls[h] \in Request
        BY <1>1 DEF PageOK, PageTyped
      <4>2. calls' = [calls EXCEPT ![h] = s]
        BY <2>3
      <4>3. s = [calls[h] EXCEPT !.state = "ok", !.got = "simulated"]
        OBVIOUS
      <4> HIDE DEF s
      <4>4. s = [asks |-> calls[h].asks, id |-> calls[h].id, state |-> "ok", got |-> "simulated"]
        BY <4>1, <4>3, RequestSet
      <4> QED BY <4>2, <4>4 DEF what, id
    <3> QED BY <2>3, <3>1, <3>2
  <2> QED BY <2>1, <2>2, <2>3 DEF serve, what, id
<1>6. PICK call \in Request :
         /\ calls' = [calls EXCEPT ![h] = call]
         /\ call.asks = what /\ call.id = id /\ call.state \in {"ok", "failed"}
         /\ call.state = "ok" =>
               \/ /\ Accepts(what, id) /\ server' = Effect(what, id)
                  /\ call.got = Body(what)
               \/ what = "register"
  BY <1>5
<1>7. /\ calls' \in [Handlers -> Request] /\ calls'[h] = call
      /\ \A g \in Handlers : g # h => calls'[g] = calls[g]
  BY <1>6 DEF PageOK, PageTyped
<1>8. server' = server \/ Done(what, id)
  BY <1>3, <1>5
<1>9. PageTyped'
  BY <1>1, <1>7, <1>8 DEF PageOK, PageTyped, Done
<1> QED BY <1>1, <1>3, <1>6, <1>7, <1>8, <1>9 DEF what, id

LEMMA PageTypes ==
  ASSUME PageOK
  PROVE  /\ page \in PageState /\ server \in ServerState /\ server.completions \in Seq(Shown)
         /\ page.demo \in Nat /\ Len(server.completions) \in Nat
         /\ page.demo <= Len(server.completions)
         /\ \A h \in Handlers : calls[h] \in Request /\ calls[h].id \in Nat /\ CallOK(h)
<1>1. /\ page \in PageState /\ server \in ServerState /\ page.demo <= Len(server.completions)
      /\ \A h \in Handlers : calls[h] \in Request /\ CallOK(h)
  BY CallIs DEF PageOK, PageTyped
<1>2. page.demo \in Nat
  BY <1>1 DEF PageState
<1>3. server.completions \in Seq(Shown)
  BY <1>1 DEF ServerState
<1>4. \A h \in Handlers : calls[h].id \in Nat
  BY <1>1 DEF Request
<1> QED BY <1>1, <1>2, <1>3, <1>4

\* A handler that stands still.
LEMMA OtherOK ==
  ASSUME NEW g \in Handlers, CallOK(g), calls'[g] = calls[g], calls[g].id \in Nat,
         page.demo \in Nat, page'.demo \in Nat, page.demo <= page'.demo,
         Len(server.completions) \in Nat, Len(server'.completions) \in Nat,
         Len(server.completions) <= Len(server'.completions),
         calls[g].asks = "run" => page'.demo = page.demo /\ "run" \in page'.busy
  PROVE  CallOK(g)'
<1>1. \A n \in Nat : n <= Len(server.completions) => n <= Len(server'.completions)
  OBVIOUS
<1>2. calls[g].id <= page'.demo
  BY DEF CallOK
<1> QED BY <1>1, <1>2 DEF CallOK

LEMMA AskDoes ==
  ASSUME PageTyped, NEW h \in Handlers, NEW what \in Asks, Ask(h, what)
  PROVE  /\ calls' \in [Handlers -> Request]
         /\ \A g \in Handlers : g # h => calls'[g] = calls[g]
         /\ calls'[h].asks = what /\ calls'[h].id = calls[h].id /\ calls'[h].state = "sent"
<1> DEFINE got == 0
           s == [calls[h] EXCEPT !.asks = what, !.state = "sent", !.got = got]
<1>1. calls' = [calls EXCEPT ![h] = s]
  BY DEF Ask, PageTyped
<1>2. calls[h] \in Request
  BY CallIs
<1>3. s \in Request /\ s.asks = what /\ s.id = calls[h].id /\ s.state = "sent"
  BY <1>2 DEF Request
<1> HIDE DEF s
<1> QED BY <1>1, <1>3 DEF PageTyped

LEMMA OverDoes ==
  ASSUME PageTyped, NEW h \in Handlers, Over(h)
  PROVE  /\ calls' \in [Handlers -> Request]
         /\ \A g \in Handlers : g # h => calls'[g] = calls[g]
         /\ calls'[h].asks = "nothing" /\ calls'[h].id = 0 /\ calls'[h].state = "idle"
<1> DEFINE s == NoCall
<1>1. calls' = [calls EXCEPT ![h] = s]
  BY DEF Over
<1>2. s \in Request /\ s.asks = "nothing" /\ s.id = 0 /\ s.state = "idle"
  BY DEF NoCall, Request, Asks
<1> HIDE DEF s
<1> QED BY <1>1, <1>2 DEF PageTyped

\* A handler goes on, the page showing the same completion.
LEMMA HandlerStep ==
  ASSUME PageOK, NEW h \in Handlers,
         page' \in PageState, page'.demo = page.demo, page.busy \ {h} \subseteq page'.busy,
         server' = server,
         seen' \in [clicks : Nat, acked : SUBSET (Buttons \X Nat), overtaken : BOOLEAN],
         calls' \in [Handlers -> Request],
         \A g \in Handlers : g # h => calls'[g] = calls[g],
         CallOK(h)', AcksShown'
  PROVE  PageOK'
<1>1. ASSUME NEW g \in Handlers, g # h
      PROVE  CallOK(g)'
  <2>1. calls[g].asks = "run" => "run" \in page'.busy
    BY <1>1, PageTypes DEF CallOK
  <2> QED BY <1>1, <2>1, PageTypes, OtherOK
<1>2. page'.demo <= Len(server'.completions)
  BY PageTypes
<1>3. PageTyped'
  BY DEF PageOK, PageTyped
<1> QED BY <1>1, <1>2, <1>3 DEF PageOK

\* A waiting handler is all right.
LEMMA SentOK ==
  ASSUME PageOK, NEW h \in Handlers, NEW what \in {"list", "identity", h}, what # "run",
         what \in OnOne => calls[h].id # 0, page'.demo = page.demo,
         calls'[h].asks = what, calls'[h].id = calls[h].id, calls'[h].state = "sent"
  PROVE  CallOK(h)'
BY PageTypes DEF CallOK, Handlers, Buttons

LEMMA OverOK ==
  ASSUME NEW h \in Handlers, page'.demo \in Nat,
         calls'[h].asks = "nothing", calls'[h].id = 0, calls'[h].state = "idle"
  PROVE  CallOK(h)'
BY DEF CallOK, OnOne

LEMMA PageInit == DemoInit => PageOK
<1> SUFFICES ASSUME DemoInit PROVE PageOK
  OBVIOUS
<1>1. /\ page \in PageState /\ page.demo = 0
  BY DEF DemoInit, PageState, Identities
<1>2. /\ server \in ServerState /\ server.completions = << >>
  BY TimelockAssumption DEF DemoInit, ServerState, Identities
<1>3. /\ seen \in [clicks : Nat, acked : SUBSET (Buttons \X Nat), overtaken : BOOLEAN]
      /\ seen.acked = {}
  BY DEF DemoInit
<1>4. ASSUME NEW h \in Handlers
      PROVE  /\ calls[h] \in Request /\ calls[h].id = 0
             /\ \/ calls[h].asks = "list" /\ calls[h].state = "sent"
                \/ calls[h].asks = "nothing" /\ calls[h].state = "idle"
  <2> DEFINE s == [NoCall EXCEPT !.asks = "list", !.state = "sent"]
  <2>1. NoCall \in Request
    BY DEF NoCall, Request, Asks
  <2>2. s \in Request /\ s.id = 0 /\ s.asks = "list" /\ s.state = "sent"
    BY <2>1 DEF NoCall, Request, Asks
  <2>3. calls = [g \in Handlers |-> IF g = "mount" THEN s ELSE NoCall]
    BY DEF DemoInit
  <2> HIDE DEF s
  <2>4. calls[h] = s \/ calls[h] = NoCall
    BY <2>3
  <2>5. NoCall.id = 0 /\ NoCall.asks = "nothing" /\ NoCall.state = "idle"
    BY DEF NoCall
  <2> QED BY <2>1, <2>2, <2>4, <2>5
<1>5. DOMAIN calls = Handlers /\ calls \in [Handlers -> Request]
  <2>1. \E s : calls = [g \in Handlers |-> IF g = "mount" THEN s ELSE NoCall]
    BY DEF DemoInit
  <2> QED BY <1>4, <2>1
<1>6. \A h \in Handlers : CallOK(h)
  BY <1>1, <1>4 DEF CallOK, OnOne
<1>7. AcksShown
  BY <1>3 DEF AcksShown
<1> QED BY <1>1, <1>2, <1>3, <1>5, <1>6, <1>7 DEF PageOK, PageTyped

LEMMA PageServe ==
  ASSUME PageOK, NEW h \in Handlers, serve(h)
  PROVE  PageOK'
<1> USE DEF Done
<1>1. /\ Len(server'.completions) \in Nat /\ Len(server.completions) <= Len(server'.completions)
      /\ server'.timelock = server.timelock
  BY ServeDoes, PageTypes DEF ServerState
<1>2. ASSUME NEW g \in Handlers, g # h
      PROVE  CallOK(g)'
  <2>1. calls'[g] = calls[g] /\ page' = page
    BY <1>2, ServeDoes
  <2>2. calls[g].asks = "run" => "run" \in page.busy
    BY PageTypes DEF CallOK
  <2> QED BY <1>1, <2>1, <2>2, PageTypes, OtherOK
<1>3. CallOK(h)'
  <2> DEFINE call == calls[h]
             new == calls'[h]
  <2>1. /\ page' = page /\ new.asks = call.asks /\ new.id = call.id /\ call.state = "sent"
        /\ new.state \in {"ok", "failed"} /\ CallOK(h)
    BY ServeDoes, PageTypes
  <2>2. CASE new.state = "ok" /\ call.asks # "register"
    <3>1. Done(call.asks, call.id) /\ new.got = Body(call.asks)
      BY <2>2, ServeDoes
    <3>2. call.asks = "run" =>
            new.got = Len(server.completions) + 1 /\ new.got = Len(server'.completions)
      BY <3>1 DEF Body
    <3>4. call.asks = "identity" => new.got \in Identities
      BY <3>1, PageTypes DEF Body, ServerState
    <3>5. call.asks = "resolve" => new.got \in Rulings
      BY <3>1, PageTypes DEF Body, ServerState, Rulings
    <3> HIDE DEF new, call, Done
    <3>6. call.asks = "run" =>
             new.got \in Nat /\ page.demo < new.got /\ new.got <= Len(server'.completions)
      BY <3>2, <1>1, PageTypes
    <3> QED BY <2>1, <2>2, <3>4, <3>5, <3>6 DEF CallOK, new, call
  <2>3. CASE new.state = "failed" \/ call.asks = "register"
    BY <2>1, <2>3 DEF CallOK, OnOne
  <2> QED BY <2>1, <2>2, <2>3
<1>4. AcksShown'
  BY ServeDoes DEF PageOK, AcksShown
<1>5. page'.demo <= Len(server'.completions)
  BY <1>1, ServeDoes, PageTypes
<1> QED BY <1>2, <1>3, <1>4, <1>5, ServeDoes DEF PageOK

LEMMA PageClick ==
  ASSUME PageOK, NEW h \in Buttons, click(h)
  PROVE  PageOK'
<1>1. /\ h \in Handlers /\ server' = server /\ calls[h].state = "idle"
      /\ "run" \notin page.busy /\ (h # "run" => page.demo # 0)
  BY DEF click, Enabled, Handlers
<1>2. /\ page' \in PageState /\ page'.demo = page.demo /\ page'.busy \in {page.busy, page.busy \cup {h}}
      /\ h = "run" => h \in page'.busy
      /\ page'.lastResolve = page.lastResolve /\ page'.receiptDone = page.receiptDone
      /\ page'.contested = page.contested
  <2>1. page \in PageState
    BY PageTypes
  <2>2. CASE h = "register"
    <3>1. page' = [page EXCEPT !.identity = "typed"]
      BY <2>2 DEF click
    <3> QED BY <2>1, <2>2, <3>1 DEF PageState, Identities
  <2>3. CASE h # "register"
    <3> DEFINE busy == page.busy \cup {h}
               status == CASE h = "run" -> "attesting"
                           [] h = "challenge" -> "challenging"
                           [] OTHER -> page.status
    <3>1. page' = [page EXCEPT !.busy = busy, !.error = FALSE, !.status = status]
      BY <2>3 DEF click
    <3>2. /\ busy \in SUBSET Handlers /\ busy = page.busy \cup {h}
          /\ status \in {"idle", "attesting", "challenging", "resolving", "challenged", "done", "error"}
      BY <1>1, <2>1 DEF PageState
    <3> HIDE DEF busy, status
    <3> QED BY <2>1, <3>1, <3>2 DEF PageState
  <2> QED BY <2>2, <2>3
<1>3. /\ seen' \in [clicks : Nat, acked : SUBSET (Buttons \X Nat), overtaken : BOOLEAN]
      /\ seen'.acked = seen.acked
  <2> DEFINE clicks == seen.clicks + 1
  <2>1. seen' = [seen EXCEPT !.clicks = clicks]
    BY DEF click
  <2>2. clicks \in Nat
    BY DEF PageOK, PageTyped
  <2> HIDE DEF clicks
  <2> QED BY <2>1, <2>2 DEF PageOK, PageTyped
<1>4. /\ calls' \in [Handlers -> Request]
      /\ \A g \in Handlers : g # h => calls'[g] = calls[g]
      /\ calls'[h].asks = h /\ calls'[h].id = page.demo /\ calls'[h].state = "sent"
  <2> DEFINE s == [NoCall EXCEPT !.asks = h, !.id = page.demo, !.state = "sent"]
  <2>1. calls' = [calls EXCEPT ![h] = s]
    BY DEF click
  <2>2. NoCall \in Request /\ h \in Asks
    BY DEF NoCall, Request, Asks, Buttons, OnOne
  <2>3. s \in Request /\ s.asks = h /\ s.id = page.demo /\ s.state = "sent"
    BY <2>2, PageTypes DEF Request
  <2> HIDE DEF s
  <2> QED BY <1>1, <2>1, <2>3 DEF PageOK, PageTyped
<1>5. CallOK(h)'
  <2>1. h \in OnOne => page.demo # 0
    BY <1>1 DEF OnOne
  <2> QED BY <1>1, <1>2, <1>4, <2>1, PageTypes DEF CallOK, Buttons
<1>6. AcksShown'
  BY <1>2, <1>3 DEF PageOK, AcksShown
<1> QED BY <1>1, <1>2, <1>3, <1>4, <1>5, <1>6, HandlerStep

SeenState == [clicks : Nat, acked : SUBSET (Buttons \X Nat), overtaken : BOOLEAN]

LEMMA AckDoes ==
  ASSUME PageOK, NEW h \in Buttons, Ack(h, h)
  PROVE  seen' \in SeenState /\ seen'.acked = seen.acked \cup {<<h, calls[h].id>>}
<1> DEFINE acked == seen.acked \cup {<<h, calls[h].id>>}
<1>1. seen' = [seen EXCEPT !.acked = acked]
  BY DEF Ack
<1>2. seen \in SeenState
  BY DEF PageOK, PageTyped, SeenState
<1>3. calls[h].id \in Nat
  BY PageTypes DEF Handlers
<1>4. acked \in SUBSET (Buttons \X Nat)
  BY <1>2, <1>3 DEF SeenState
<1> HIDE DEF acked
<1>5. seen' \in SeenState /\ seen'.acked = acked
  BY <1>1, <1>2, <1>4 DEF SeenState
<1> QED BY <1>5 DEF acked

LEMMA SeenIs == ASSUME PageOK PROVE seen \in SeenState
BY DEF PageOK, PageTyped, SeenState

LEMMA ButtonsHandle == Buttons \subseteq Handlers
BY DEF Handlers

\* A newer completion: nothing of it was acknowledged.
LEMMA PageRunAnswered ==
  ASSUME PageOK, runAnswered
  PROVE  PageOK'
<1> DEFINE demo == calls["run"].got
<1>1. /\ calls["run"].asks = "run" /\ calls["run"].state = "ok" /\ "run" \in Handlers
      /\ Ask("run", "list") /\ server' = server
  BY DEF runAnswered, Answered, Handlers, Buttons
<1>8. seen' \in SeenState /\ seen'.acked = seen.acked
  <2> DEFINE overtaken == Telling # {}
  <2>1. seen' = [seen EXCEPT !.overtaken = overtaken] /\ overtaken \in BOOLEAN
    BY DEF runAnswered
  <2> HIDE DEF overtaken
  <2> QED BY <2>1, SeenIs DEF SeenState
<1>2. demo \in Nat /\ page.demo < demo /\ demo <= Len(server.completions)
  BY <1>1, PageTypes DEF CallOK
<1>3. page' = [page EXCEPT !.demo = demo, !.lastResolve = "null", !.receiptDone = FALSE,
                           !.contested = FALSE, !.status = "done"]
  BY DEF runAnswered
<1> HIDE DEF demo
<1>4. page' \in PageState /\ page'.demo = demo
  BY <1>2, <1>3, PageTypes DEF PageState
<1>5. /\ calls' \in [Handlers -> Request]
      /\ \A g \in Handlers : g # "run" => calls'[g] = calls[g]
      /\ calls'["run"].asks = "list" /\ calls'["run"].id = calls["run"].id
      /\ calls'["run"].state = "sent"
  BY <1>1, AskDoes DEF PageOK, Asks
<1>6. ASSUME NEW g \in Handlers
      PROVE  CallOK(g)'
  <2>1. CASE g = "run"
    <3>1. calls["run"].id <= demo
      BY <1>1, <1>2, PageTypes DEF CallOK
    <3> QED BY <1>4, <1>5, <2>1, <3>1 DEF CallOK, OnOne
  <2>2. CASE g # "run"
    <3>1. calls[g].asks # "run"
      BY <2>2, PageTypes DEF CallOK
    <3> QED BY <1>1, <1>2, <1>4, <1>5, <2>2, <3>1, PageTypes, OtherOK
  <2> QED BY <2>1, <2>2
<1>7. AcksShown'
  <2>1. \A a \in seen.acked : a[1] \in {"challenge", "receipt", "contest"} /\ a[2] <= page.demo
    BY DEF PageOK, AcksShown
  <2>2. \A a \in seen.acked : a \in Buttons \X Nat
    BY SeenIs DEF SeenState
  <2>3. \A a \in seen.acked : a[2] <= demo /\ a[2] # demo
    BY <1>2, <2>1, <2>2, PageTypes
  <2> QED BY <1>4, <1>8, <2>1, <2>3 DEF AcksShown
<1> QED BY <1>1, <1>2, <1>4, <1>5, <1>6, <1>7, <1>8 DEF PageOK, PageTyped, SeenState

LEMMA PageChallengeAnswered ==
  ASSUME PageOK, challengeAnswered
  PROVE  PageOK'
<1> DEFINE h == "challenge"
<1>1. /\ h \in Buttons /\ h \in Handlers
      /\ calls[h].asks = h /\ Ask(h, "resolve") /\ Ack(h, h) /\ server' = server
  BY DEF challengeAnswered, Answered, Handlers, Buttons
<1>2. page' = [page EXCEPT !.lastResolve = "{}", !.status = "resolving"]
  BY DEF challengeAnswered
<1>3. /\ page' \in PageState /\ page'.demo = page.demo /\ page'.busy = page.busy
      /\ page'.lastResolve # "null" /\ page'.receiptDone = page.receiptDone
      /\ page'.contested = page.contested
  BY <1>2, PageTypes DEF PageState
<1>4. /\ calls' \in [Handlers -> Request]
      /\ \A g \in Handlers : g # h => calls'[g] = calls[g]
      /\ calls'[h].asks = "resolve" /\ calls'[h].id = calls[h].id /\ calls'[h].state = "sent"
  BY <1>1, AskDoes DEF PageOK, Asks, OnOne
<1>5. CallOK(h)'
  <2>1. calls[h].id # 0 /\ calls[h].id <= page.demo
    BY <1>1, PageTypes DEF CallOK, OnOne
  <2> QED BY <1>3, <1>4, <2>1 DEF CallOK
<1>6. seen' \in SeenState /\ seen'.acked = seen.acked \cup {<<h, calls[h].id>>}
  BY <1>1, AckDoes
<1>7. AcksShown'
  <2>1. calls[h].id <= page.demo
    BY <1>1, PageTypes DEF CallOK
  <2> QED BY <1>3, <1>6, <2>1 DEF PageOK, AcksShown
<1> QED BY <1>1, <1>3, <1>4, <1>5, <1>6, <1>7, HandlerStep DEF SeenState

LEMMA PageResolveAnswered ==
  ASSUME PageOK, resolveAnswered
  PROVE  PageOK'
<1> DEFINE h == "challenge"
           got == calls["challenge"].got
<1>1. /\ h \in Handlers /\ calls[h].asks = "resolve" /\ calls[h].state = "ok"
      /\ Ask(h, "list") /\ server' = server /\ seen' = seen
  BY DEF resolveAnswered, Answered, Handlers, Buttons
<1>2. page' = [page EXCEPT !.lastResolve = got] /\ got \in Rulings
  BY <1>1, PageTypes DEF resolveAnswered, CallOK
<1> HIDE DEF got
<1>3. /\ page' \in PageState /\ page'.demo = page.demo /\ page'.busy = page.busy
      /\ page'.lastResolve # "null" /\ page'.receiptDone = page.receiptDone
      /\ page'.contested = page.contested
  BY <1>2, PageTypes DEF PageState, Rulings
<1>4. /\ calls' \in [Handlers -> Request]
      /\ \A g \in Handlers : g # h => calls'[g] = calls[g]
      /\ calls'[h].asks = "list" /\ calls'[h].id = calls[h].id /\ calls'[h].state = "sent"
  BY <1>1, AskDoes DEF PageOK, Asks
<1>5. CallOK(h)'
  BY <1>1, <1>3, <1>4, SentOK DEF OnOne
<1>6. AcksShown'
  BY <1>1, <1>3 DEF PageOK, AcksShown
<1> QED BY <1>1, <1>3, <1>4, <1>5, <1>6, SeenIs, HandlerStep DEF SeenState

LEMMA PageReceiptAnswered ==
  ASSUME PageOK, receiptAnswered
  PROVE  PageOK'
<1> DEFINE h == "receipt"
<1>1. /\ h \in Buttons /\ h \in Handlers /\ calls[h].asks = h
      /\ Ask(h, "list") /\ Ack(h, h) /\ server' = server
  BY DEF receiptAnswered, Answered, Handlers, Buttons
<1>2. page' = [page EXCEPT !.receiptDone = TRUE]
  BY DEF receiptAnswered
<1>3. /\ page' \in PageState /\ page'.demo = page.demo /\ page'.busy = page.busy
      /\ page'.lastResolve = page.lastResolve /\ page'.receiptDone
      /\ page'.contested = page.contested
  BY <1>2, PageTypes DEF PageState
<1>4. /\ calls' \in [Handlers -> Request]
      /\ \A g \in Handlers : g # h => calls'[g] = calls[g]
      /\ calls'[h].asks = "list" /\ calls'[h].id = calls[h].id /\ calls'[h].state = "sent"
  BY <1>1, AskDoes DEF PageOK, Asks
<1>5. CallOK(h)'
  BY <1>1, <1>3, <1>4, SentOK DEF OnOne
<1>6. seen' \in SeenState /\ seen'.acked = seen.acked \cup {<<h, calls[h].id>>}
  BY <1>1, AckDoes
<1>7. AcksShown'
  <2>1. calls[h].id <= page.demo
    BY <1>1, PageTypes DEF CallOK
  <2> QED BY <1>3, <1>6, <2>1 DEF PageOK, AcksShown
<1> QED BY <1>1, <1>3, <1>4, <1>5, <1>6, <1>7, HandlerStep DEF SeenState

LEMMA PageContestAnswered ==
  ASSUME PageOK, contestAnswered
  PROVE  PageOK'
<1> DEFINE h == "contest"
<1>1. /\ h \in Buttons /\ h \in Handlers /\ calls[h].asks = h
      /\ Ask(h, "list") /\ Ack(h, h) /\ server' = server
  BY DEF contestAnswered, Answered, Handlers, Buttons
<1>2. page' = [page EXCEPT !.contested = TRUE]
  BY DEF contestAnswered
<1>3. /\ page' \in PageState /\ page'.demo = page.demo /\ page'.busy = page.busy
      /\ page'.lastResolve = page.lastResolve /\ page'.receiptDone = page.receiptDone
      /\ page'.contested
  BY <1>2, PageTypes DEF PageState
<1>4. /\ calls' \in [Handlers -> Request]
      /\ \A g \in Handlers : g # h => calls'[g] = calls[g]
      /\ calls'[h].asks = "list" /\ calls'[h].id = calls[h].id /\ calls'[h].state = "sent"
  BY <1>1, AskDoes DEF PageOK, Asks
<1>5. CallOK(h)'
  BY <1>1, <1>3, <1>4, SentOK DEF OnOne
<1>6. seen' \in SeenState /\ seen'.acked = seen.acked \cup {<<h, calls[h].id>>}
  BY <1>1, AckDoes
<1>7. AcksShown'
  <2>1. calls[h].id <= page.demo
    BY <1>1, PageTypes DEF CallOK
  <2> QED BY <1>3, <1>6, <2>1 DEF PageOK, AcksShown
<1> QED BY <1>1, <1>3, <1>4, <1>5, <1>6, <1>7, HandlerStep DEF SeenState

\* A handler that goes on to the listing or ends, whatever it showed.
LEMMA HandlerGoes ==
  ASSUME PageOK, NEW h \in Handlers,
         \/ Over(h)
         \/ \E what \in {"list", "identity"} : Ask(h, what),
         page' \in PageState, page'.demo = page.demo, page.busy \ {h} \subseteq page'.busy,
         page'.lastResolve = page.lastResolve, page'.receiptDone = page.receiptDone,
         page'.contested = page.contested, UNCHANGED <<server, seen>>
  PROVE  PageOK'
<1>1. AcksShown'
  BY DEF PageOK, AcksShown
<1>2. CASE Over(h)
  <2>1. /\ calls' \in [Handlers -> Request]
        /\ \A g \in Handlers : g # h => calls'[g] = calls[g]
        /\ calls'[h].asks = "nothing" /\ calls'[h].id = 0 /\ calls'[h].state = "idle"
    BY <1>2, OverDoes DEF PageOK
  <2>2. CallOK(h)'
    BY <2>1, PageTypes, OverOK
  <2> QED BY <1>1, <2>1, <2>2, SeenIs, HandlerStep DEF SeenState
<1>3. ASSUME NEW what \in {"list", "identity"}, Ask(h, what)
      PROVE  PageOK'
  <2>1. /\ calls' \in [Handlers -> Request]
        /\ \A g \in Handlers : g # h => calls'[g] = calls[g]
        /\ calls'[h].asks = what /\ calls'[h].id = calls[h].id /\ calls'[h].state = "sent"
    BY <1>3, AskDoes DEF PageOK, Asks
  <2>2. CallOK(h)'
    BY <2>1, SentOK DEF OnOne
  <2> QED BY <1>1, <2>1, <2>2, SeenIs, HandlerStep DEF SeenState
<1> QED BY <1>2, <1>3

LEMMA PageGoesOn ==
  ASSUME PageOK, NEW h \in Handlers,
         \/ finalizeAnswered \/ registerAnswered
         \/ listed(h) \/ identified(h) \/ failed(h)
  PROVE  PageOK'
<1>1. CASE finalizeAnswered
  BY <1>1, PageTypes, HandlerGoes DEF finalizeAnswered, Handlers, Buttons
<1>2. CASE registerAnswered
  BY <1>2, PageTypes, HandlerGoes DEF registerAnswered, Handlers, Buttons
<1>3. CASE listed(h)
  BY <1>3, PageTypes, HandlerGoes DEF listed
<1>4. CASE identified(h)
  <2> DEFINE identity == IF calls[h].state = "ok" THEN calls[h].got ELSE page.identity
             status == IF h = "challenge" THEN "challenged" ELSE page.status
             error == page.error \/ (h = "challenge" /\ server.timelock = "delayed")
             busy == page.busy \ {h}
  <2>1. page' = [page EXCEPT !.identity = identity, !.status = status, !.error = error, !.busy = busy]
    BY <1>4 DEF identified
  <2>2. /\ identity \in Identities /\ error \in BOOLEAN /\ busy \in SUBSET Handlers
        /\ status \in {"idle", "attesting", "challenging", "resolving", "challenged", "done", "error"}
        /\ page.busy \ {h} \subseteq busy
    BY <1>4, PageTypes DEF identified, CallOK, PageState
  <2> HIDE DEF identity, status, error, busy
  <2>3. /\ page' \in PageState /\ page'.demo = page.demo /\ page'.busy = busy
        /\ page'.lastResolve = page.lastResolve /\ page'.receiptDone = page.receiptDone
        /\ page'.contested = page.contested
    BY <2>1, <2>2, PageTypes DEF PageState
  <2> QED BY <1>4, <2>2, <2>3, HandlerGoes DEF identified
<1>5. CASE failed(h)
  <2> DEFINE status == IF h = "run" THEN "error" ELSE page.status
             busy == page.busy \ {h}
  <2>1. page' = [page EXCEPT !.error = TRUE, !.busy = busy, !.status = status]
    BY <1>5 DEF failed
  <2>2. /\ busy \in SUBSET Handlers /\ page.busy \ {h} \subseteq busy
        /\ status \in {"idle", "attesting", "challenging", "resolving", "challenged", "done", "error"}
    BY PageTypes DEF PageState
  <2> HIDE DEF status, busy
  <2>3. /\ page' \in PageState /\ page'.demo = page.demo /\ page'.busy = busy
        /\ page'.lastResolve = page.lastResolve /\ page'.receiptDone = page.receiptDone
        /\ page'.contested = page.contested
    BY <2>1, <2>2, PageTypes DEF PageState
  <2> QED BY <1>5, <2>2, <2>3, HandlerGoes DEF failed
<1> QED BY <1>1, <1>2, <1>3, <1>4, <1>5

LEMMA PageStep == PageOK /\ [DemoNext]_demoVars => PageOK'
<1> SUFFICES ASSUME PageOK, [DemoNext]_demoVars PROVE PageOK'
  OBVIOUS
<1>1. CASE DemoNext
  <2>1. "run" \in Handlers
    BY DEF Handlers, Buttons
  <2> QED BY <1>1, <2>1, PageClick, PageServe, PageRunAnswered, PageChallengeAnswered,
             PageResolveAnswered, PageReceiptAnswered, PageContestAnswered, PageGoesOn DEF DemoNext
<1>2. CASE UNCHANGED demoVars
  <2>1. UNCHANGED <<page, calls, server, seen>>
    BY <1>2 DEF demoVars
  <2> QED BY <2>1 DEF PageOK, PageTyped, AcksShown, CallOK
<1> QED BY <1>1, <1>2

(* AcknowledgedNotRepeated of the page, for any number of completions, clicks and
   handlers under way, and whatever fails. *)
THEOREM PageNotRepeating == DemoSpec => AcknowledgedNotRepeated
<1>1. PageOK /\ [DemoNext]_demoVars =>
        [\A h \in Buttons :
           calls[h].state = "idle" /\ calls'[h].state = "sent"
             => <<h, page.demo>> \notin seen.acked]_demoVars
  <2> SUFFICES ASSUME PageOK, DemoNext, NEW h \in Buttons,
                      calls[h].state = "idle", calls'[h].state = "sent"
               PROVE  <<h, page.demo>> \notin seen.acked
    OBVIOUS
  <2>1. h \in Handlers /\ calls[h].asks = "nothing"
    BY ButtonsHandle, PageTypes DEF CallOK
  <2>2. ASSUME NEW g \in Handlers, NEW what \in Asks, Ask(g, what), calls[g].state # "idle"
        PROVE  FALSE
    BY <2>1, <2>2, AskDoes DEF PageOK
  <2>3. ASSUME NEW g \in Handlers, Over(g)
        PROVE  FALSE
    BY <2>1, <2>3, OverDoes DEF PageOK
  <2>4. ASSUME NEW g \in Handlers, serve(g)
        PROVE  FALSE
    BY <2>1, <2>4, ServeDoes
  <2>5. ASSUME NEW g \in Buttons, click(g), g # h
        PROVE  FALSE
    BY <2>1, <2>5 DEF click, PageOK, PageTyped
  <2>6. CASE click(h)
    BY <2>6 DEF click, Enabled, PageOK, AcksShown
  <2>7. ASSUME NEW g \in Handlers, listed(g) \/ identified(g) \/ failed(g)
        PROVE  FALSE
    BY <2>2, <2>3, <2>7 DEF listed, Answered, identified, failed, Asks
  <2>8. ASSUME \/ runAnswered \/ challengeAnswered \/ resolveAnswered
               \/ receiptAnswered \/ contestAnswered \/ finalizeAnswered
               \/ registerAnswered
        PROVE  FALSE
    BY <2>2, <2>3, <2>8
    DEF runAnswered, challengeAnswered, resolveAnswered, receiptAnswered,
        contestAnswered, finalizeAnswered, registerAnswered, Answered,
        Handlers, Buttons, Asks, OnOne
  <2> QED BY <2>4, <2>5, <2>6, <2>7, <2>8 DEF DemoNext
<1> QED BY <1>1, PageInit, PageStep, PTL DEF DemoSpec, AcknowledgedNotRepeated

-----------------------------------------------------------------------------
(* What the page says of the completion it shows *)

Tellers == {"challenge", "receipt", "contest"}

Told ==
    /\ page.demo # 0 =>
        LET c == server.completions[page.demo]
        IN  /\ page.receiptDone => c.confirmed
            /\ page.contested => c.challenge \in Contesting
            /\ page.lastResolve # "null" => c.challenge # "none"
            /\ page.lastResolve \in {"executed", "done"} => c.challenge = "upheld"
    /\ page.status = "challenged" => page.lastResolve \in Rulings

\* What a handler has been told of the completion it was clicked on is so.
AnswerTrue(h) ==
    LET call == calls[h]
        c == server.completions[call.id]
    IN  /\ call.asks = "resolve" => c.challenge # "none"
        /\ call.state = "ok" =>
              /\ call.asks = "challenge" => c.challenge # "none"
              /\ call.asks = "resolve" /\ call.got # "scheduled" => c.challenge = "upheld"
              /\ call.asks = "contest" => c.challenge \in Contesting
              /\ call.asks = "receipt" => c.confirmed

\* It is the completion the page shows, and a challenge past its ruling has shown it.
Current ==
    /\ \A h \in Tellers : calls[h].state # "idle" => calls[h].id = page.demo
    /\ calls["challenge"].asks \in {"list", "identity"} => page.lastResolve \in Rulings

TruthOK ==
    /\ \A h \in Handlers : AnswerTrue(h)
    /\ seen.overtaken \/ (Told /\ Current)

LEMMA TellersHandle == Tellers \subseteq Handlers
BY DEF Tellers, Handlers, Buttons

LEMMA Silent ==
  ASSUME NEW h \in Handlers, calls[h].asks \notin OnOne
  PROVE  AnswerTrue(h)
BY DEF AnswerTrue, OnOne

\* What a handler that stands still was told stays so when completions are challenged further.
LEMMA AnswerKept ==
  ASSUME PageOK, NEW g \in Handlers, AnswerTrue(g), calls'[g] = calls[g],
         \A i \in 1..Len(server.completions) : Later(server.completions[i], server'.completions[i])
  PROVE  AnswerTrue(g)'
<1>1. calls[g].asks \in OnOne => calls[g].id \in 1..Len(server.completions)
  BY PageTypes DEF CallOK
<1>2. calls[g].asks \in OnOne =>
        Later(server.completions[calls[g].id], server'.completions[calls[g].id])
  BY <1>1
<1> QED BY <1>2 DEF AnswerTrue, OnOne, Later

\* ... and so does what the page says.
LEMMA ToldKept ==
  ASSUME PageOK, Told, page' = page,
         \A i \in 1..Len(server.completions) : Later(server.completions[i], server'.completions[i])
  PROVE  Told'
<1>1. page.demo # 0 => page.demo \in 1..Len(server.completions)
  BY PageTypes
<1>2. page.demo # 0 => Later(server.completions[page.demo], server'.completions[page.demo])
  BY <1>1
<1> QED BY <1>2 DEF Told, Later

LEMMA TruthServe ==
  ASSUME PageOK, TruthOK, NEW h \in Handlers, serve(h)
  PROVE  TruthOK'
<1> DEFINE call == calls[h]
           new == calls'[h]
<1>1. /\ page' = page /\ seen' = seen /\ call.state = "sent" /\ new.asks = call.asks
      /\ new.id = call.id /\ new.state \in {"ok", "failed"}
      /\ server' = server \/ Done(call.asks, call.id)
      /\ new.state = "ok" =>
            \/ Done(call.asks, call.id) /\ new.got = Body(call.asks)
            \/ call.asks = "register"
      /\ \A g \in Handlers : g # h => calls'[g] = calls[g]
      /\ \A g \in Handlers : calls'[g].asks = calls[g].asks /\ calls'[g].id = calls[g].id
  BY ServeDoes
<1>2. \A i \in 1..Len(server.completions) : Later(server.completions[i], server'.completions[i])
  BY <1>1 DEF Done, Later
<1>3. call.asks \in OnOne => call.id \in 1..Len(server.completions)
  BY PageTypes DEF CallOK
<1>4. call.asks = "resolve" => server'.completions[call.id].challenge # "none"
  <2>1. call.asks = "resolve" => server.completions[call.id].challenge # "none"
    BY DEF TruthOK, AnswerTrue
  <2> QED BY <1>2, <1>3, <2>1 DEF Later, OnOne
<1>5. new.state = "ok" =>
         /\ call.asks = "challenge" => server'.completions[call.id].challenge # "none"
         /\ call.asks = "contest" => server'.completions[call.id].challenge \in Contesting
         /\ call.asks = "receipt" => server'.completions[call.id].confirmed
         /\ call.asks = "resolve" /\ new.got # "scheduled" =>
                server'.completions[call.id].challenge = "upheld"
  <2>1. CASE call.asks \in {"challenge", "contest", "receipt"}
    BY <1>1, <2>1 DEF Done
  <2>2. CASE call.asks = "resolve"
    <3>1. new.state = "ok" /\ new.got # "scheduled" => server.timelock # "delayed"
      BY <1>1, <2>2 DEF Body
    <3> QED BY <1>1, <2>2, <3>1 DEF Done
  <2> QED BY <2>1, <2>2
<1>6. AnswerTrue(h)'
  BY <1>1, <1>4, <1>5 DEF AnswerTrue
<1>7. ASSUME NEW g \in Handlers, g # h PROVE AnswerTrue(g)'
  BY <1>1, <1>2, <1>7, AnswerKept DEF TruthOK
<1>8. ASSUME ~seen.overtaken PROVE Told' /\ Current'
  <2>1. Told /\ Current
    BY <1>8 DEF TruthOK
  <2>2. \A g \in Handlers : calls'[g].state # "idle" => calls[g].state # "idle"
    BY <1>1
  <2>3. "challenge" \in Handlers
    BY DEF Handlers, Buttons
  <2>4. Current'
    BY <1>1, <2>1, <2>2, <2>3, TellersHandle DEF Current
  <2> QED BY <1>1, <1>2, <2>1, <2>4, ToldKept
<1> QED BY <1>1, <1>6, <1>7, <1>8 DEF TruthOK

\* A step of handler h on the page and the handlers alone.
LEMMA TruthHandler ==
  ASSUME PageOK, TruthOK, NEW h \in Handlers, UNCHANGED server,
         \A g \in Handlers : g # h => calls'[g] = calls[g], AnswerTrue(h)',
         seen.overtaken => seen'.overtaken,
         Told /\ Current /\ ~seen'.overtaken => Told' /\ Current'
  PROVE  TruthOK'
<1>1. ASSUME NEW g \in Handlers, g # h PROVE AnswerTrue(g)'
  BY <1>1, AnswerKept DEF TruthOK, Later
<1> QED BY <1>1 DEF TruthOK

LEMMA TruthClick ==
  ASSUME PageOK, TruthOK, NEW h \in Buttons, click(h)
  PROVE  TruthOK'
<1>1. h \in Handlers /\ server' = server /\ seen'.overtaken = seen.overtaken
  <2> DEFINE clicks == seen.clicks + 1
  <2>1. seen' = [seen EXCEPT !.clicks = clicks]
    BY DEF click
  <2> HIDE DEF clicks
  <2> QED BY <2>1, ButtonsHandle, SeenIs DEF SeenState, click
<1>2. /\ page'.demo = page.demo /\ page'.lastResolve = page.lastResolve
      /\ page'.receiptDone = page.receiptDone /\ page'.contested = page.contested
      /\ page'.status \in {page.status, "attesting", "challenging"}
  <2>1. page \in PageState
    BY PageTypes
  <2>2. CASE h = "register"
    <3>1. page' = [page EXCEPT !.identity = "typed"]
      BY <2>2 DEF click
    <3> QED BY <2>1, <3>1 DEF PageState
  <2>3. CASE h # "register"
    <3> DEFINE busy == page.busy \cup {h}
               status == CASE h = "run" -> "attesting"
                           [] h = "challenge" -> "challenging"
                           [] OTHER -> page.status
    <3>1. page' = [page EXCEPT !.busy = busy, !.error = FALSE, !.status = status]
      BY <2>3 DEF click
    <3>2. status \in {page.status, "attesting", "challenging"}
      OBVIOUS
    <3> HIDE DEF busy, status
    <3> QED BY <2>1, <3>1, <3>2 DEF PageState
  <2> QED BY <2>2, <2>3
<1>3. /\ \A g \in Handlers : g # h => calls'[g] = calls[g]
      /\ calls'[h].asks = h /\ calls'[h].id = page.demo /\ calls'[h].state = "sent"
  <2> DEFINE s == [NoCall EXCEPT !.asks = h, !.id = page.demo, !.state = "sent"]
  <2>1. calls' = [calls EXCEPT ![h] = s]
    BY DEF click
  <2>2. s.asks = h /\ s.id = page.demo /\ s.state = "sent"
    BY DEF NoCall
  <2> HIDE DEF s
  <2> QED BY <1>1, <2>1, <2>2 DEF PageOK, PageTyped
<1>4. AnswerTrue(h)'
  BY <1>3 DEF AnswerTrue, Buttons
<1>5. ASSUME Told, Current PROVE Told' /\ Current'
  <2>1. Told'
    BY <1>1, <1>2, <1>5 DEF Told
  <2>2. ASSUME NEW g \in Tellers, calls'[g].state # "idle" PROVE calls'[g].id = page'.demo
    BY <1>2, <1>3, <1>5, <2>2, TellersHandle DEF Current
  <2>3. calls'["challenge"].asks \in {"list", "identity"} => page'.lastResolve \in Rulings
    <3>1. "challenge" \in Handlers /\ h \notin {"list", "identity"}
      BY DEF Handlers, Buttons
    <3> QED BY <1>2, <1>3, <1>5, <3>1 DEF Current
  <2> QED BY <2>1, <2>2, <2>3 DEF Current
<1> QED BY <1>1, <1>3, <1>4, <1>5, TruthHandler

\* A newer completion is shown, of which nothing was said; it overtakes no handler, or that
\* is noted.
LEMMA TruthRunAnswered ==
  ASSUME PageOK, TruthOK, runAnswered
  PROVE  TruthOK'
<1> DEFINE demo == calls["run"].got
<1>1. "run" \in Handlers /\ Ask("run", "list") /\ server' = server
  BY DEF runAnswered, Handlers, Buttons
<1>2. page' = [page EXCEPT !.demo = demo, !.lastResolve = "null", !.receiptDone = FALSE,
                           !.contested = FALSE, !.status = "done"]
  BY DEF runAnswered
<1> HIDE DEF demo
<1>3. /\ page'.lastResolve = "null" /\ page'.receiptDone = FALSE /\ page'.contested = FALSE
      /\ page'.status = "done"
  BY <1>2, PageTypes DEF PageState
<1>4. /\ \A g \in Handlers : g # "run" => calls'[g] = calls[g]
      /\ calls'["run"].asks = "list"
  BY <1>1, AskDoes DEF PageOK, Asks
<1>5. ASSUME NEW g \in Handlers PROVE AnswerTrue(g)'
  <2>1. CASE g = "run"
    BY <1>4, <2>1 DEF AnswerTrue
  <2>2. CASE g # "run"
    BY <1>1, <1>4, <2>2, AnswerKept DEF TruthOK, Later
  <2> QED BY <2>1, <2>2
<1>6. Told'
  BY <1>3 DEF Told
<1>7. ASSUME ~seen'.overtaken PROVE Current'
  <2> DEFINE overtaken == Telling # {}
  <2>1. seen' = [seen EXCEPT !.overtaken = overtaken]
    BY DEF runAnswered
  <2> HIDE DEF overtaken
  <2>2. seen'.overtaken = overtaken
    BY <2>1, SeenIs DEF SeenState
  <2>3. Telling = {}
    BY <1>7, <2>2 DEF overtaken
  <2>4. \A g \in Tellers : calls[g].state = "idle" /\ calls[g].asks = "nothing" /\ g # "run"
    BY <2>3, TellersHandle, PageTypes DEF Telling, InFlight, Tellers, CallOK
  <2>5. \A g \in Tellers : calls'[g] = calls[g]
    BY <1>4, <2>4, TellersHandle
  <2> QED BY <2>4, <2>5 DEF Current, Tellers
<1> QED BY <1>5, <1>6, <1>7 DEF TruthOK

\* The answers of the other buttons.
LEMMA TruthAnswered ==
  ASSUME PageOK, TruthOK, NEW h \in {"challenge", "receipt", "contest", "finalize"},
         NEW what \in {"list", "resolve"}, calls[h].state # "idle", Ask(h, what),
         server' = server, seen'.overtaken = seen.overtaken, page'.demo = page.demo,
         h # "challenge" => what = "list" /\ page'.lastResolve = page.lastResolve,
         h = "challenge" /\ what = "list" => page'.lastResolve \in Rulings,
         what = "resolve" => server.completions[calls[h].id].challenge # "none",
         Told /\ Current => Told'
  PROVE  TruthOK'
<1>1. h \in Handlers
  BY DEF Handlers, Buttons
<1>2. /\ \A g \in Handlers : g # h => calls'[g] = calls[g]
      /\ calls'[h].asks = what /\ calls'[h].id = calls[h].id /\ calls'[h].state = "sent"
  BY <1>1, AskDoes DEF PageOK, Asks, OnOne
<1>3. AnswerTrue(h)'
  BY <1>2 DEF AnswerTrue
<1>4. ASSUME Told, Current PROVE Told' /\ Current'
  <2>1. ASSUME NEW g \in Tellers, calls'[g].state # "idle" PROVE calls'[g].id = page'.demo
    BY <1>2, <1>4, <2>1, TellersHandle DEF Current
  <2>2. calls'["challenge"].asks \in {"list", "identity"} => page'.lastResolve \in Rulings
    <3>1. "challenge" \in Handlers
      BY DEF Handlers, Buttons
    <3> QED BY <1>2, <1>4, <3>1 DEF Current
  <2> QED BY <1>4, <2>1, <2>2 DEF Current
<1> QED BY <1>1, <1>2, <1>3, <1>4, TruthHandler

LEMMA AckQuiet ==
  ASSUME PageOK, NEW h, NEW what, Ack(h, what)
  PROVE  seen'.overtaken = seen.overtaken
<1> DEFINE acked == seen.acked \cup {<<what, calls[h].id>>}
<1>1. seen' = [seen EXCEPT !.acked = acked]
  BY DEF Ack
<1> HIDE DEF acked
<1> QED BY <1>1, SeenIs DEF SeenState

LEMMA TruthButtons ==
  ASSUME PageOK, TruthOK,
         \/ challengeAnswered \/ resolveAnswered \/ receiptAnswered \/ contestAnswered
         \/ finalizeAnswered
  PROVE  TruthOK'
<1> USE DEF Answered
<1>0. page \in PageState /\ {"challenge", "receipt", "contest", "finalize"} \subseteq Handlers
  BY PageTypes DEF Handlers, Buttons
<1>1. CASE challengeAnswered
  <2>1. /\ page' = [page EXCEPT !.lastResolve = "{}", !.status = "resolving"] /\ server' = server
        /\ calls["challenge"].asks = "challenge" /\ calls["challenge"].state = "ok"
        /\ Ask("challenge", "resolve") /\ seen'.overtaken = seen.overtaken
    BY <1>1, AckQuiet DEF challengeAnswered
  <2>2. /\ page'.demo = page.demo /\ page'.receiptDone = page.receiptDone
        /\ page'.contested = page.contested /\ page'.lastResolve = "{}"
        /\ page'.status = "resolving"
    BY <1>0, <2>1 DEF PageState
  <2>3. server.completions[calls["challenge"].id].challenge # "none"
    BY <1>0, <2>1 DEF TruthOK, AnswerTrue
  <2>4. Told /\ Current => Told'
    <3>1. Current => calls["challenge"].id = page.demo
      BY <2>1 DEF Current, Tellers
    <3> QED BY <2>1, <2>2, <2>3, <3>1 DEF Told
  <2> QED BY <2>1, <2>2, <2>3, <2>4, TruthAnswered
<1>2. CASE resolveAnswered
  <2> DEFINE got == calls["challenge"].got
  <2>1. /\ page' = [page EXCEPT !.lastResolve = got] /\ server' = server /\ seen' = seen
        /\ calls["challenge"].asks = "resolve" /\ calls["challenge"].state = "ok"
        /\ Ask("challenge", "list")
    BY <1>2 DEF resolveAnswered
  <2>2. /\ got \in Rulings /\ server.completions[calls["challenge"].id].challenge # "none"
        /\ got # "scheduled" => server.completions[calls["challenge"].id].challenge = "upheld"
    BY <1>0, <2>1, PageTypes DEF TruthOK, AnswerTrue, CallOK
  <2> HIDE DEF got
  <2>3. /\ page'.demo = page.demo /\ page'.receiptDone = page.receiptDone
        /\ page'.contested = page.contested /\ page'.lastResolve = got
        /\ page'.status = page.status
    BY <1>0, <2>1 DEF PageState
  <2>4. Told /\ Current => Told'
    <3>1. Current => calls["challenge"].id = page.demo
      BY <2>1 DEF Current, Tellers
    <3> QED BY <2>1, <2>2, <2>3, <3>1 DEF Told, Rulings
  <2> QED BY <2>1, <2>2, <2>3, <2>4, TruthAnswered
<1>3. CASE receiptAnswered
  <2>1. /\ page' = [page EXCEPT !.receiptDone = TRUE] /\ server' = server
        /\ calls["receipt"].asks = "receipt" /\ calls["receipt"].state = "ok"
        /\ Ask("receipt", "list") /\ seen'.overtaken = seen.overtaken
    BY <1>3, AckQuiet DEF receiptAnswered
  <2>2. /\ page'.demo = page.demo /\ page'.contested = page.contested
        /\ page'.lastResolve = page.lastResolve /\ page'.status = page.status
    BY <1>0, <2>1 DEF PageState
  <2>3. server.completions[calls["receipt"].id].confirmed
    BY <1>0, <2>1 DEF TruthOK, AnswerTrue
  <2>4. Told /\ Current => Told'
    <3>1. Current => calls["receipt"].id = page.demo
      BY <2>1 DEF Current, Tellers
    <3> QED BY <2>1, <2>2, <2>3, <3>1 DEF Told
  <2> QED BY <2>1, <2>2, <2>4, TruthAnswered
<1>4. CASE contestAnswered
  <2>1. /\ page' = [page EXCEPT !.contested = TRUE] /\ server' = server
        /\ calls["contest"].asks = "contest" /\ calls["contest"].state = "ok"
        /\ Ask("contest", "list") /\ seen'.overtaken = seen.overtaken
    BY <1>4, AckQuiet DEF contestAnswered
  <2>2. /\ page'.demo = page.demo /\ page'.receiptDone = page.receiptDone
        /\ page'.lastResolve = page.lastResolve /\ page'.status = page.status
    BY <1>0, <2>1 DEF PageState
  <2>3. server.completions[calls["contest"].id].challenge \in Contesting
    BY <1>0, <2>1 DEF TruthOK, AnswerTrue
  <2>4. Told /\ Current => Told'
    <3>1. Current => calls["contest"].id = page.demo
      BY <2>1 DEF Current, Tellers
    <3> QED BY <2>1, <2>2, <2>3, <3>1 DEF Told
  <2> QED BY <2>1, <2>2, <2>4, TruthAnswered
<1>5. CASE finalizeAnswered
  <2>1. /\ UNCHANGED <<page, server, seen>> /\ calls["finalize"].state = "ok"
        /\ Ask("finalize", "list")
    BY <1>5 DEF finalizeAnswered
  <2>2. Told => Told'
    BY <2>1 DEF Told
  <2> QED BY <2>1, <2>2, TruthAnswered
<1> QED BY <1>1, <1>2, <1>3, <1>4, <1>5

\* A handler that shows nothing more of the completion, or, at the end of a challenge, its ruling.
LEMMA TruthGoes ==
  ASSUME PageOK, TruthOK, NEW h \in Handlers, calls[h].state # "idle",
         Over(h) \/ (Ask(h, "list") /\ h = "register")
                 \/ (Ask(h, "identity") /\ calls[h].asks = "list"),
         UNCHANGED <<server, seen>>, page'.demo = page.demo,
         page'.lastResolve = page.lastResolve, page'.receiptDone = page.receiptDone,
         page'.contested = page.contested,
         \/ page'.status \in {page.status, "error"}
         \/ h = "challenge" /\ calls[h].asks = "identity"
  PROVE  TruthOK'
<1>1. /\ \A g \in Handlers : g # h => calls'[g] = calls[g]
      /\ calls'[h].asks \in {"nothing", "list", "identity"}
      /\ calls'[h].state # "idle" => calls'[h].id = calls[h].id
      /\ calls'[h].asks \in {"list", "identity"} => h = "register" \/ calls[h].asks = "list"
  <2>1. CASE Over(h)
    BY <2>1, OverDoes DEF PageOK
  <2>2. CASE Ask(h, "list") /\ h = "register"
    BY <2>2, AskDoes DEF PageOK, Asks
  <2>3. CASE Ask(h, "identity") /\ calls[h].asks = "list"
    BY <2>3, AskDoes DEF PageOK, Asks
  <2> QED BY <2>1, <2>2, <2>3
<1>2. AnswerTrue(h)'
  BY <1>1 DEF AnswerTrue
<1>3. ASSUME Told, Current PROVE Told' /\ Current'
  <2>1. Told'
    BY <1>3 DEF Told, Current
  <2>2. ASSUME NEW g \in Tellers, calls'[g].state # "idle" PROVE calls'[g].id = page'.demo
    BY <1>1, <1>3, <2>2, TellersHandle DEF Current
  <2>3. calls'["challenge"].asks \in {"list", "identity"} => page'.lastResolve \in Rulings
    <3>1. "challenge" \in Handlers /\ "challenge" # "register"
      BY DEF Handlers, Buttons
    <3> QED BY <1>1, <1>3, <3>1 DEF Current
  <2> QED BY <2>1, <2>2, <2>3 DEF Current
<1> QED BY <1>1, <1>2, <1>3, TruthHandler

LEMMA TruthEnds ==
  ASSUME PageOK, TruthOK, NEW h \in Handlers,
         registerAnswered \/ listed(h) \/ identified(h) \/ failed(h)
  PROVE  TruthOK'
<1>0. page \in PageState /\ "register" \in Handlers
  BY PageTypes DEF Handlers, Buttons
<1>1. CASE registerAnswered
  <2>1. /\ UNCHANGED <<page, server, seen>> /\ calls["register"].state = "ok"
        /\ Over("register") \/ Ask("register", "list")
    BY <1>1 DEF registerAnswered, Answered
  <2> QED BY <1>0, <2>1, TruthGoes
<1>2. CASE listed(h)
  <2>1. /\ UNCHANGED <<page, server, seen>> /\ calls[h].state = "ok" /\ calls[h].asks = "list"
        /\ Ask(h, "identity")
    BY <1>2 DEF listed, Answered
  <2> QED BY <2>1, TruthGoes
<1>3. CASE identified(h)
  <2> DEFINE identity == IF calls[h].state = "ok" THEN calls[h].got ELSE page.identity
             status == IF h = "challenge" THEN "challenged" ELSE page.status
             error == page.error \/ (h = "challenge" /\ server.timelock = "delayed")
             busy == page.busy \ {h}
  <2>1. page' = [page EXCEPT !.identity = identity, !.status = status, !.error = error, !.busy = busy]
    BY <1>3 DEF identified
  <2>2. /\ calls[h].asks = "identity" /\ calls[h].state # "idle" /\ UNCHANGED <<server, seen>>
        /\ Over(h) /\ (status = page.status \/ h = "challenge")
    BY <1>3 DEF identified
  <2> HIDE DEF identity, status, error, busy
  <2>3. /\ page'.demo = page.demo /\ page'.status = status
        /\ page'.lastResolve = page.lastResolve /\ page'.receiptDone = page.receiptDone
        /\ page'.contested = page.contested
    BY <1>0, <2>1 DEF PageState
  <2> QED BY <2>2, <2>3, TruthGoes
<1>4. CASE failed(h)
  <2> DEFINE status == IF h = "run" THEN "error" ELSE page.status
             busy == page.busy \ {h}
  <2>1. page' = [page EXCEPT !.error = TRUE, !.busy = busy, !.status = status]
    BY <1>4 DEF failed
  <2>2. /\ calls[h].state # "idle" /\ UNCHANGED <<server, seen>> /\ Over(h)
        /\ status \in {page.status, "error"}
    BY <1>4 DEF failed
  <2> HIDE DEF status, busy
  <2>3. /\ page'.demo = page.demo /\ page'.status = status
        /\ page'.lastResolve = page.lastResolve /\ page'.receiptDone = page.receiptDone
        /\ page'.contested = page.contested
    BY <1>0, <2>1 DEF PageState
  <2> QED BY <2>2, <2>3, TruthGoes
<1> QED BY <1>1, <1>2, <1>3, <1>4

LEMMA TruthKept == PageOK /\ TruthOK /\ [DemoNext]_demoVars => TruthOK'
<1> SUFFICES ASSUME PageOK, TruthOK, [DemoNext]_demoVars PROVE TruthOK'
  OBVIOUS
<1>1. CASE DemoNext
  <2>1. "run" \in Handlers
    BY DEF Handlers, Buttons
  <2> QED BY <1>1, <2>1, TruthClick, TruthServe, TruthRunAnswered, TruthButtons, TruthEnds
             DEF DemoNext
<1>2. CASE UNCHANGED demoVars
  <2>1. UNCHANGED <<page, calls, server, seen>>
    BY <1>2 DEF demoVars
  <2> QED BY <2>1 DEF TruthOK, Told, Current, AnswerTrue
<1> QED BY <1>1, <1>2

LEMMA TruthInit == DemoInit => TruthOK
<1> SUFFICES ASSUME DemoInit PROVE TruthOK
  OBVIOUS
<1>1. page.demo = 0 /\ page.status = "idle"
  BY DEF DemoInit
<1>2. ASSUME NEW h \in Handlers
      PROVE  \/ h = "mount" /\ calls[h].asks = "list"
             \/ h # "mount" /\ calls[h].asks = "nothing" /\ calls[h].state = "idle"
  <2> DEFINE s == [NoCall EXCEPT !.asks = "list", !.state = "sent"]
  <2>1. s.asks = "list"
    BY DEF NoCall
  <2>2. calls = [g \in Handlers |-> IF g = "mount" THEN s ELSE NoCall]
    BY DEF DemoInit
  <2> HIDE DEF s
  <2> QED BY <2>1, <2>2 DEF NoCall
<1>3. \A h \in Tellers : h \in Handlers /\ h # "mount"
  BY DEF Tellers, Handlers, Buttons
<1> QED BY <1>1, <1>2, <1>3 DEF TruthOK, Told, Current, AnswerTrue, Tellers

(* PageTellsTruth, for any number of completions, clicks and handlers under way, whatever
   fails: what the page says of the completion it shows is what the chain says, unless a
   handler that was to speak of an older one was under way when this one was made. *)
THEOREM PageIsTruthful == DemoSpec => []PageTellsTruth
<1>1. PageOK /\ TruthOK => PageTellsTruth
  <2> SUFFICES ASSUME PageOK, Told, page.demo # 0
               PROVE  LET c == server.completions[page.demo]
                      IN  /\ page.receiptDone => c.confirmed
                          /\ page.contested => c.challenge \in {"contested", "upheld"}
                          /\ page.lastResolve # "null" => c.challenge # "none"
                          /\ page.lastResolve \in {"executed", "done"} => c.challenge = "upheld"
                          /\ page.status = "challenged" =>
                                c.challenge = "upheld" \/ page.lastResolve = "scheduled"
    BY DEF PageTellsTruth, TruthOK
  <2> QED BY DEF Told, Contesting, Rulings
<1> QED BY <1>1, PageInit, PageStep, TruthInit, TruthKept, PTL DEF DemoSpec
=============================================================================
