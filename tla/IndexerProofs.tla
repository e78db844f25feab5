--------------------------- MODULE IndexerProofs ---------------------------
(***************************************************************************)
(* Proofs about the indexer, for every chain that the two contracts can    *)
(* write, every number of agents and ids, and every value of the settings. *)
(* What is proved depends on what goes wrong: each theorem says under      *)
(* which faults its property is kept, and whether polls may overlap.       *)
(***************************************************************************)
EXTENDS Indexer, SequenceTheorems, SumTheorems

(* Types *)

Log ==
    {NoLog, [kind |-> "OwnerActed"]}
    \cup [kind : {"SelfAttested"}, id : Completions, agent : Agents]
    \cup [kind : {"ReceiptAttested"}, id : Completions, agent : Agents, counterparty : Parties]
    \cup [kind : {"ReceiptRevoked", "ChallengeSubmitted", "ChallengeCancelled"}, id : Completions]
    \cup [kind : {"ChallengeResolved"}, id : Completions, upheld : BOOLEAN]
    \cup [kind : {"CapabilityRegistered"}, id : Capabilities, creator : Agents]
    \cup [kind : {"CapabilityCertified", "CapabilitySlashed", "BondWithdrawn"}, id : Capabilities]
    \cup [kind : {"AgentRegistered"}, agent : Agents, cid : Profiles]

Completion ==
    [agent : Agents \cup {Nobody}, counterparty : Parties \cup {Nobody}, challenged : BOOLEAN,
     pending : BOOLEAN, disputed : BOOLEAN]

Capability ==
    [registered : BOOLEAN, live : BOOLEAN, certified : BOOLEAN, slashed : BOOLEAN,
     creator : Agents \cup {Nobody}]

\* What the contracts can be in, as far as their logs tell.
World ==
    [completions : [Completions -> Completion], capabilities : [Capabilities -> Capability],
     agentMetadataCID : [Agents -> Profiles \cup {Nobody}], lastActivity : [Agents -> Nat]]

Block == [number : Nat, hash : Nat \ {0}, log : Log, state : World]

Row == [id : Nat, kind : AlertKinds, block : Nat, tx : Nat]
Marker == [hash : Nat, block : Nat]
Receipt == [agent : Agents \cup {Nobody}, counterparty : Parties \cup {Nobody}]
Counters == [completions : Nat, confirmed : Nat, disputes : Nat, lastActivity : Nat]
IndexedCapability == [creator : Agents \cup {Nobody}, certified : BOOLEAN, slashed : BOOLEAN]

Database ==
    [scores : [Agents -> Counters], completions : [Completions -> Agents \cup {Nobody}],
     receipts : [Completions -> Receipt], confirmations : [Agents -> [Parties -> Nat]],
     distinct : [Agents -> Nat], capabilities : [Capabilities -> IndexedCapability],
     identity : [Agents -> Profiles \cup {Nobody}], alerts : SUBSET Row,
     indexedLogs : SUBSET Marker, forgotten : SUBSET Marker, lastBlock : Nat, lastHash : Nat]

PollState ==
    [pc : {"idle", "check", "logs", "stamp", "enrich", "mark", "hash"}, safeHead : Int,
     cursor : Nat, stored : Nat, from : Nat, to : Nat, chunks : Nat, next : Seq(Block), ts : Nat]

Stages == {"starting", "first", "polling", "failed"}

TypeOK ==
    /\ scenario \in Scenarios
    /\ chain \in Seq(Block)
    /\ mined \in Nat /\ restarts \in Nat /\ settled \in Nat
    /\ db \in Database
    /\ indexer \in Stages
    /\ polls \in [Polls -> PollState]

-----------------------------------------------------------------------------
(* Facts about numbers and sequences *)

\* Part of a sequence, item by item.
LEMMA PartOfSequence ==
  ASSUME NEW S, NEW s \in Seq(S), NEW m \in Nat \ {0}, NEW n \in Nat, n <= Len(s)
  PROVE  /\ SubSeq(s, m, n) \in Seq(S)
         /\ Len(SubSeq(s, m, n)) = IF m <= n THEN n - m + 1 ELSE 0
         /\ \A i \in 1..Len(SubSeq(s, m, n)) : SubSeq(s, m, n)[i] = s[m + i - 1]
<1>1. CASE m <= n
  BY <1>1, SubSeqProperties
<1>2. CASE ~(m <= n)
  BY <1>2, SubSeqProperties
<1> QED BY <1>1, <1>2

-----------------------------------------------------------------------------
(* What the contracts can write *)

CompletionKinds ==
    {"SelfAttested", "ReceiptAttested", "ReceiptRevoked", "ChallengeSubmitted",
     "ChallengeResolved", "ChallengeCancelled"}

CapabilityKinds ==
    {"CapabilityRegistered", "CapabilityCertified", "CapabilitySlashed", "BondWithdrawn"}

\* The state a log presupposes.
Emits(w, e) ==
    /\ e.kind \in CompletionKinds =>
        LET c == w.completions[e.id]
        IN  /\ e.kind = "SelfAttested" => c.agent = Nobody
            /\ e.kind # "SelfAttested" => c.agent # Nobody
            /\ e.kind = "ReceiptAttested" =>
                  c.agent = e.agent /\ c.counterparty = Nobody /\ ~c.disputed /\ ~c.pending
            /\ e.kind = "ReceiptRevoked" => c.counterparty # Nobody
            /\ e.kind = "ChallengeSubmitted" => ~c.challenged
            /\ e.kind \in {"ChallengeResolved", "ChallengeCancelled"} => c.pending
    /\ e.kind \in CapabilityKinds =>
        LET k == w.capabilities[e.id]
        IN  /\ e.kind = "CapabilityRegistered" => ~k.registered
            /\ e.kind # "CapabilityRegistered" => k.registered /\ k.live

LEMMA CompletionLogFacts ==
  ASSUME NEW w \in World, NEW i \in Completions, NEW e \in CompletionLogs(w, i)
  PROVE  e \in Log /\ Emits(w, e) /\ e.kind \in CompletionKinds /\ e.id = i
<1> DEFINE c == w.completions[i]
<1>1. c \in Completion
  BY DEF World
<1>2. CASE c.agent = Nobody
  <2>1. PICK a \in Agents : e = [kind |-> "SelfAttested", id |-> i, agent |-> a]
    BY <1>2 DEF CompletionLogs
  <2> QED BY <1>2, <2>1 DEF Log, Emits, CompletionKinds, CapabilityKinds
<1>3. CASE c.agent # Nobody
  <2>1. c.agent \in Agents
    BY <1>1, <1>3 DEF Completion
  <2>2. \/ \E r \in Parties : e = [kind |-> "ReceiptAttested", id |-> i, agent |-> c.agent,
                                   counterparty |-> r]
        \/ e = [kind |-> "ReceiptRevoked", id |-> i]
        \/ e = [kind |-> "ChallengeSubmitted", id |-> i]
        \/ \E u \in BOOLEAN : e = [kind |-> "ChallengeResolved", id |-> i, upheld |-> u]
        \/ e = [kind |-> "ChallengeCancelled", id |-> i]
    BY <1>3 DEF CompletionLogs
  <2>3. /\ e.kind = "ReceiptAttested" => c.counterparty = Nobody /\ ~c.disputed /\ ~c.pending
        /\ e.kind = "ReceiptRevoked" => c.counterparty # Nobody
        /\ e.kind = "ChallengeSubmitted" => ~c.challenged
        /\ e.kind \in {"ChallengeResolved", "ChallengeCancelled"} => c.pending
    BY <1>3, <2>2 DEF CompletionLogs
  <2>4. e \in Log /\ e.id = i /\ e.kind \in CompletionKinds \ {"SelfAttested"}
        /\ (e.kind = "ReceiptAttested" => e.agent = c.agent)
    BY <2>1, <2>2 DEF Log, CompletionKinds
  <2>5. e.kind \notin CapabilityKinds
    BY <2>2 DEF CapabilityKinds
  <2> QED BY <1>3, <2>3, <2>4, <2>5 DEF Emits
<1> QED BY <1>2, <1>3

LEMMA CapabilityLogFacts ==
  ASSUME NEW w \in World, NEW i \in Capabilities, NEW e \in CapabilityLogs(w, i)
  PROVE  e \in Log /\ Emits(w, e) /\ e.kind \in CapabilityKinds /\ e.id = i
<1> DEFINE k == w.capabilities[i]
<1>1. CASE ~k.registered
  <2>1. PICK a \in Agents : e = [kind |-> "CapabilityRegistered", id |-> i, creator |-> a]
    BY <1>1 DEF CapabilityLogs
  <2> QED BY <1>1, <2>1 DEF Log, Emits, CompletionKinds, CapabilityKinds
<1>2. CASE k.registered
  <2>1. e \in {[kind |-> "CapabilityCertified", id |-> i], [kind |-> "CapabilitySlashed", id |-> i],
               [kind |-> "BondWithdrawn", id |-> i]} /\ k.live
    BY <1>2 DEF CapabilityLogs
  <2> QED BY <1>2, <2>1 DEF Log, Emits, CompletionKinds, CapabilityKinds
<1> QED BY <1>1, <1>2

LEMMA LogFacts ==
  ASSUME NEW w \in World, NEW kinds, NEW e \in LogsIn(w, kinds)
  PROVE  e \in Log /\ Emits(w, e)
<1>1. \/ e \in {NoLog, [kind |-> "OwnerActed"]}
      \/ \E i \in Completions : e \in CompletionLogs(w, i)
      \/ \E i \in Capabilities : e \in CapabilityLogs(w, i)
      \/ \E a \in Agents : \E c \in Profiles : e = [kind |-> "AgentRegistered", agent |-> a, cid |-> c]
  <2> DEFINE A == {NoLog, [kind |-> "OwnerActed"]}
             B == UNION {CompletionLogs(w, i) : i \in Completions}
             C == UNION {CapabilityLogs(w, i) : i \in Capabilities}
             D == {[kind |-> "AgentRegistered", agent |-> a, cid |-> c] : a \in Agents, c \in Profiles}
  <2>1. e \in {x \in A \cup B \cup C \cup D : x.kind \in kinds}
    BY DEF LogsIn
  <2>2. e \in A \/ e \in B \/ e \in C \/ e \in D
    <3> HIDE DEF A, B, C, D
    <3> QED BY <2>1
  <2>3. e \in D => \E a \in Agents : \E c \in Profiles :
                      e = [kind |-> "AgentRegistered", agent |-> a, cid |-> c]
    OBVIOUS
  <2> QED BY <2>2, <2>3
<1>2. CASE e \in {NoLog, [kind |-> "OwnerActed"]}
  BY <1>2 DEF NoLog, Log, Emits, CompletionKinds, CapabilityKinds
<1>3. CASE \E a \in Agents : \E c \in Profiles :
              e = [kind |-> "AgentRegistered", agent |-> a, cid |-> c]
  BY <1>3 DEF Log, Emits, CompletionKinds, CapabilityKinds
<1> QED BY <1>1, <1>2, <1>3, CompletionLogFacts, CapabilityLogFacts

\* What a log of each kind carries.
LEMMA LogFields ==
  ASSUME NEW e \in Log
  PROVE  /\ e.kind \in CompletionKinds \cup CapabilityKinds
                       \cup {"None", "OwnerActed", "AgentRegistered"}
         /\ e.kind \in CompletionKinds => e.id \in Completions
         /\ e.kind \in CapabilityKinds => e.id \in Capabilities
         /\ e.kind \in {"SelfAttested", "ReceiptAttested", "AgentRegistered"} => e.agent \in Agents
         /\ e.kind = "ReceiptAttested" => e.counterparty \in Parties
         /\ e.kind = "ChallengeResolved" => e.upheld \in BOOLEAN
         /\ e.kind = "CapabilityRegistered" => e.creator \in Agents
         /\ e.kind = "AgentRegistered" => e.cid \in Profiles
         /\ e.kind = "None" <=> e = NoLog
<1>1. CASE e \in {NoLog, [kind |-> "OwnerActed"]}
  BY <1>1 DEF CompletionKinds, CapabilityKinds, NoLog
<1>2. CASE \/ e \in [kind : {"SelfAttested"}, id : Completions, agent : Agents]
           \/ e \in [kind : {"ReceiptAttested"}, id : Completions, agent : Agents,
                     counterparty : Parties]
  BY <1>2 DEF CompletionKinds, CapabilityKinds, NoLog
<1>3. CASE \/ e \in [kind : {"ReceiptRevoked", "ChallengeSubmitted", "ChallengeCancelled"},
                     id : Completions]
           \/ e \in [kind : {"ChallengeResolved"}, id : Completions, upheld : BOOLEAN]
  BY <1>3 DEF CompletionKinds, CapabilityKinds, NoLog
<1>4. CASE \/ e \in [kind : {"CapabilityRegistered"}, id : Capabilities, creator : Agents]
           \/ e \in [kind : {"CapabilityCertified", "CapabilitySlashed", "BondWithdrawn"},
                     id : Capabilities]
  BY <1>4 DEF CompletionKinds, CapabilityKinds, NoLog
<1>5. CASE e \in [kind : {"AgentRegistered"}, agent : Agents, cid : Profiles]
  BY <1>5 DEF CompletionKinds, CapabilityKinds, NoLog
<1> QED BY <1>1, <1>2, <1>3, <1>4, <1>5 DEF Log

\* One completion, and one capability, after a log about it.
CompletionAfter(c, e) ==
    CASE e.kind = "SelfAttested" -> [c EXCEPT !.agent = e.agent]
      [] e.kind = "ReceiptAttested" -> [c EXCEPT !.counterparty = e.counterparty]
      [] e.kind = "ReceiptRevoked" -> [c EXCEPT !.counterparty = Nobody]
      [] e.kind = "ChallengeSubmitted" -> [c EXCEPT !.challenged = TRUE, !.pending = TRUE]
      [] e.kind = "ChallengeResolved" ->
            [c EXCEPT !.pending = FALSE, !.disputed = e.upheld,
                      !.counterparty = IF e.upheld THEN Nobody ELSE @]
      [] OTHER -> [c EXCEPT !.pending = FALSE]

CapabilityAfter(k, e) ==
    CASE e.kind = "CapabilityRegistered" ->
            [k EXCEPT !.registered = TRUE, !.live = TRUE, !.creator = e.creator]
      [] e.kind = "CapabilityCertified" -> [k EXCEPT !.certified = TRUE]
      [] e.kind = "CapabilitySlashed" -> [k EXCEPT !.slashed = TRUE]
      [] OTHER -> [k EXCEPT !.live = FALSE]

LEMMA EntryTypes ==
  ASSUME NEW e \in Log
  PROVE  /\ \A c \in Completion : e.kind \in CompletionKinds => CompletionAfter(c, e) \in Completion
         /\ \A k \in Capability : e.kind \in CapabilityKinds => CapabilityAfter(k, e) \in Capability
<1>1. ASSUME NEW c \in Completion, e.kind \in CompletionKinds
      PROVE  CompletionAfter(c, e) \in Completion
  BY <1>1, LogFields DEF CompletionKinds, Completion, CompletionAfter
<1>2. ASSUME NEW k \in Capability, e.kind \in CapabilityKinds
      PROVE  CapabilityAfter(k, e) \in Capability
  BY <1>2, LogFields DEF CapabilityKinds, Capability, CapabilityAfter
<1> QED BY <1>1, <1>2

\* A log changes the entry it is about and no other table but the last activity.
LEMMA AfterCompletionLog ==
  ASSUME NEW w \in World, NEW e \in Log, NEW ts \in Nat, e.kind \in CompletionKinds
  PROVE  StateAfter(w, e, ts) =
            [w EXCEPT !.completions =
                        [w.completions EXCEPT ![e.id] = CompletionAfter(w.completions[e.id], e)],
                      !.lastActivity =
                        IF e.kind \in {"SelfAttested", "ReceiptAttested"}
                        THEN [w.lastActivity EXCEPT ![e.agent] = ts] ELSE w.lastActivity]
<1> DEFINE c == w.completions[e.id]
<1>1. e.id \in Completions
  BY LogFields
<1>2. c \in Completion
  BY <1>1 DEF World
<1>3. CASE e.kind = "SelfAttested"
  BY <1>1, <1>2, <1>3 DEF StateAfter, CompletionAfter, World
<1>4. CASE e.kind = "ReceiptAttested"
  BY <1>1, <1>2, <1>4 DEF StateAfter, CompletionAfter, World
<1>5. CASE e.kind = "ReceiptRevoked"
  BY <1>1, <1>2, <1>5 DEF StateAfter, CompletionAfter, World
<1>6. CASE e.kind = "ChallengeSubmitted"
  BY <1>1, <1>2, <1>6 DEF StateAfter, CompletionAfter, World
<1>7. CASE e.kind = "ChallengeResolved"
  BY <1>1, <1>2, <1>7 DEF StateAfter, CompletionAfter, World
<1>8. CASE e.kind = "ChallengeCancelled"
  BY <1>1, <1>2, <1>8 DEF StateAfter, CompletionAfter, World
<1> QED BY <1>3, <1>4, <1>5, <1>6, <1>7, <1>8 DEF CompletionKinds

LEMMA AfterCapabilityLog ==
  ASSUME NEW w \in World, NEW e \in Log, NEW ts \in Nat, e.kind \in CapabilityKinds
  PROVE  StateAfter(w, e, ts) =
            [w EXCEPT !.capabilities =
                        [w.capabilities EXCEPT ![e.id] = CapabilityAfter(w.capabilities[e.id], e)]]
<1> DEFINE k == w.capabilities[e.id]
<1>1. e.id \in Capabilities
  BY LogFields
<1>2. k \in Capability
  BY <1>1 DEF World
<1>3. CASE e.kind = "CapabilityRegistered"
  BY <1>1, <1>2, <1>3 DEF StateAfter, CapabilityAfter, World
<1>4. CASE e.kind = "CapabilityCertified"
  BY <1>1, <1>2, <1>4 DEF StateAfter, CapabilityAfter, World
<1>5. CASE e.kind = "CapabilitySlashed"
  BY <1>1, <1>2, <1>5 DEF StateAfter, CapabilityAfter, World
<1>6. CASE e.kind = "BondWithdrawn"
  BY <1>1, <1>2, <1>6 DEF StateAfter, CapabilityAfter, World
<1> QED BY <1>3, <1>4, <1>5, <1>6 DEF CapabilityKinds

LEMMA AfterOtherLog ==
  ASSUME NEW w \in World, NEW e \in Log, NEW ts \in Nat,
         e.kind \notin CompletionKinds, e.kind \notin CapabilityKinds
  PROVE  StateAfter(w, e, ts) =
            IF e.kind = "AgentRegistered"
            THEN [w EXCEPT !.agentMetadataCID = [w.agentMetadataCID EXCEPT ![e.agent] = e.cid]]
            ELSE w
<1>1. CASE e.kind = "AgentRegistered"
  BY <1>1 DEF StateAfter, World
<1>2. CASE e.kind # "AgentRegistered"
  BY <1>2 DEF StateAfter, CompletionKinds, CapabilityKinds
<1> QED BY <1>1, <1>2

\* What holds of the contracts at every block.
Sound(w) ==
    /\ \A i \in Completions :
          LET c == w.completions[i]
          IN  /\ c.pending \/ c.disputed => c.challenged
              /\ ~(c.pending /\ c.disputed)
              /\ c.agent = Nobody => c.counterparty = Nobody /\ ~c.challenged
    /\ \A i \in Capabilities :
          LET k == w.capabilities[i]
          IN  ~k.registered => ~k.live /\ ~k.certified

\* What a later state keeps of an earlier one.
Later(v, w) ==
    /\ \A i \in Completions :
          v.completions[i].agent # Nobody => w.completions[i].agent = v.completions[i].agent
    /\ \A i \in Capabilities :
          LET k == v.capabilities[i]
              l == w.capabilities[i]
          IN  k.registered => /\ l.registered /\ l.creator = k.creator
                              /\ k.certified => l.certified
                              /\ l.live => k.live

LEMMA GenesisFacts ==
  /\ Genesis \in World /\ Sound(Genesis)
  /\ \A a \in Agents : Genesis.lastActivity[a] = 0
BY DEF Genesis, World, Sound, Completion, Capability

LEMMA AfterType ==
  ASSUME NEW w \in World, NEW e \in Log, NEW ts \in Nat
  PROVE  StateAfter(w, e, ts) \in World
<1>1. CASE e.kind \in CompletionKinds
  <2> DEFINE T == [w.completions EXCEPT ![e.id] = CompletionAfter(w.completions[e.id], e)]
             L == IF e.kind \in {"SelfAttested", "ReceiptAttested"}
                  THEN [w.lastActivity EXCEPT ![e.agent] = ts] ELSE w.lastActivity
  <2>1. w.completions \in [Completions -> Completion] /\ w.lastActivity \in [Agents -> Nat]
    BY DEF World
  <2>2. e.id \in Completions /\ w.completions[e.id] \in Completion
    BY <1>1, <2>1, LogFields
  <2>3. CompletionAfter(w.completions[e.id], e) \in Completion
    BY <1>1, <2>2, EntryTypes
  <2>4. T \in [Completions -> Completion]
    BY <2>1, <2>3
  <2>5. L \in [Agents -> Nat]
    BY <2>1
  <2>6. StateAfter(w, e, ts) = [w EXCEPT !.completions = T, !.lastActivity = L]
    BY <1>1, AfterCompletionLog
  <2> HIDE DEF T, L
  <2> QED BY <2>4, <2>5, <2>6 DEF World
<1>2. CASE e.kind \in CapabilityKinds
  <2> DEFINE T == [w.capabilities EXCEPT ![e.id] = CapabilityAfter(w.capabilities[e.id], e)]
  <2>1. w.capabilities \in [Capabilities -> Capability]
    BY DEF World
  <2>2. e.id \in Capabilities /\ w.capabilities[e.id] \in Capability
    BY <1>2, <2>1, LogFields
  <2>3. CapabilityAfter(w.capabilities[e.id], e) \in Capability
    BY <1>2, <2>2, EntryTypes
  <2>4. T \in [Capabilities -> Capability]
    BY <2>1, <2>3
  <2>5. StateAfter(w, e, ts) = [w EXCEPT !.capabilities = T]
    BY <1>2, AfterCapabilityLog
  <2> HIDE DEF T
  <2> QED BY <2>4, <2>5 DEF World
<1>3. CASE e.kind \notin CompletionKinds /\ e.kind \notin CapabilityKinds
  <2>1. e.kind = "AgentRegistered" => e.agent \in Agents /\ e.cid \in Profiles
    BY LogFields
  <2>2. CASE e.kind = "AgentRegistered"
    <3> DEFINE T == [w.agentMetadataCID EXCEPT ![e.agent] = e.cid]
    <3>1. T \in [Agents -> Profiles \cup {Nobody}]
      BY <2>1, <2>2 DEF World
    <3>2. StateAfter(w, e, ts) = [w EXCEPT !.agentMetadataCID = T]
      BY <1>3, <2>2, AfterOtherLog
    <3> HIDE DEF T
    <3> QED BY <3>1, <3>2 DEF World
  <2>3. CASE e.kind # "AgentRegistered"
    BY <1>3, <2>3, AfterOtherLog
  <2> QED BY <2>2, <2>3
<1> QED BY <1>1, <1>2, <1>3

\* The tables of the state after a log, one by one.
LEMMA AfterTables ==
  ASSUME NEW w \in World, NEW e \in Log, NEW ts \in Nat
  PROVE  LET v == StateAfter(w, e, ts) IN
         /\ \A i \in Completions :
               v.completions[i] = IF e.kind \in CompletionKinds /\ e.id = i
                                  THEN CompletionAfter(w.completions[i], e)
                                  ELSE w.completions[i]
         /\ \A i \in Capabilities :
               v.capabilities[i] = IF e.kind \in CapabilityKinds /\ e.id = i
                                   THEN CapabilityAfter(w.capabilities[i], e)
                                   ELSE w.capabilities[i]
         /\ \A a \in Agents :
               /\ v.lastActivity[a] =
                    IF e.kind \in {"SelfAttested", "ReceiptAttested"} /\ e.agent = a
                    THEN ts ELSE w.lastActivity[a]
               /\ v.agentMetadataCID[a] =
                    IF e.kind = "AgentRegistered" /\ e.agent = a
                    THEN e.cid ELSE w.agentMetadataCID[a]
<1> DEFINE v == StateAfter(w, e, ts)
<1>1. CASE e.kind \in CompletionKinds
  <2> DEFINE T == [w.completions EXCEPT ![e.id] = CompletionAfter(w.completions[e.id], e)]
             L == IF e.kind \in {"SelfAttested", "ReceiptAttested"}
                  THEN [w.lastActivity EXCEPT ![e.agent] = ts] ELSE w.lastActivity
  <2>1. e.kind \notin CapabilityKinds /\ e.kind # "AgentRegistered"
    BY <1>1 DEF CompletionKinds, CapabilityKinds
  <2>2. w.completions \in [Completions -> Completion] /\ w.lastActivity \in [Agents -> Nat]
    BY DEF World
  <2>3. v = [w EXCEPT !.completions = T, !.lastActivity = L]
    BY <1>1, AfterCompletionLog
  <2>4. \A i \in Completions :
          T[i] = IF e.id = i THEN CompletionAfter(w.completions[i], e) ELSE w.completions[i]
    BY <2>2
  <2>5. \A a \in Agents :
          L[a] = IF e.kind \in {"SelfAttested", "ReceiptAttested"} /\ e.agent = a
                 THEN ts ELSE w.lastActivity[a]
    BY <2>2
  <2> HIDE DEF T, L, v
  <2>6. v.completions = T /\ v.lastActivity = L /\ v.capabilities = w.capabilities
        /\ v.agentMetadataCID = w.agentMetadataCID
    BY <2>3 DEF World
  <2> QED BY <1>1, <2>1, <2>4, <2>5, <2>6 DEF v
<1>2. CASE e.kind \in CapabilityKinds
  <2> DEFINE T == [w.capabilities EXCEPT ![e.id] = CapabilityAfter(w.capabilities[e.id], e)]
  <2>1. e.kind \notin CompletionKinds
        /\ e.kind \notin {"AgentRegistered", "SelfAttested", "ReceiptAttested"}
    BY <1>2 DEF CompletionKinds, CapabilityKinds
  <2>2. w.capabilities \in [Capabilities -> Capability]
    BY DEF World
  <2>3. v = [w EXCEPT !.capabilities = T]
    BY <1>2, AfterCapabilityLog
  <2>4. \A i \in Capabilities :
          T[i] = IF e.id = i THEN CapabilityAfter(w.capabilities[i], e) ELSE w.capabilities[i]
    BY <2>2
  <2> HIDE DEF T, v
  <2>5. v.completions = w.completions /\ v.lastActivity = w.lastActivity /\ v.capabilities = T
        /\ v.agentMetadataCID = w.agentMetadataCID
    BY <2>3 DEF World
  <2> QED BY <1>2, <2>1, <2>4, <2>5 DEF v
<1>3. CASE e.kind \notin CompletionKinds /\ e.kind \notin CapabilityKinds
  <2>1. e.kind \notin {"SelfAttested", "ReceiptAttested"}
    BY <1>3 DEF CompletionKinds
  <2>2. CASE e.kind = "AgentRegistered"
    <3> DEFINE T == [w.agentMetadataCID EXCEPT ![e.agent] = e.cid]
    <3>1. w.agentMetadataCID \in [Agents -> Profiles \cup {Nobody}]
      BY DEF World
    <3>2. v = [w EXCEPT !.agentMetadataCID = T]
      BY <1>3, <2>2, AfterOtherLog
    <3>3. \A a \in Agents : T[a] = IF e.agent = a THEN e.cid ELSE w.agentMetadataCID[a]
      BY <3>1
    <3> HIDE DEF T, v
    <3>4. v.completions = w.completions /\ v.lastActivity = w.lastActivity
          /\ v.capabilities = w.capabilities /\ v.agentMetadataCID = T
      BY <3>2 DEF World
    <3> QED BY <1>3, <2>1, <2>2, <3>3, <3>4 DEF v
  <2>3. CASE e.kind # "AgentRegistered"
    BY <1>3, <2>1, <2>3, AfterOtherLog
  <2> QED BY <2>2, <2>3
<1> QED BY <1>1, <1>2, <1>3

LEMMA AfterSound ==
  ASSUME NEW w \in World, NEW e \in Log, NEW ts \in Nat, Emits(w, e), Sound(w)
  PROVE  Sound(StateAfter(w, e, ts)) /\ Later(w, StateAfter(w, e, ts))
<1> DEFINE v == StateAfter(w, e, ts)
<1>1. ASSUME NEW i \in Completions
      PROVE  LET c == w.completions[i]
                 d == v.completions[i]
             IN  /\ d.pending \/ d.disputed => d.challenged
                 /\ ~(d.pending /\ d.disputed)
                 /\ d.agent = Nobody => d.counterparty = Nobody /\ ~d.challenged
                 /\ c.agent # Nobody => d.agent = c.agent
  <2> DEFINE c == w.completions[i]
  <2>0. c \in Completion
    BY DEF World
  <2>1. CASE e.kind \in CompletionKinds /\ e.id = i
    <3>1. v.completions[i] = CompletionAfter(c, e)
      BY <2>1, AfterTables
    <3>2. /\ e.kind = "SelfAttested" => c.agent = Nobody /\ e.agent \in Agents
          /\ e.kind # "SelfAttested" => c.agent # Nobody
          /\ e.kind = "ReceiptAttested" => ~c.disputed /\ ~c.pending
          /\ e.kind = "ChallengeSubmitted" => ~c.challenged
          /\ e.kind \in {"ChallengeResolved", "ChallengeCancelled"} => c.pending
      BY <2>1, LogFields DEF Emits
    <3>3. /\ c.pending \/ c.disputed => c.challenged
          /\ ~(c.pending /\ c.disputed)
          /\ c.agent = Nobody => c.counterparty = Nobody /\ ~c.challenged
      BY DEF Sound
    <3>4. e.agent \in Agents => e.agent # Nobody
      BY EventLogAssumption
    <3> QED BY <2>0, <2>1, <3>1, <3>2, <3>3, <3>4 DEF CompletionAfter, Completion, CompletionKinds
  <2>2. CASE ~(e.kind \in CompletionKinds /\ e.id = i)
    <3>1. v.completions[i] = c
      BY <2>2, AfterTables
    <3> QED BY <3>1 DEF Sound
  <2> QED BY <2>1, <2>2
<1>2. ASSUME NEW i \in Capabilities
      PROVE  LET k == w.capabilities[i]
                 l == v.capabilities[i]
             IN  /\ ~l.registered => ~l.live /\ ~l.certified
                 /\ k.registered => /\ l.registered /\ l.creator = k.creator
                                    /\ k.certified => l.certified
                                    /\ l.live => k.live
  <2> DEFINE k == w.capabilities[i]
  <2>0. k \in Capability
    BY DEF World
  <2>1. CASE e.kind \in CapabilityKinds /\ e.id = i
    <3>1. v.capabilities[i] = CapabilityAfter(k, e)
      BY <2>1, AfterTables
    <3>2. /\ e.kind = "CapabilityRegistered" => ~k.registered
          /\ e.kind # "CapabilityRegistered" => k.registered /\ k.live
      BY <2>1 DEF Emits
    <3>3. ~k.registered => ~k.live /\ ~k.certified
      BY DEF Sound
    <3> QED BY <2>0, <2>1, <3>1, <3>2, <3>3 DEF CapabilityAfter, Capability, CapabilityKinds
  <2>2. CASE ~(e.kind \in CapabilityKinds /\ e.id = i)
    <3>1. v.capabilities[i] = k
      BY <2>2, AfterTables
    <3> QED BY <3>1 DEF Sound
  <2> QED BY <2>1, <2>2
<1> HIDE DEF v
<1>3. Sound(v)
  BY <1>1, <1>2 DEF Sound
<1>4. Later(w, v)
  BY <1>1, <1>2 DEF Later
<1> QED BY <1>3, <1>4 DEF v

LEMMA LaterIsOrder ==
  /\ \A v : Later(v, v)
  /\ \A u, v, w : Later(u, v) /\ Later(v, w) => Later(u, w)
BY DEF Later

-----------------------------------------------------------------------------
(* The chain *)

\* What a chain is, block by block: every log is one that the contracts emit in the
\* state before it, and no hash is used twice.
ChainOK ==
    /\ \A n \in 1..Len(chain) :
          /\ chain[n].number = n /\ chain[n].hash <= mined
          /\ Emits(StateAt(chain, n - 1), chain[n].log)
          /\ chain[n].state = StateAfter(StateAt(chain, n - 1), chain[n].log, n)
    /\ \A m, n \in 1..Len(chain) : chain[m].hash = chain[n].hash => m = n
    /\ \A n \in 0..Len(chain) :
          /\ Sound(StateAt(chain, n))
          /\ \A a \in Agents : StateAt(chain, n).lastActivity[a] <= n
    /\ \A n \in 0..Len(chain) : \A m \in 0..n :
          Later(StateAt(chain, m), StateAt(chain, n))

\* No block had CONFIRMATIONS on top but the settled ones, and these are all there
\* unless the chain was reorganised below them.
DepthOK ==
    /\ Len(chain) - CONFIRMATIONS <= settled
    /\ "reorg" \notin scenario.faults => settled <= Len(chain)

LEMMA BlockFacts ==
  ASSUME TypeOK
  PROVE  /\ chain \in Seq(Block) /\ Len(chain) \in Nat
         /\ \A n \in 1..Len(chain) :
               /\ chain[n] \in Block /\ chain[n].number \in Nat /\ chain[n].hash \in Nat \ {0}
               /\ chain[n].log \in Log /\ chain[n].state \in World
         /\ \A n \in 0..Len(chain) : StateAt(chain, n) \in World
<1>1. chain \in Seq(Block)
  BY DEF TypeOK
<1>2. ASSUME NEW n \in 1..Len(chain)
      PROVE  /\ chain[n] \in Block /\ chain[n].number \in Nat /\ chain[n].hash \in Nat \ {0}
             /\ chain[n].log \in Log /\ chain[n].state \in World
  <2>1. chain[n] \in Block
    BY <1>1
  <2> QED BY <2>1 DEF Block
<1>3. ASSUME NEW n \in 0..Len(chain)
      PROVE  StateAt(chain, n) \in World
  <2>1. CASE n = 0
    BY <2>1, GenesisFacts DEF StateAt
  <2>2. CASE n # 0
    BY <1>1, <1>2, <2>2 DEF StateAt
  <2> QED BY <2>1, <2>2
<1> QED BY <1>1, <1>2, <1>3

LEMMA MineStep ==
  ASSUME TypeOK, ChainOK, DepthOK, Mine
  PROVE  /\ Len(chain') = Len(chain) + 1 /\ chain' \in Seq(Block)
         /\ \A n \in 1..Len(chain) : chain'[n] = chain[n]
         /\ \A n \in 0..Len(chain) : StateAt(chain', n) = StateAt(chain, n)
         /\ ChainOK' /\ DepthOK'
<1> DEFINE len == Len(chain)
           top == StateAt(chain, len)
<1>1. chain \in Seq(Block) /\ len \in Nat /\ mined \in Nat
  BY DEF TypeOK
<1>2. top \in World
  BY <1>1, BlockFacts
<1>3. PICK e \in LogsIn(top, scenario.kinds) : chain' = Extended(chain, mined + 1, e)
  BY DEF Mine
<1>4. e \in Log /\ Emits(top, e)
  BY <1>2, LogFacts
<1> DEFINE b == [number |-> len + 1, hash |-> mined + 1, log |-> e,
                 state |-> StateAfter(top, e, len + 1)]
<1>5. StateAfter(top, e, len + 1) \in World
  BY <1>1, <1>2, <1>4, AfterType
<1>6. b \in Block
  BY <1>1, <1>4, <1>5 DEF Block
<1>7. chain' = Append(chain, b)
  BY <1>1, <1>3 DEF Extended
<1>8. b.number = len + 1 /\ b.hash = mined + 1 /\ b.log = e /\ b.state = StateAfter(top, e, len + 1)
  OBVIOUS
<1> HIDE DEF b
<1>9. Len(chain') = len + 1 /\ chain' \in Seq(Block) /\ chain'[len + 1] = b
      /\ \A n \in 1..len : chain'[n] = chain[n]
  BY <1>1, <1>6, <1>7
<1>10. \A n \in 0..len : StateAt(chain', n) = StateAt(chain, n)
  BY <1>1, <1>9 DEF StateAt
<1>11. StateAt(chain', len + 1) = StateAfter(top, e, len + 1)
  BY <1>1, <1>8, <1>9 DEF StateAt
<1>12. Sound(top) /\ Later(top, StateAfter(top, e, len + 1)) /\ Sound(StateAfter(top, e, len + 1))
  BY <1>1, <1>2, <1>4, AfterSound DEF ChainOK
<1>13. mined' = mined + 1
  BY DEF Mine
<1>14. \A n \in 1..len + 1 :
          /\ chain'[n].number = n /\ chain'[n].hash <= mined'
          /\ Emits(StateAt(chain', n - 1), chain'[n].log)
          /\ chain'[n].state = StateAfter(StateAt(chain', n - 1), chain'[n].log, n)
  <2>1. ASSUME NEW n \in 1..len
        PROVE  /\ chain'[n].number = n /\ chain'[n].hash <= mined'
               /\ Emits(StateAt(chain', n - 1), chain'[n].log)
               /\ chain'[n].state = StateAfter(StateAt(chain', n - 1), chain'[n].log, n)
    <3>1. chain'[n] = chain[n] /\ StateAt(chain', n - 1) = StateAt(chain, n - 1)
      BY <1>1, <1>9, <1>10
    <3>2. chain[n] \in Block
      BY <1>1
    <3> QED BY <1>1, <1>13, <3>1, <3>2 DEF ChainOK, Block
  <2>2. /\ b.number = len + 1 /\ b.hash <= mined'
        /\ Emits(StateAt(chain', len + 1 - 1), b.log)
        /\ b.state = StateAfter(StateAt(chain', len + 1 - 1), b.log, len + 1)
    BY <1>1, <1>4, <1>8, <1>10, <1>13
  <2> QED BY <1>1, <1>9, <2>1, <2>2
<1>15. \A m, n \in 1..len + 1 : chain'[m].hash = chain'[n].hash => m = n
  <2>1. \A n \in 1..len : chain[n].hash <= mined /\ chain[n].hash \in Nat
    BY BlockFacts DEF ChainOK
  <2> QED BY <1>1, <1>8, <1>9, <2>1 DEF ChainOK
<1>16. \A n \in 0..len + 1 : /\ Sound(StateAt(chain', n))
                             /\ \A a \in Agents : StateAt(chain', n).lastActivity[a] <= n
  <2>1. \A a \in Agents : top.lastActivity[a] <= len /\ top.lastActivity[a] \in Nat
    BY <1>1, <1>2 DEF ChainOK, World
  <2>2. ASSUME NEW a \in Agents
        PROVE  StateAfter(top, e, len + 1).lastActivity[a] <= len + 1
    <3>1. StateAfter(top, e, len + 1).lastActivity[a] \in {len + 1, top.lastActivity[a]}
      <4>1. len + 1 \in Nat
        BY <1>1
      <4> HIDE DEF len, top
      <4> QED BY <1>2, <1>4, <4>1, AfterTables
    <3> QED BY <1>1, <2>1, <3>1
  <2>3. \A n \in 0..len : /\ Sound(StateAt(chain', n))
                         /\ \A a \in Agents : StateAt(chain', n).lastActivity[a] <= n
    BY <1>10 DEF ChainOK
  <2>4. \A n \in 0..len + 1 : n \in 0..len \/ n = len + 1
    BY <1>1
  <2> QED BY <1>11, <1>12, <2>2, <2>3, <2>4
<1>17. \A n \in 0..len + 1 : \A m \in 0..n : Later(StateAt(chain', m), StateAt(chain', n))
  <2>1. \A m \in 0..len : Later(StateAt(chain', m), StateAt(chain', len + 1))
    <3>1. \A m \in 0..len : Later(StateAt(chain, m), top)
      BY <1>1 DEF ChainOK
    <3> QED BY <1>10, <1>11, <1>12, <3>1, LaterIsOrder
  <2>2. \A n \in 0..len : \A m \in 0..n : Later(StateAt(chain', m), StateAt(chain', n))
    BY <1>1, <1>10 DEF ChainOK
  <2>3. Later(StateAt(chain', len + 1), StateAt(chain', len + 1))
    BY LaterIsOrder
  <2> QED BY <1>1, <2>1, <2>2, <2>3
<1>18. ChainOK'
  BY <1>9, <1>14, <1>15, <1>16, <1>17 DEF ChainOK
<1>19. DepthOK'
  <2>1. settled' = (IF len + 1 - CONFIRMATIONS > settled THEN len + 1 - CONFIRMATIONS ELSE settled)
        /\ scenario' = scenario /\ settled \in Nat
    BY DEF Mine, TypeOK
  <2> QED BY <1>1, <1>9, <2>1, IndexerAssumption DEF DepthOK
<1> QED BY <1>9, <1>10, <1>18, <1>19

LEMMA ReorganiseStep ==
  ASSUME TypeOK, ChainOK, DepthOK, NEW keep \in 0..MaxMined, Reorganise(keep)
  PROVE  /\ keep < Len(chain) /\ Len(chain') = keep /\ chain' \in Seq(Block)
         /\ \A n \in 1..keep : chain'[n] = chain[n]
         /\ \A n \in 0..keep : StateAt(chain', n) = StateAt(chain, n)
         /\ \/ keep >= settled
            \/ "reorg" \in scenario.faults /\ \A p \in Polls : polls[p].pc = "idle"
         /\ ChainOK' /\ DepthOK'
<1>1. chain \in Seq(Block) /\ Len(chain) \in Nat /\ keep \in Nat
  BY DEF TypeOK
<1>2. keep < Len(chain) /\ chain' = SubSeq(chain, 1, keep) /\ mined' = mined /\ scenario' = scenario
      /\ settled' = settled
  BY DEF Reorganise
<1>3. Len(chain') = keep /\ chain' \in Seq(Block) /\ \A n \in 1..keep : chain'[n] = chain[n]
  <2>1. PICK part : part = SubSeq(chain, 1, keep)
    OBVIOUS
  <2>2. part \in Seq(Block) /\ Len(part) = keep /\ \A i \in 1..keep : part[i] = chain[i]
    BY <1>1, <1>2, <2>1, PartOfSequence
  <2> QED BY <1>2, <2>1, <2>2
<1>4. \A n \in 0..keep : StateAt(chain', n) = StateAt(chain, n)
  BY <1>1, <1>3 DEF StateAt
<1>5. ChainOK'
  <2>1. ASSUME NEW n \in 1..keep
        PROVE  /\ chain'[n].number = n /\ chain'[n].hash <= mined
               /\ Emits(StateAt(chain', n - 1), chain'[n].log)
               /\ chain'[n].state = StateAfter(StateAt(chain', n - 1), chain'[n].log, n)
    <3>1. n \in 1..Len(chain) /\ n - 1 \in 0..keep
      BY <1>1, <1>2
    <3>2. chain'[n] = chain[n] /\ StateAt(chain', n - 1) = StateAt(chain, n - 1)
      BY <1>3, <1>4, <3>1
    <3> QED BY <3>1, <3>2 DEF ChainOK
  <2>2. \A m, n \in 1..keep : chain'[m].hash = chain'[n].hash => m = n
    <3>1. 1..keep \subseteq 1..Len(chain)
      BY <1>1, <1>2
    <3> QED BY <1>3, <3>1 DEF ChainOK
  <2>3. \A n \in 0..keep : /\ Sound(StateAt(chain', n))
                           /\ \A a \in Agents : StateAt(chain', n).lastActivity[a] <= n
    <3>1. 0..keep \subseteq 0..Len(chain)
      BY <1>1, <1>2
    <3> QED BY <1>4, <3>1 DEF ChainOK
  <2>4. \A n \in 0..keep : \A m \in 0..n : Later(StateAt(chain', m), StateAt(chain', n))
    <3>1. \A n \in 0..keep : n \in 0..Len(chain) /\ 0..n \subseteq 0..keep
      BY <1>1, <1>2
    <3> QED BY <1>4, <3>1 DEF ChainOK
  <2> QED BY <1>2, <1>3, <2>1, <2>2, <2>3, <2>4 DEF ChainOK
<1>6. \/ keep >= settled
      \/ "reorg" \in scenario.faults /\ \A p \in Polls : polls[p].pc = "idle"
  BY DEF Reorganise
<1>7. DepthOK'
  BY <1>1, <1>2, <1>3, <1>6, IndexerAssumption DEF DepthOK, TypeOK
<1> QED BY <1>2, <1>3, <1>4, <1>5, <1>6, <1>7

-----------------------------------------------------------------------------
(* Writes to the database *)

Delta == [completions : Nat, confirmed : Int, disputes : Nat, lastActivity : Nat]

Bumped(c, delta) ==
    [completions |-> c.completions + delta.completions,
     confirmed |-> AtLeastZero(c.confirmed + delta.confirmed),
     disputes |-> c.disputes + delta.disputes,
     lastActivity |-> IF delta.lastActivity > c.lastActivity THEN delta.lastActivity
                                                             ELSE c.lastActivity]

LEMMA EmptyDbType == EmptyDb \in Database
BY DEF EmptyDb, Database, Counters, Receipt, IndexedCapability

Completed(n) == [NoDelta EXCEPT !.completions = 1, !.lastActivity = n]
Confirmed(n) == [NoDelta EXCEPT !.confirmed = 1, !.lastActivity = n]
Revoked == [NoDelta EXCEPT !.confirmed = -1]
Disputed == [NoDelta EXCEPT !.disputes = 1]

LEMMA Deltas ==
  /\ \A n \in Nat : Completed(n) \in Delta /\ Confirmed(n) \in Delta
  /\ Revoked \in Delta /\ Disputed \in Delta
<1>1. NoDelta \in Delta
  BY DEF NoDelta, Delta
<1>2. ASSUME NEW n \in Nat
      PROVE  Completed(n) \in Delta /\ Confirmed(n) \in Delta
  <2>1. \A m \in Delta : [m EXCEPT !.completions = 1, !.lastActivity = n] \in Delta
    BY DEF Delta
  <2>2. \A m \in Delta : [m EXCEPT !.confirmed = 1, !.lastActivity = n] \in Delta
    <3>1. 1 \in Int
      OBVIOUS
    <3> QED BY <3>1 DEF Delta
  <2> QED BY <1>1, <2>1, <2>2, Zenon DEF Completed, Confirmed
<1>3. -1 \in Int
  OBVIOUS
<1>4. Revoked \in Delta
  BY <1>1, <1>3 DEF Delta, Revoked
<1>5. Disputed \in Delta
  BY <1>1 DEF Delta, Disputed
<1> QED BY <1>1, <1>2, <1>4, <1>5

BumpedScores(scores, a, delta) == [scores EXCEPT ![a] = Bumped(scores[a], delta)]

LEMMA BumpAgent ==
  ASSUME NEW d \in Database, NEW a \in Agents, NEW delta \in Delta
  PROVE  /\ bumpAgent(d, a, delta) = [d EXCEPT !.scores = BumpedScores(d.scores, a, delta)]
         /\ bumpAgent(d, a, delta) \in Database
<1> DEFINE T == [d.scores EXCEPT ![a] = Bumped(d.scores[a], delta)]
<1>1. d.scores \in [Agents -> Counters]
  BY DEF Database
<1>2. bumpAgent(d, a, delta) = [d EXCEPT !.scores = T]
  BY DEF bumpAgent, Bumped, Database
<1>3. d.scores[a] \in Counters
  BY <1>1
<1>4. Bumped(d.scores[a], delta) \in Counters
  BY <1>3 DEF Bumped, Counters, Delta, AtLeastZero
<1>5. T \in [Agents -> Counters]
  BY <1>1, <1>4
<1> HIDE DEF T
<1>6. [d EXCEPT !.scores = T] \in Database
  BY <1>5 DEF Database
<1> QED BY <1>2, <1>6 DEF T, BumpedScores

DistinctAfter(n, cur, next) ==
    CASE next <= 0 /\ cur > 0 -> AtLeastZero(n - 1)
      [] next > 0 /\ cur = 0 -> n + 1
      [] OTHER -> n

ConfirmationsAfter(d, a, r, delta) ==
    [d.confirmations EXCEPT ![a] =
        [d.confirmations[a] EXCEPT ![r] = AtLeastZero(d.confirmations[a][r] + delta)]]

DistinctsAfter(d, a, r, delta) ==
    LET cur == d.confirmations[a][r]
    IN  [d.distinct EXCEPT ![a] = DistinctAfter(d.distinct[a], cur, cur + delta)]

LEMMA BumpCounterparty ==
  ASSUME NEW d \in Database, NEW a \in Agents, NEW r \in Parties, NEW delta \in Int
  PROVE  /\ bumpCounterparty(d, a, r, delta) =
               [d EXCEPT !.confirmations = ConfirmationsAfter(d, a, r, delta),
                         !.distinct = DistinctsAfter(d, a, r, delta)]
         /\ bumpCounterparty(d, a, r, delta) \in Database
<1> DEFINE cur == d.confirmations[a][r]
           row == [d.confirmations[a] EXCEPT ![r] = AtLeastZero(cur + delta)]
           T == [d.confirmations EXCEPT ![a] = row]
           D == [d.distinct EXCEPT ![a] = DistinctAfter(d.distinct[a], cur, cur + delta)]
<1>1. d.confirmations \in [Agents -> [Parties -> Nat]] /\ d.distinct \in [Agents -> Nat]
  BY DEF Database
<1>2. bumpCounterparty(d, a, r, delta) = [d EXCEPT !.confirmations = T, !.distinct = D]
  BY <1>1 DEF bumpCounterparty, DistinctAfter, Database
<1>3. cur \in Nat /\ d.distinct[a] \in Nat
  BY <1>1
<1>4. T \in [Agents -> [Parties -> Nat]]
  <2>1. row \in [Parties -> Nat]
    BY <1>1, <1>3 DEF AtLeastZero
  <2> HIDE DEF row
  <2> QED BY <1>1, <2>1
<1>5. D \in [Agents -> Nat]
  BY <1>1, <1>3 DEF DistinctAfter, AtLeastZero
<1>6. T = ConfirmationsAfter(d, a, r, delta) /\ D = DistinctsAfter(d, a, r, delta)
  BY DEF ConfirmationsAfter, DistinctsAfter
<1> HIDE DEF T, D
<1>7. [d EXCEPT !.confirmations = T, !.distinct = D] \in Database
  BY <1>4, <1>5 DEF Database
<1> QED BY <1>2, <1>6, <1>7

\* An alert is only recorded if there is no copy of it.
LEMMA RecordAlert ==
  ASSUME NEW d \in Database, NEW b \in Block, b.log.kind \in AlertKinds
  PROVE  /\ recordAlert(d, b) = [d EXCEPT !.alerts = recordAlert(d, b).alerts]
         /\ recordAlert(d, b) \in Database
<1>1. d.alerts \in SUBSET Row
  BY DEF Database
<1> DEFINE copies == {row \in d.alerts :
                         row.kind = b.log.kind /\ row.block = b.number /\ row.tx = b.hash}
           A == d.alerts \cup {Alert(d, b)}
<1>2. CASE copies = {}
  <2>1. Cardinality(copies) = 0
    BY <1>2, FS_EmptySet
  <2>2. Alert(d, b) = [id |-> 1, kind |-> b.log.kind, block |-> b.number, tx |-> b.hash]
    BY <2>1 DEF Alert
  <2>3. Alert(d, b) \in Row
    BY <2>2 DEF Row, Block
  <2>4. A \in SUBSET Row
    BY <1>1, <2>3
  <2>5. recordAlert(d, b) = d \/ recordAlert(d, b) = [d EXCEPT !.alerts = A]
    BY DEF recordAlert
  <2> HIDE DEF A
  <2> QED BY <2>4, <2>5 DEF Database
<1>3. CASE copies # {}
  <2>1. PICK row \in d.alerts :
            row.kind = b.log.kind /\ row.block = b.number /\ row.tx = b.hash
    BY <1>3
  <2>2. recordAlert(d, b) = d
    BY <2>1 DEF recordAlert, SameAlert, Alert
  <2> QED BY <2>2 DEF Database
<1> QED BY <1>2, <1>3

LEMMA DeleteReceipt ==
  ASSUME NEW d \in Database, NEW i \in Completions
  PROVE  LET T == [d.receipts EXCEPT ![i] = [agent |-> Nobody, counterparty |-> Nobody]]
         IN  /\ deleteReceiptIndex(d, i) = [d EXCEPT !.receipts = T]
             /\ T \in [Completions -> Receipt]
             /\ deleteReceiptIndex(d, i) \in Database
<1> DEFINE T == [d.receipts EXCEPT ![i] = [agent |-> Nobody, counterparty |-> Nobody]]
<1>1. T \in [Completions -> Receipt]
  BY DEF Database, Receipt
<1>2. deleteReceiptIndex(d, i) = [d EXCEPT !.receipts = T]
  BY DEF deleteReceiptIndex, Database
<1> HIDE DEF T
<1>3. [d EXCEPT !.receipts = T] \in Database
  BY <1>1 DEF Database
<1> QED BY <1>1, <1>2, <1>3 DEF T

\* What a write to the tables leaves as it was.
KeepsMarks(d, e) ==
    /\ e.indexedLogs = d.indexedLogs /\ e.forgotten = d.forgotten
    /\ e.lastBlock = d.lastBlock /\ e.lastHash = d.lastHash

KeepsAlerts(d, e) == e.alerts = d.alerts

\* Without a receipt there is nothing to take back.
RevokedBy(d, e, i, a) ==
    LET r == d.receipts[i].counterparty
        found == a # Nobody /\ r # Nobody
    IN  /\ e.receipts = [d.receipts EXCEPT ![i] = [agent |-> Nobody, counterparty |-> Nobody]]
        /\ ~found => e.scores = d.scores /\ e.confirmations = d.confirmations
                     /\ e.distinct = d.distinct
        /\ found => /\ a \in Agents /\ r \in Parties
                    /\ e.scores = BumpedScores(d.scores, a, Revoked)
                    /\ e.confirmations = ConfirmationsAfter(d, a, r, -1)
                    /\ e.distinct = DistinctsAfter(d, a, r, -1)

\* Taking a receipt back.
LEMMA DroppedReceipt ==
  ASSUME NEW d \in Database, NEW i \in Completions, NEW a \in Agents \cup {Nobody}
  PROVE  LET e == DropReceipt(d, i, a)
         IN  /\ e \in Database /\ KeepsMarks(d, e) /\ KeepsAlerts(d, e)
             /\ e.completions = d.completions /\ e.capabilities = d.capabilities
             /\ e.identity = d.identity
             /\ RevokedBy(d, e, i, a)
<1> DEFINE r == d.receipts[i].counterparty
           none == [agent |-> Nobody, counterparty |-> Nobody]
<1>1. d.receipts[i] \in Receipt
  BY DEF Database
<1>2. r \in Parties \cup {Nobody}
  BY <1>1 DEF Receipt
<1>3. CASE a = Nobody \/ r = Nobody
  <2>1. DropReceipt(d, i, a) = deleteReceiptIndex(d, i)
    BY <1>3 DEF DropReceipt
  <2> DEFINE T == [d.receipts EXCEPT ![i] = none]
  <2>2. deleteReceiptIndex(d, i) = [d EXCEPT !.receipts = T] /\ T \in [Completions -> Receipt]
        /\ deleteReceiptIndex(d, i) \in Database
    BY DeleteReceipt
  <2> DEFINE e == DropReceipt(d, i, a)
  <2>3. T = [d.receipts EXCEPT ![i] = none]
    OBVIOUS
  <2>4. e = [d EXCEPT !.receipts = T] /\ e \in Database
    BY <2>1, <2>2
  <2> HIDE DEF T, e
  <2>5. KeepsMarks(d, e) /\ KeepsAlerts(d, e)
    BY <2>4 DEF KeepsMarks, KeepsAlerts, Database
  <2>6. /\ e.completions = d.completions /\ e.capabilities = d.capabilities
        /\ e.identity = d.identity /\ e.receipts = T
        /\ e.scores = d.scores /\ e.confirmations = d.confirmations /\ e.distinct = d.distinct
    BY <2>4 DEF Database
  <2>7. RevokedBy(d, e, i, a)
    BY <1>3, <2>3, <2>6 DEF RevokedBy
  <2> QED BY <2>4, <2>5, <2>6, <2>7 DEF e
<1>4. CASE a # Nobody /\ r # Nobody
  <2>1. a \in Agents /\ r \in Parties
    BY <1>2, <1>4
  <2> DEFINE S == BumpedScores(d.scores, a, Revoked)
             e1 == bumpAgent(d, a, Revoked)
             e2 == bumpCounterparty(e1, a, r, -1)
             e == deleteReceiptIndex(e2, i)
  <2>2. DropReceipt(d, i, a) = e
    BY <1>4 DEF DropReceipt, Revoked
  <2>3. Revoked \in Delta
    BY Deltas
  <2>4. e1 = [d EXCEPT !.scores = S] /\ e1 \in Database
    BY <2>1, <2>3, BumpAgent
  <2> HIDE DEF S, e1
  <2>5. /\ e1.scores = S /\ e1.confirmations = d.confirmations /\ e1.distinct = d.distinct
        /\ e1.receipts = d.receipts /\ e1.completions = d.completions
        /\ e1.capabilities = d.capabilities /\ e1.identity = d.identity
        /\ KeepsMarks(d, e1) /\ KeepsAlerts(d, e1)
    BY <2>4 DEF Database, KeepsMarks, KeepsAlerts
  <2> DEFINE T == ConfirmationsAfter(d, a, r, -1)
             D == DistinctsAfter(d, a, r, -1)
  <2>6. e2 = [e1 EXCEPT !.confirmations = T, !.distinct = D] /\ e2 \in Database
    <3>1. -1 \in Int
      OBVIOUS
    <3>2. /\ e2 = [e1 EXCEPT !.confirmations = ConfirmationsAfter(e1, a, r, -1),
                             !.distinct = DistinctsAfter(e1, a, r, -1)]
          /\ e2 \in Database
      <4>1. e1 \in Database
        BY <2>4
      <4> QED BY <2>1, <3>1, <4>1, BumpCounterparty
    <3>3. ConfirmationsAfter(e1, a, r, -1) = T /\ DistinctsAfter(e1, a, r, -1) = D
      BY <2>5 DEF ConfirmationsAfter, DistinctsAfter
    <3> QED BY <3>2, <3>3
  <2> HIDE DEF T, D, e2
  <2>8. /\ e2.scores = S /\ e2.confirmations = T /\ e2.distinct = D
        /\ e2.receipts = d.receipts /\ e2.completions = d.completions
        /\ e2.capabilities = d.capabilities /\ e2.identity = d.identity
        /\ KeepsMarks(d, e2) /\ KeepsAlerts(d, e2)
    BY <2>4, <2>5, <2>6 DEF Database, KeepsMarks, KeepsAlerts
  <2> DEFINE R == [d.receipts EXCEPT ![i] = none]
  <2>9. e = [e2 EXCEPT !.receipts = R] /\ e \in Database
    <3> DEFINE R2 == [e2.receipts EXCEPT ![i] = none]
    <3>0. e2 \in Database
      BY <2>6
    <3>1. e = [e2 EXCEPT !.receipts = R2] /\ e \in Database
      BY <3>0, DeleteReceipt, Zenon
    <3>2. R2 = R
      BY <2>8
    <3> HIDE DEF R2, R, e
    <3> QED BY <3>1, <3>2
  <2> HIDE DEF R, e
  <2>10. /\ e.scores = S /\ e.confirmations = T /\ e.distinct = D
         /\ e.receipts = R /\ e.completions = d.completions
         /\ e.capabilities = d.capabilities /\ e.identity = d.identity
         /\ KeepsMarks(d, e) /\ KeepsAlerts(d, e)
    BY <2>6, <2>8, <2>9 DEF Database, KeepsMarks, KeepsAlerts
  <2> QED BY <1>4, <2>1, <2>2, <2>9, <2>10 DEF S, T, D, R, RevokedBy
<1> QED BY <1>3, <1>4

\* What each kind of log does to the tables.
LEMMA ApplySelfAttested ==
  ASSUME NEW d \in Database, NEW b \in Block, NEW ts \in Nat, b.log.kind = "SelfAttested"
  PROVE  LET e == applyLog(d, b, ts)
             l == b.log
         IN  /\ e \in Database /\ KeepsMarks(d, e) /\ KeepsAlerts(d, e)
             /\ e.receipts = d.receipts /\ e.confirmations = d.confirmations
             /\ e.distinct = d.distinct /\ e.capabilities = d.capabilities
             /\ e.identity = d.identity
             /\ e.scores = BumpedScores(d.scores, l.agent, Completed(ts))
             /\ e.completions = IF d.completions[l.id] = Nobody
                                THEN [d.completions EXCEPT ![l.id] = l.agent]
                                ELSE d.completions
<1> DEFINE l == b.log
           e1 == recordIndexedCompletion(d, l.id, l.agent)
           T == IF d.completions[l.id] = Nobody THEN [d.completions EXCEPT ![l.id] = l.agent]
                                                ELSE d.completions
<1>1. l \in Log /\ b.number \in Nat
  BY DEF Block
<1>2. l.id \in Completions /\ l.agent \in Agents
  BY <1>1, LogFields DEF CompletionKinds
<1>3. T \in [Completions -> Agents \cup {Nobody}]
  BY <1>2 DEF Database
<1>4. e1 = [d EXCEPT !.completions = T]
  BY <1>2 DEF recordIndexedCompletion, Database
<1>5. applyLog(d, b, ts) = bumpAgent(e1, l.agent, Completed(ts))
  BY DEF applyLog, applyRonEvent, RegistryKinds, Completed
<1>6. Completed(ts) \in Delta
  BY <1>1, Deltas
<1> HIDE DEF T, e1
<1>7. e1 \in Database /\ e1.scores = d.scores
  BY <1>3, <1>4 DEF Database
<1>8. /\ applyLog(d, b, ts) = [e1 EXCEPT !.scores = BumpedScores(d.scores, l.agent, Completed(ts))]
      /\ applyLog(d, b, ts) \in Database
  BY <1>2, <1>5, <1>6, <1>7, BumpAgent
<1> QED BY <1>4, <1>8 DEF T, KeepsMarks, KeepsAlerts, Database

LEMMA ApplyReceiptAttested ==
  ASSUME NEW d \in Database, NEW b \in Block, NEW ts \in Nat, b.log.kind = "ReceiptAttested"
  PROVE  LET e == applyLog(d, b, ts)
             l == b.log
         IN  /\ e \in Database /\ KeepsMarks(d, e) /\ KeepsAlerts(d, e)
             /\ e.completions = d.completions /\ e.capabilities = d.capabilities
             /\ e.identity = d.identity
             /\ e.receipts = [d.receipts EXCEPT ![l.id] =
                                [agent |-> l.agent, counterparty |-> l.counterparty]]
             /\ e.scores = BumpedScores(d.scores, l.agent, Confirmed(ts))
             /\ e.confirmations = ConfirmationsAfter(d, l.agent, l.counterparty, 1)
             /\ e.distinct = DistinctsAfter(d, l.agent, l.counterparty, 1)
<1> DEFINE l == b.log
           T == [d.receipts EXCEPT ![l.id] = [agent |-> l.agent, counterparty |-> l.counterparty]]
           e1 == addReceiptIndex(d, l.id, l.agent, l.counterparty)
           e2 == bumpAgent(e1, l.agent, Confirmed(ts))
           e == applyLog(d, b, ts)
<1>1. l \in Log /\ b.number \in Nat
  BY DEF Block
<1>2. l.id \in Completions /\ l.agent \in Agents /\ l.counterparty \in Parties
  BY <1>1, LogFields DEF CompletionKinds
<1>3. T \in [Completions -> Receipt]
  <2>1. [agent |-> l.agent, counterparty |-> l.counterparty] \in Receipt
    BY <1>2 DEF Receipt
  <2> QED BY <2>1 DEF Database
<1>4. e1 = [d EXCEPT !.receipts = T]
  BY <1>2 DEF addReceiptIndex, Database
<1>5. e = bumpCounterparty(e2, l.agent, l.counterparty, 1)
  BY DEF applyLog, applyRonEvent, RegistryKinds, Confirmed
<1>6. Confirmed(ts) \in Delta /\ 1 \in Int
  BY <1>1, Deltas
<1> HIDE DEF T, e1
<1>7. e1 \in Database /\ e1.scores = d.scores
  BY <1>3, <1>4 DEF Database
<1> DEFINE S == BumpedScores(d.scores, l.agent, Confirmed(ts))
<1>8. e2 = [e1 EXCEPT !.scores = S] /\ e2 \in Database
  BY <1>2, <1>6, <1>7, BumpAgent
<1> HIDE DEF S, e2
<1>9. /\ e2.scores = S /\ e2.confirmations = d.confirmations /\ e2.distinct = d.distinct
      /\ e2.receipts = T /\ e2.completions = d.completions
      /\ e2.capabilities = d.capabilities /\ e2.identity = d.identity
      /\ KeepsMarks(d, e2) /\ KeepsAlerts(d, e2)
  BY <1>4, <1>8 DEF Database, KeepsMarks, KeepsAlerts
<1>10. e2 \in Database
  BY <1>8
<1> DEFINE C == ConfirmationsAfter(e2, l.agent, l.counterparty, 1)
           D == DistinctsAfter(e2, l.agent, l.counterparty, 1)
<1>11. e = [e2 EXCEPT !.confirmations = C, !.distinct = D] /\ e \in Database
  <2>1. PICK one \in Int : one = 1
    OBVIOUS
  <2>2. /\ bumpCounterparty(e2, l.agent, l.counterparty, one) =
              [e2 EXCEPT !.confirmations = ConfirmationsAfter(e2, l.agent, l.counterparty, one),
                         !.distinct = DistinctsAfter(e2, l.agent, l.counterparty, one)]
        /\ bumpCounterparty(e2, l.agent, l.counterparty, one) \in Database
    BY <1>2, <1>10, BumpCounterparty
  <2> QED BY <1>5, <2>1, <2>2
<1>12. /\ C = ConfirmationsAfter(d, l.agent, l.counterparty, 1)
       /\ D = DistinctsAfter(d, l.agent, l.counterparty, 1)
  BY <1>9 DEF ConfirmationsAfter, DistinctsAfter
<1> HIDE DEF C, D, e
<1>13. /\ e.scores = S /\ e.confirmations = C /\ e.distinct = D
       /\ e.receipts = T /\ e.completions = d.completions
       /\ e.capabilities = d.capabilities /\ e.identity = d.identity
       /\ KeepsMarks(d, e) /\ KeepsAlerts(d, e)
  BY <1>9, <1>10, <1>11 DEF Database, KeepsMarks, KeepsAlerts
<1> QED BY <1>11, <1>12, <1>13 DEF S, T, e

LEMMA ApplyReceiptRevoked ==
  ASSUME NEW d \in Database, NEW b \in Block, NEW ts \in Nat, b.log.kind = "ReceiptRevoked"
  PROVE  LET e == applyLog(d, b, ts)
             i == b.log.id
         IN  /\ e \in Database /\ KeepsMarks(d, e) /\ KeepsAlerts(d, e)
             /\ e.completions = d.completions /\ e.capabilities = d.capabilities
             /\ e.identity = d.identity
             /\ RevokedBy(d, e, i, d.receipts[i].agent)
<1> DEFINE i == b.log.id
           a == d.receipts[i].agent
<1>1. i \in Completions
  BY LogFields DEF CompletionKinds, Block
<1>2. a \in Agents \cup {Nobody}
  BY <1>1 DEF Database, Receipt
<1>3. applyLog(d, b, ts) = DropReceipt(d, i, a)
  BY DEF applyLog, applyRonEvent, RegistryKinds
<1> HIDE DEF i, a
<1>4. /\ DropReceipt(d, i, a) \in Database /\ KeepsMarks(d, DropReceipt(d, i, a))
      /\ KeepsAlerts(d, DropReceipt(d, i, a))
      /\ DropReceipt(d, i, a).completions = d.completions
      /\ DropReceipt(d, i, a).capabilities = d.capabilities
      /\ DropReceipt(d, i, a).identity = d.identity
      /\ RevokedBy(d, DropReceipt(d, i, a), i, a)
  BY <1>1, <1>2, DroppedReceipt
<1> QED BY <1>3, <1>4 DEF i, a

\* A dispute counts against the agent of the completion, if the index has the completion.
LEMMA ApplyUpheldChallenge ==
  ASSUME NEW d \in Database, NEW b \in Block, NEW ts \in Nat, b.log.kind = "ChallengeResolved", b.log.upheld,
         d.completions[b.log.id] # Nobody
  PROVE  LET e == applyLog(d, b, ts)
             i == b.log.id
             a == d.completions[i]
             f == [d EXCEPT !.scores = BumpedScores(d.scores, a, Disputed)]
         IN  /\ a \in Agents
             /\ e \in Database /\ KeepsMarks(d, e) /\ KeepsAlerts(recordAlert(d, b), e)
             /\ e.completions = d.completions /\ e.capabilities = d.capabilities
             /\ e.identity = d.identity
             /\ f \in Database
             /\ RevokedBy(f, e, i, a)
<1> DEFINE i == b.log.id
           a == d.completions[i]
           S == BumpedScores(d.scores, a, Disputed)
           f == [d EXCEPT !.scores = S]
           e1 == recordAlert(d, b)
           e2 == bumpAgent(e1, a, Disputed)
           e == DropReceipt(e2, i, a)
<1>1. i \in Completions
  BY LogFields DEF CompletionKinds, Block
<1>2. a \in Agents /\ Disputed \in Delta
  BY <1>1, Deltas DEF Database
<1>3. applyLog(d, b, ts) = e
  BY DEF applyLog, applyRonEvent, RegistryKinds, Disputed
<1> HIDE DEF i, a
<1>4. /\ e1 = [d EXCEPT !.alerts = e1.alerts]
      /\ e1 \in Database
  BY RecordAlert DEF AlertKinds
<1> HIDE DEF e1
<1>5. /\ e1.scores = d.scores /\ e1.confirmations = d.confirmations /\ e1.distinct = d.distinct
      /\ e1.receipts = d.receipts /\ e1.completions = d.completions
      /\ e1.capabilities = d.capabilities /\ e1.identity = d.identity
      /\ KeepsMarks(d, e1) /\ e1 \in Database
  BY <1>4 DEF Database, KeepsMarks
<1>6. e2 = [e1 EXCEPT !.scores = S] /\ e2 \in Database
  BY <1>2, <1>5, BumpAgent
<1> HIDE DEF e2, S
<1>7. /\ e2.scores = S /\ e2.confirmations = d.confirmations /\ e2.distinct = d.distinct
      /\ e2.receipts = d.receipts /\ e2.completions = d.completions
      /\ e2.capabilities = d.capabilities /\ e2.identity = d.identity
      /\ KeepsMarks(d, e2) /\ KeepsAlerts(e1, e2) /\ e2 \in Database
  BY <1>5, <1>6 DEF Database, KeepsMarks, KeepsAlerts
<1>8. S \in [Agents -> Counters]
  BY <1>7 DEF Database
<1>9. f \in Database /\ f.scores = S /\ f.confirmations = d.confirmations
      /\ f.distinct = d.distinct /\ f.receipts = d.receipts
  BY <1>8 DEF Database
<1> HIDE DEF f
<1>10. a \in Agents \cup {Nobody} /\ e2 \in Database
  BY <1>2, <1>7
<1>11. /\ e \in Database /\ KeepsMarks(e2, e) /\ KeepsAlerts(e2, e)
       /\ e.completions = e2.completions /\ e.capabilities = e2.capabilities
       /\ e.identity = e2.identity
       /\ RevokedBy(e2, e, i, a)
  BY <1>1, <1>10, DroppedReceipt
<1> HIDE DEF e
<1>12. RevokedBy(f, e, i, a)
  BY <1>7, <1>9, <1>11 DEF RevokedBy, ConfirmationsAfter, DistinctsAfter
<1>13. KeepsMarks(d, e) /\ KeepsAlerts(e1, e)
  BY <1>7, <1>11 DEF KeepsMarks, KeepsAlerts
<1> QED BY <1>2, <1>3, <1>7, <1>9, <1>11, <1>12, <1>13 DEF i, a, f, S, e1

KeepsReputation(d, e) ==
    /\ e.scores = d.scores /\ e.completions = d.completions /\ e.receipts = d.receipts
    /\ e.confirmations = d.confirmations /\ e.distinct = d.distinct

LEMMA RecordAlertKeeps ==
  ASSUME NEW d \in Database, NEW b \in Block, b.log.kind \in AlertKinds
  PROVE  LET e == recordAlert(d, b)
         IN  /\ e \in Database /\ KeepsMarks(d, e) /\ KeepsReputation(d, e)
             /\ e.capabilities = d.capabilities /\ e.identity = d.identity
<1> DEFINE e == recordAlert(d, b)
<1>1. e = [d EXCEPT !.alerts = e.alerts] /\ e \in Database
  BY RecordAlert
<1> HIDE DEF e
<1>2. /\ e \in Database /\ KeepsMarks(d, e) /\ KeepsReputation(d, e)
      /\ e.capabilities = d.capabilities /\ e.identity = d.identity
  BY <1>1 DEF Database, KeepsMarks, KeepsReputation
<1> QED BY <1>2 DEF e

\* A challenge that is not upheld, or is about a completion that the index does not have.
LEMMA ApplyQuietLog ==
  ASSUME NEW d \in Database, NEW b \in Block, NEW ts \in Nat,
         \/ b.log.kind \in {"ChallengeSubmitted", "ChallengeCancelled", "OwnerActed"}
         \/ b.log.kind = "ChallengeResolved" /\ ~(b.log.upheld /\ d.completions[b.log.id] # Nobody)
  PROVE  applyLog(d, b, ts) = recordAlert(d, b)
BY DEF applyLog, applyRonEvent, applyRegistryEvent, RegistryKinds

LEMMA ApplyAgentRegistered ==
  ASSUME NEW d \in Database, NEW b \in Block, NEW ts \in Nat, b.log.kind = "AgentRegistered"
  PROVE  LET e == applyLog(d, b, ts)
         IN  /\ e \in Database /\ KeepsMarks(d, e) /\ KeepsAlerts(d, e) /\ KeepsReputation(d, e)
             /\ e.capabilities = d.capabilities
             /\ e.identity = [d.identity EXCEPT ![b.log.agent] = b.log.cid]
<1> DEFINE e == applyLog(d, b, ts)
           T == [d.identity EXCEPT ![b.log.agent] = b.log.cid]
<1>1. b.log.cid \in Profiles
  BY LogFields DEF Block
<1>2. T \in [Agents -> Profiles \cup {Nobody}]
  BY <1>1 DEF Database
<1>3. e = [d EXCEPT !.identity = T]
  BY DEF applyLog, applyRonEvent, RegistryKinds, setAgentIdentity, Database
<1> HIDE DEF T, e
<1>4. /\ e \in Database /\ KeepsMarks(d, e) /\ KeepsAlerts(d, e) /\ KeepsReputation(d, e)
      /\ e.capabilities = d.capabilities /\ e.identity = T
  BY <1>2, <1>3 DEF Database, KeepsMarks, KeepsAlerts, KeepsReputation
<1> QED BY <1>4 DEF T, e

\* The row of a capability after a log about it.
IndexedAfter(row, l) ==
    CASE l.kind = "CapabilityRegistered" -> [row EXCEPT !.creator = l.creator]
      [] l.kind = "CapabilityCertified" ->
            IF row.creator # Nobody THEN [row EXCEPT !.certified = TRUE] ELSE row
      [] l.kind = "CapabilitySlashed" ->
            IF row.creator # Nobody THEN [row EXCEPT !.slashed = TRUE] ELSE row
      [] OTHER -> [creator |-> Nobody, certified |-> FALSE, slashed |-> FALSE]

LEMMA ApplyCapabilityLog ==
  ASSUME NEW d \in Database, NEW b \in Block, NEW ts \in Nat, b.log.kind \in CapabilityKinds
  PROVE  LET e == applyLog(d, b, ts)
             l == b.log
         IN  /\ e \in Database /\ KeepsMarks(d, e) /\ KeepsReputation(d, e)
             /\ e.identity = d.identity
             /\ e.capabilities =
                   [d.capabilities EXCEPT ![l.id] = IndexedAfter(d.capabilities[l.id], l)]
             /\ IF l.kind \in AlertKinds THEN KeepsAlerts(recordAlert(d, b), e)
                                         ELSE KeepsAlerts(d, e)
<1> DEFINE l == b.log
           i == l.id
           row == d.capabilities[i]
           T == [d.capabilities EXCEPT ![i] = IndexedAfter(row, l)]
           e1 == [d EXCEPT !.capabilities = T]
<1>1. i \in Capabilities /\ (l.kind = "CapabilityRegistered" => l.creator \in Agents)
  BY LogFields DEF Block
<1>2. d.capabilities \in [Capabilities -> IndexedCapability]
  BY DEF Database
<1>3. row \in IndexedCapability
  BY <1>1, <1>2
<1>4. IndexedAfter(row, l) \in IndexedCapability
  BY <1>1, <1>3 DEF IndexedAfter, IndexedCapability
<1>5. T \in [Capabilities -> IndexedCapability]
  BY <1>2, <1>4
<1>6. IndexedAfter(row, l) = row => e1 = d
  <2>1. IndexedAfter(row, l) = row => T = d.capabilities
    BY <1>1, <1>2
  <2> HIDE DEF T
  <2> QED BY <2>1 DEF Database
<1>7. /\ e1 \in Database /\ KeepsMarks(d, e1) /\ KeepsReputation(d, e1) /\ KeepsAlerts(d, e1)
      /\ e1.identity = d.identity /\ e1.capabilities = T
  <2> HIDE DEF T
  <2> QED BY <1>5 DEF Database, KeepsMarks, KeepsAlerts, KeepsReputation
<1>8. /\ l.kind = "CapabilityRegistered" => upsertIndexedCapability(d, i, l.creator) = e1
      /\ l.kind = "CapabilityCertified" => certifyIndexedCapability(d, i) = e1
      /\ l.kind = "CapabilitySlashed" => slashIndexedCapability(d, i) = e1
      /\ l.kind = "BondWithdrawn" => deleteIndexedCapability(d, i) = e1
  <2>1. CASE l.kind = "CapabilityRegistered"
    BY <1>1, <1>2, <2>1 DEF upsertIndexedCapability, IndexedAfter, Database
  <2>2. CASE l.kind = "CapabilityCertified"
    <3>1. certifyIndexedCapability(d, i) =
            IF row.creator # Nobody THEN [d EXCEPT !.capabilities[i] = [row EXCEPT !.certified = TRUE]]
                                    ELSE d
      BY DEF certifyIndexedCapability, UpdateCapability, HasRow
    <3>2. IndexedAfter(row, l) = IF row.creator # Nobody THEN [row EXCEPT !.certified = TRUE] ELSE row
      BY <2>2 DEF IndexedAfter
    <3>3. CASE row.creator # Nobody
      BY <2>2, <3>1, <3>2, <3>3 DEF Database
    <3>4. CASE row.creator = Nobody
      BY <1>6, <2>2, <3>1, <3>2, <3>4
    <3> QED BY <3>3, <3>4
  <2>3. CASE l.kind = "CapabilitySlashed"
    <3>1. slashIndexedCapability(d, i) =
            IF row.creator # Nobody THEN [d EXCEPT !.capabilities[i] = [row EXCEPT !.slashed = TRUE]]
                                    ELSE d
      BY DEF slashIndexedCapability, UpdateCapability, HasRow
    <3>2. IndexedAfter(row, l) = IF row.creator # Nobody THEN [row EXCEPT !.slashed = TRUE] ELSE row
      BY <2>3 DEF IndexedAfter
    <3>3. CASE row.creator # Nobody
      BY <2>3, <3>1, <3>2, <3>3 DEF Database
    <3>4. CASE row.creator = Nobody
      BY <1>6, <2>3, <3>1, <3>2, <3>4
    <3> QED BY <3>3, <3>4
  <2>4. CASE l.kind = "BondWithdrawn"
    <3>1. EmptyDb.capabilities[i] = [creator |-> Nobody, certified |-> FALSE, slashed |-> FALSE]
      BY <1>1 DEF EmptyDb
    <3>2. IndexedAfter(row, l) = EmptyDb.capabilities[i]
      BY <2>4, <3>1 DEF IndexedAfter
    <3> QED BY <2>4, <3>2 DEF deleteIndexedCapability, Database
  <2> QED BY <2>1, <2>2, <2>3, <2>4
<1> HIDE DEF T, e1
<1>9. CASE l.kind \in {"CapabilityRegistered", "CapabilityCertified"}
  <2>1. applyLog(d, b, ts) = e1
    BY <1>8, <1>9 DEF applyLog, applyRegistryEvent, RegistryKinds
  <2>2. l.kind \notin AlertKinds
    BY <1>9 DEF AlertKinds
  <2> QED BY <1>7, <2>1, <2>2 DEF T
<1>10. CASE l.kind \in {"CapabilitySlashed", "BondWithdrawn"}
  <2>1. applyLog(d, b, ts) = recordAlert(e1, b)
    BY <1>8, <1>10 DEF applyLog, applyRegistryEvent, RegistryKinds
  <2>2. l.kind \in AlertKinds
    BY <1>10 DEF AlertKinds
  <2> DEFINE e2 == recordAlert(e1, b)
  <2>3. /\ e2 \in Database /\ KeepsMarks(e1, e2) /\ KeepsReputation(e1, e2)
        /\ e2.capabilities = e1.capabilities /\ e2.identity = e1.identity
    BY <1>7, <2>2, RecordAlertKeeps
  <2>4. KeepsAlerts(recordAlert(d, b), e2)
    <3>1. Alert(e1, b) = Alert(d, b) /\ e1.alerts = d.alerts
      BY <1>7 DEF Alert, KeepsAlerts
    <3> QED BY <1>7, <3>1 DEF recordAlert, KeepsAlerts, Database
  <2> HIDE DEF e2
  <2>5. KeepsMarks(d, e2) /\ KeepsReputation(d, e2) /\ e2.capabilities = T /\ e2.identity = d.identity
    BY <1>7, <2>3 DEF KeepsMarks, KeepsReputation
  <2> QED BY <2>1, <2>2, <2>3, <2>4, <2>5 DEF T, e2
<1> QED BY <1>9, <1>10 DEF CapabilityKinds

\* Applying a log leaves markers and cursor alone, and raises an alert if the log calls
\* for one.
LEMMA ApplyLog ==
  ASSUME NEW d \in Database, NEW b \in Block, NEW ts \in Nat, b.log # NoLog
  PROVE  LET e == applyLog(d, b, ts)
         IN  /\ e \in Database /\ KeepsMarks(d, e)
             /\ IF b.log.kind \in AlertKinds THEN KeepsAlerts(recordAlert(d, b), e)
                                             ELSE KeepsAlerts(d, e)
<1> DEFINE e == applyLog(d, b, ts)
           k == b.log.kind
<1>1. k \in CompletionKinds \cup CapabilityKinds \cup {"OwnerActed", "AgentRegistered"}
  BY LogFields DEF Block
<1>2. CASE k \in {"SelfAttested", "ReceiptAttested", "ReceiptRevoked", "AgentRegistered"}
  <2>1. k \notin AlertKinds
    BY <1>2 DEF AlertKinds
  <2> QED BY <1>2, <2>1, ApplySelfAttested, ApplyReceiptAttested, ApplyReceiptRevoked,
             ApplyAgentRegistered
<1>3. CASE k \in CapabilityKinds
  BY <1>3, ApplyCapabilityLog
<1>4. CASE k = "ChallengeResolved" /\ b.log.upheld /\ d.completions[b.log.id] # Nobody
  <2>1. k \in AlertKinds
    BY <1>4 DEF AlertKinds
  <2> QED BY <1>4, <2>1, ApplyUpheldChallenge
<1>5. CASE \/ k \in {"ChallengeSubmitted", "ChallengeCancelled", "OwnerActed"}
           \/ k = "ChallengeResolved" /\ ~(b.log.upheld /\ d.completions[b.log.id] # Nobody)
  <2>1. k \in AlertKinds
    BY <1>5 DEF AlertKinds
  <2> QED BY <1>5, <2>1, ApplyQuietLog, RecordAlertKeeps DEF KeepsAlerts
<1> QED BY <1>1, <1>2, <1>3, <1>4, <1>5 DEF CompletionKinds

Marks(d) == d.indexedLogs \cup d.forgotten

KeepsTables(d, e) ==
    /\ KeepsReputation(d, e) /\ KeepsAlerts(d, e)
    /\ e.capabilities = d.capabilities /\ e.identity = d.identity

\* What is forgotten is below the cursor.
LEMMA PruneIndexedLogs ==
  ASSUME NEW d \in Database, NEW n \in Nat, NEW keep \in Nat
  PROVE  LET e == pruneIndexedLogs(d, n, keep)
         IN  /\ e \in Database /\ KeepsTables(d, e) /\ Marks(e) = Marks(d)
             /\ e.lastBlock = d.lastBlock /\ e.lastHash = d.lastHash
             /\ \A m \in e.forgotten : m \in d.forgotten \/ m.block < n
<1> DEFINE old == {m \in d.indexedLogs : keep > 0 /\ m.block < n - keep}
           I == d.indexedLogs \ old
           F == d.forgotten \cup old
           e == pruneIndexedLogs(d, n, keep)
<1>1. e = [d EXCEPT !.indexedLogs = I, !.forgotten = F]
  BY DEF pruneIndexedLogs
<1>2. d.indexedLogs \in SUBSET Marker /\ d.forgotten \in SUBSET Marker
  BY DEF Database
<1>3. I \in SUBSET Marker /\ F \in SUBSET Marker /\ I \cup F = Marks(d)
  BY <1>2 DEF Marks
<1>4. \A m \in F : m \in d.forgotten \/ m.block < n
  <2>1. \A m \in old : m.block \in Nat
    BY <1>2 DEF Marker
  <2> QED BY <2>1
<1> HIDE DEF I, F, e
<1>5. /\ e \in Database /\ KeepsTables(d, e) /\ e.indexedLogs = I /\ e.forgotten = F
      /\ e.lastBlock = d.lastBlock /\ e.lastHash = d.lastHash
  BY <1>1, <1>3 DEF Database, KeepsTables, KeepsReputation, KeepsAlerts
<1>6. Marks(e) = Marks(d)
  BY <1>3, <1>5 DEF Marks
<1> QED BY <1>4, <1>5, <1>6 DEF e

LEMMA ResetIndexerDerived ==
  ASSUME NEW d \in Database, NEW n \in Nat
  PROVE  LET e == resetIndexerDerived(d, n)
         IN  /\ e \in Database /\ Marks(e) = {} /\ e.forgotten = {}
             /\ e.alerts = {row \in d.alerts : row.block < n}
             /\ e.scores = EmptyDb.scores /\ e.receipts = EmptyDb.receipts
             /\ e.identity = EmptyDb.identity
             /\ e.completions = d.completions /\ e.capabilities = d.capabilities
             /\ e.lastBlock = d.lastBlock /\ e.lastHash = d.lastHash
<1> DEFINE A == {row \in d.alerts : row.block < n}
           e == resetIndexerDerived(d, n)
           S == EmptyDb.scores
           R == EmptyDb.receipts
           N == EmptyDb.identity
<1>1. /\ A \in SUBSET Row /\ S \in [Agents -> Counters] /\ R \in [Completions -> Receipt]
      /\ N \in [Agents -> Profiles \cup {Nobody}]
  BY EmptyDbType DEF Database
<1>2. e = [d EXCEPT !.alerts = A, !.scores = S, !.receipts = R, !.identity = N,
                    !.indexedLogs = {}, !.forgotten = {}]
  BY DEF resetIndexerDerived
<1> HIDE DEF A, S, R, N, e
<1>3. /\ e \in Database /\ e.indexedLogs = {} /\ e.forgotten = {}
      /\ e.alerts = A
      /\ e.scores = S /\ e.receipts = R /\ e.identity = N
      /\ e.completions = d.completions /\ e.capabilities = d.capabilities
      /\ e.lastBlock = d.lastBlock /\ e.lastHash = d.lastHash
  BY <1>1, <1>2 DEF Database
<1> QED BY <1>3 DEF A, S, R, N, e, Marks

LEMMA MarkIndexed ==
  ASSUME NEW d \in Database, NEW b \in Block
  PROVE  LET e == markIndexed(d, b)
         IN  /\ e \in Database /\ KeepsTables(d, e)
             /\ Marks(e) = Marks(d) \cup {[hash |-> b.hash, block |-> b.number]}
             /\ e.forgotten = d.forgotten
             /\ e.lastBlock = d.lastBlock /\ e.lastHash = d.lastHash
<1> DEFINE I == d.indexedLogs \cup {[hash |-> b.hash, block |-> b.number]}
           e == markIndexed(d, b)
<1>1. d.indexedLogs \in SUBSET Marker /\ [hash |-> b.hash, block |-> b.number] \in Marker
  BY DEF Database, Marker, Block
<1>2. I \in SUBSET Marker
  BY <1>1
<1>3. e = [d EXCEPT !.indexedLogs = I]
  BY DEF markIndexed
<1> HIDE DEF I, e
<1>4. /\ e \in Database /\ KeepsTables(d, e) /\ e.indexedLogs = I /\ e.forgotten = d.forgotten
      /\ e.lastBlock = d.lastBlock /\ e.lastHash = d.lastHash
  BY <1>2, <1>3 DEF Database, KeepsTables, KeepsReputation, KeepsAlerts
<1>5. Marks(e) = Marks(d) \cup {[hash |-> b.hash, block |-> b.number]}
  BY <1>4 DEF Marks, I
<1> QED BY <1>4, <1>5 DEF e

-----------------------------------------------------------------------------
(* The steps of a poll *)

\* The block of the first log that a poll has left of its range.
At(q) == q.to - Len(q.next) + 1

\* What a poll has left is what the chain still has there.
Window(c, q) ==
    /\ At(q) \in (q.from + 1)..q.to
    /\ \A i \in 1..Len(q.next) : q.next[i] = c[At(q) + i - 1]
    /\ c[At(q)].log # NoLog

\* What the timestamp of block n may be taken for.
Stamps(ts, n) == ts >= n /\ ("null" \notin scenario.faults => ts = n)

\* A poll asks for settled blocks only, and one at most is about to mark a log.
ShapeOK ==
    /\ \A p \in Polls :
          LET q == polls[p]
          IN  /\ q.pc # "idle" => q.safeHead <= settled /\ q.safeHead <= Len(chain)
              /\ q.pc \in {"logs", "stamp", "enrich", "mark", "hash"} =>
                    q.from < q.to /\ q.to <= q.safeHead
              /\ q.pc \in {"stamp", "enrich", "mark"} => Window(chain, q)
              /\ q.pc = "enrich" => NeedsCall(chain[At(q)]) /\ Stamps(q.ts, At(q))
    /\ \A p, o \in Polls : polls[p].pc = "mark" /\ polls[o].pc = "mark" => p = o

Skipped(d, n) == chain[n].log = NoLog \/ alreadyIndexed(d, chain[n].hash)

\* The head of the while loop after block from, with database d.
Turns(p, safeHead, from, d) ==
    \/ /\ polls'[p].pc = "logs" /\ polls'[p].safeHead = safeHead /\ polls'[p].from = from
       /\ from < polls'[p].to /\ polls'[p].to <= safeHead
       /\ db' = d
    \/ /\ polls'[p] = NoPoll
       /\ db' = pruneIndexedLogs(d, d.lastBlock, scenario.markerBlocks)

\* The head of the for loop at block at, with database d.
Goes(p, d, at) ==
    LET q == polls[p]
        r == polls'[p]
    IN  /\ r.from = q.from /\ r.to = q.to /\ r.safeHead = q.safeHead
        /\ \/ /\ r.pc = "hash"
              /\ db' = [d EXCEPT !.lastBlock = q.to]
              /\ \A n \in at..q.to : Skipped(d, n)
           \/ /\ r.pc = "stamp" /\ Window(chain, r) /\ At(r) \in at..q.to
              /\ db' = d
              /\ \A n \in at..(At(r) - 1) : Skipped(d, n)
              /\ ~Skipped(d, At(r))

Starts(p) ==
    /\ polls[p].pc = "idle" /\ db.lastBlock > 0
    /\ polls'[p].pc = "check" /\ polls'[p].safeHead = Len(chain) - CONFIRMATIONS
    /\ polls'[p].cursor = db.lastBlock /\ polls'[p].stored = db.lastHash
    /\ db' = db

StartsAfresh(p) ==
    /\ polls[p].pc = "idle" /\ db.lastBlock = 0
    /\ Turns(p, Len(chain) - CONFIRMATIONS, 0, db)

Rebuilds(p) ==
    /\ polls[p].pc = "check" /\ polls[p].stored # 0
    /\ \E answer \in HashAnswers(polls[p].cursor) : answer # 0 /\ answer # polls[p].stored
    /\ Turns(p, polls[p].safeHead, 0, resetIndexerDerived(db, polls[p].cursor))

Resumes(p) ==
    /\ polls[p].pc = "check"
    /\ \E answer \in HashAnswers(polls[p].cursor) :
          polls[p].stored = 0 \/ answer = 0 \/ answer = polls[p].stored
    /\ Turns(p, polls[p].safeHead, polls[p].cursor, db)

Asks(p) == polls[p].pc = "logs" /\ Goes(p, db, polls[p].from + 1)

Waits(p) ==
    /\ polls[p].pc = "stamp" /\ NeedsCall(chain[At(polls[p])])
    /\ \E ts \in Timestamps(chain[At(polls[p])]) :
          polls'[p] = [polls[p] EXCEPT !.pc = "enrich", !.ts = ts]
    /\ db' = db

Applies(p) ==
    /\ \/ /\ polls[p].pc = "stamp" /\ ~NeedsCall(chain[At(polls[p])])
          /\ polls'[p].ts \in Timestamps(chain[At(polls[p])])
       \/ /\ polls[p].pc = "enrich" /\ Enrichable(chain[At(polls[p])])
          /\ polls'[p].ts = polls[p].ts
    /\ polls'[p] = [polls[p] EXCEPT !.pc = "mark", !.ts = polls'[p].ts]
    /\ db' = applyLog(db, chain[At(polls[p])], polls'[p].ts)

GivesUp(p) ==
    /\ "rpc" \in scenario.faults /\ polls[p].pc \in {"logs", "stamp"}
    /\ polls'[p] = NoPoll /\ db' = db

PassesOver(p) ==
    /\ polls[p].pc = "enrich" /\ chain[At(polls[p])].log.kind = "CapabilityRegistered"
    /\ Goes(p, db, At(polls[p]) + 1)

Finishes(p) ==
    /\ polls[p].pc = "mark"
    /\ Goes(p, markIndexed(db, chain[At(polls[p])]), At(polls[p]) + 1)

Closes(p) ==
    /\ polls[p].pc = "hash"
    /\ \E answer \in HashAnswers(polls[p].to) :
          Turns(p, polls[p].safeHead, polls[p].to, [db EXCEPT !.lastHash = answer])

\* The steps above leave the other polls alone, and none of these is about to mark a log.
Alone(p) ==
    /\ \A o \in Polls \ {p} : polls[o].pc # "mark" /\ polls'[o] = polls[o]
    /\ chain' = chain /\ scenario' = scenario /\ mined' = mined /\ settled' = settled

LEMMA NoPollType == NoPoll \in PollState
BY DEF NoPoll, PollState

LEMMA ProceedTurns ==
  ASSUME TypeOK, NEW p \in Polls, NEW q \in PollState, NEW d \in Database, Proceed(p, q, d),
         q.safeHead <= Len(chain)
  PROVE  /\ Turns(p, q.safeHead, q.from, d)
         /\ \A o \in Polls \ {p} : polls[o].pc # "mark" /\ polls'[o] = polls[o]
         /\ db' \in Database /\ indexer' \in Stages /\ polls' \in [Polls -> PollState]
<1> DEFINE next == NextChunk(q)
<1>1. /\ polls' = [polls EXCEPT ![p] = next]
      /\ indexer' = IF next.pc = "idle" THEN "polling" ELSE indexer
      /\ \A o \in Polls \ {p} : polls[o].pc # "mark"
      /\ db' = IF next.pc = "idle" THEN pruneIndexedLogs(d, d.lastBlock, scenario.markerBlocks) ELSE d
  BY DEF Proceed, Continue
<1>2. polls \in [Polls -> PollState] /\ scenario.markerBlocks \in Nat /\ d.lastBlock \in Nat
  BY IndexerAssumption DEF TypeOK, Database
<1>3. indexer' \in Stages
  BY <1>1 DEF TypeOK, Stages
<1>4. CASE q.from < q.safeHead /\ q.chunks < MAX_CHUNKS
  <2> DEFINE to == ChunkEnd(q)
  <2>1. q.from \in Nat /\ q.safeHead \in Int
    BY DEF PollState
  <2>2. to \in Nat /\ q.from < to /\ to <= q.safeHead
    BY <1>4, <2>1, IndexerAssumption DEF ChunkEnd, LesserOf
  <2>3. next = [q EXCEPT !.pc = "logs", !.to = to]
    BY <1>4 DEF NextChunk
  <2> HIDE DEF to, next
  <2>4. /\ next \in PollState /\ next.pc = "logs" /\ next.to = to /\ next.from = q.from
        /\ next.safeHead = q.safeHead
    BY <2>2, <2>3 DEF PollState
  <2>5. db' = d
    BY <1>1, <2>4
  <2>6. polls'[p] = next /\ polls' \in [Polls -> PollState]
        /\ \A o \in Polls \ {p} : polls'[o] = polls[o]
    BY <1>1, <1>2, <2>4
  <2> QED BY <1>1, <1>3, <2>2, <2>4, <2>5, <2>6 DEF Turns
<1>5. CASE ~(q.from < q.safeHead /\ q.chunks < MAX_CHUNKS)
  <2>1. next = NoPoll
    BY <1>5 DEF NextChunk
  <2>2. db' = pruneIndexedLogs(d, d.lastBlock, scenario.markerBlocks)
    BY <1>1, <2>1 DEF NoPoll
  <2>3. db' \in Database
    BY <1>2, <2>2, PruneIndexedLogs
  <2>4. polls'[p] = NoPoll /\ polls' \in [Polls -> PollState]
        /\ \A o \in Polls \ {p} : polls'[o] = polls[o]
    BY <1>1, <1>2, <2>1, NoPollType
  <2> QED BY <1>1, <1>3, <2>2, <2>3, <2>4 DEF Turns
<1> QED BY <1>4, <1>5

LEMMA NextLogGoes ==
  ASSUME TypeOK, NEW p \in Polls, NEW q \in PollState, NEW d \in Database, NEW at \in Nat,
         q.from = polls[p].from, q.to = polls[p].to, q.safeHead = polls[p].safeHead,
         at \in (q.from + 1)..(q.to + 1), q.to <= Len(chain),
         Len(q.next) = q.to - at + 1,
         \A i \in 1..Len(q.next) : q.next[i] = chain[at + i - 1],
         NextLog(p, q, d)
  PROVE  /\ Goes(p, d, at)
         /\ \A o \in Polls \ {p} : polls[o].pc # "mark" /\ polls'[o] = polls[o]
         /\ db' \in Database /\ indexer' \in Stages /\ polls' \in [Polls -> PollState]
<1> DEFINE next == q.next
           new == {i \in DOMAIN next : next[i].log # NoLog /\ ~alreadyIndexed(d, next[i].hash)}
<1>1. /\ q.from \in Nat /\ q.to \in Nat /\ next \in Seq(Block) /\ Len(next) \in Nat
      /\ DOMAIN next = 1..Len(next)
  BY DEF PollState
<1>2. polls \in [Polls -> PollState] /\ chain \in Seq(Block)
  BY DEF TypeOK
<1>3. \A n \in at..q.to : Skipped(d, n) <=> n - at + 1 \notin new
  <2>1. \A n \in at..q.to : n - at + 1 \in 1..Len(next) /\ next[n - at + 1] = chain[n]
    BY <1>1
  <2> HIDE DEF next
  <2>2. \A i \in DOMAIN next : i \in new <=> next[i].log # NoLog /\ ~alreadyIndexed(d, next[i].hash)
    OBVIOUS
  <2> QED BY <1>1, <2>1, <2>2 DEF Skipped
<1>4. CASE new = {}
  <2> DEFINE r == [q EXCEPT !.pc = "hash", !.next = << >>]
  <2>1. db' = [d EXCEPT !.lastBlock = q.to] /\ Continue(p, r)
    BY <1>4 DEF NextLog
  <2>2. r \in PollState /\ r.pc = "hash" /\ r.from = q.from /\ r.to = q.to /\ r.safeHead = q.safeHead
    <3>1. << >> \in Seq(Block)
      OBVIOUS
    <3> QED BY <3>1 DEF PollState
  <2>3. /\ polls' = [polls EXCEPT ![p] = r]
        /\ indexer' = IF r.pc = "idle" THEN "polling" ELSE indexer
        /\ \A o \in Polls \ {p} : polls[o].pc # "mark"
    BY <2>1 DEF Continue
  <2> HIDE DEF r
  <2>4. polls'[p] = r /\ polls' \in [Polls -> PollState]
        /\ \A o \in Polls \ {p} : polls'[o] = polls[o]
    BY <1>2, <2>2, <2>3
  <2>5. db' \in Database
    BY <1>1, <2>1 DEF Database
  <2>6. \A n \in at..q.to : Skipped(d, n)
    BY <1>3, <1>4
  <2>7. indexer' \in Stages
    BY <2>3 DEF TypeOK, Stages
  <2> HIDE DEF new
  <2> QED BY <2>1, <2>2, <2>3, <2>4, <2>5, <2>6, <2>7 DEF Goes
<1>5. CASE new # {}
  <2>1. new \in SUBSET (1..Len(next))
    BY <1>1
  <2> HIDE DEF new
  <2>2. PICK k \in 1..Len(next) : k = Min(new) /\ k \in new /\ \A y \in new : k <= y
    <3>1. Min(new) \in new /\ \A y \in new : Min(new) <= y
      BY <1>1, <1>5, <2>1, MinOfInterval
    <3> QED BY <2>1, <3>1
  <2> DEFINE rest == SubSeq(next, k, Len(next))
             r == [q EXCEPT !.pc = "stamp", !.next = rest]
             n == at + k - 1
  <2>3. db' = d /\ Continue(p, r)
    BY <1>5, <2>2 DEF NextLog, new
  <2>4. k \in 1..Len(next) /\ n \in Nat /\ n \in at..q.to
    BY <1>1
  <2>5. /\ rest \in Seq(Block) /\ Len(rest) = Len(next) - k + 1
        /\ \A i \in 1..Len(rest) : rest[i] = next[k + i - 1]
    <3>1. k \in Nat \ {0} /\ k <= Len(next)
      BY <1>1, <2>4
    <3> HIDE DEF next
    <3> QED BY <1>1, <3>1, PartOfSequence
  <2> HIDE DEF rest
  <2>6. /\ r \in PollState /\ r.pc = "stamp" /\ r.from = q.from /\ r.to = q.to
        /\ r.safeHead = q.safeHead /\ r.next = rest
    BY <2>5 DEF PollState
  <2>7. /\ polls' = [polls EXCEPT ![p] = r]
        /\ indexer' = IF r.pc = "idle" THEN "polling" ELSE indexer
        /\ \A o \in Polls \ {p} : polls[o].pc # "mark"
    BY <2>3 DEF Continue
  <2> HIDE DEF r
  <2>8. polls'[p] = r /\ polls' \in [Polls -> PollState]
        /\ \A o \in Polls \ {p} : polls'[o] = polls[o]
    BY <1>2, <2>6, <2>7
  <2>9. At(r) = n
    <3>1. r.next = rest /\ r.to = q.to
      BY <2>6
    <3>2. Len(rest) = Len(next) - k + 1
      BY <2>5
    <3>3. At(r) = q.to - Len(rest) + 1
      BY <3>1, Zenon DEF At
    <3>4. q.to - Len(rest) + 1 = n
      <4>1. PICK l \in Nat : l = Len(rest)
        BY <2>5
      <4>2. PICK m \in Nat : m = Len(next)
        BY <1>1
      <4>3. PICK t \in Nat : t = q.to
        BY <1>1
      <4>4. l = m - k + 1
        BY <3>2, <4>1, <4>2
      <4>5. m = t - at + 1 /\ k \in Int
        BY <4>2, <4>3
      <4>6. t - l + 1 = at + k - 1
        BY <4>4, <4>5
      <4> QED BY <4>1, <4>3, <4>6
    <3> QED BY <3>3, <3>4
  <2>10. \A i \in 1..Len(r.next) : r.next[i] = chain[n + i - 1]
    <3>1. ASSUME NEW i \in 1..Len(rest) PROVE rest[i] = chain[n + i - 1]
      <4>1. rest[i] = next[k + i - 1]
        BY <2>5, <3>1
      <4>2. k + i - 1 \in 1..Len(next)
        <5>1. PICK most \in Nat, left \in Nat : most = Len(next) /\ left = Len(rest)
          BY <1>1, <2>5
        <5>2. k \in 1..most /\ left = most - k + 1 /\ i \in 1..left
          BY <2>4, <2>5, <3>1, <5>1
        <5> QED BY <5>1, <5>2
      <4>3. at + (k + i - 1) - 1 = n + i - 1
        <5>1. k \in Int /\ i \in Int /\ at \in Int
          BY <1>1, <2>4, <2>5, <3>1
        <5> QED BY <5>1
      <4>4. next[k + i - 1] = chain[at + (k + i - 1) - 1]
        BY <4>2
      <4> QED BY <4>1, <4>3, <4>4
    <3> QED BY <2>6, <3>1
  <2>11. ~Skipped(d, n)
    <3>1. n - at + 1 = k
      BY <1>1, <2>4
    <3> QED BY <1>3, <2>2, <2>4, <3>1
  <2>12. \A m \in at..(n - 1) : Skipped(d, m)
    <3>1. ASSUME NEW m \in at..(n - 1) PROVE Skipped(d, m)
      <4>1. m - at + 1 < k /\ m \in at..q.to
        BY <1>1, <2>4
      <4>2. m - at + 1 \notin new
        BY <1>1, <2>2, <2>4, <4>1
      <4> QED BY <1>3, <4>1, <4>2
    <3> QED BY <3>1
  <2>13. Window(chain, r)
    <3>1. At(r) \in (r.from + 1)..r.to
      BY <1>1, <2>4, <2>6, <2>9
    <3> QED BY <2>9, <2>10, <2>11, <3>1 DEF Window, Skipped
  <2>14. indexer' \in Stages
    BY <2>7 DEF TypeOK, Stages
  <2> HIDE DEF n
  <2> QED BY <2>3, <2>4, <2>6, <2>7, <2>8, <2>9, <2>11, <2>12, <2>13, <2>14 DEF Goes, n
<1> QED BY <1>4, <1>5

\* What a poll has left begins at its place in the chain.
LEMMA WindowFacts ==
  ASSUME TypeOK, ShapeOK, NEW p \in Polls, polls[p].pc \in {"stamp", "enrich", "mark"}
  PROVE  LET q == polls[p]
         IN  /\ q \in PollState /\ q.from \in Nat /\ q.to \in Nat /\ q.to <= Len(chain)
             /\ At(q) \in (q.from + 1)..q.to /\ At(q) \in 1..Len(chain)
             /\ Len(q.next) = q.to - At(q) + 1
             /\ \A i \in 1..Len(q.next) : q.next[i] = chain[At(q) + i - 1]
             /\ Head(q.next) = chain[At(q)] /\ chain[At(q)].log # NoLog
             /\ chain[At(q)] \in Block
<1> DEFINE q == polls[p]
<1>1. q \in PollState
  BY DEF TypeOK
<1>2. /\ q.from \in Nat /\ q.to \in Nat /\ q.safeHead \in Int /\ q.next \in Seq(Block)
      /\ Len(q.next) \in Nat /\ Len(chain) \in Nat
  BY <1>1, BlockFacts DEF PollState
<1>3. /\ At(q) \in (q.from + 1)..q.to /\ chain[At(q)].log # NoLog
      /\ \A i \in 1..Len(q.next) : q.next[i] = chain[At(q) + i - 1]
  BY DEF ShapeOK, Window
<1>4. q.to <= q.safeHead /\ q.safeHead <= Len(chain)
  BY DEF ShapeOK
<1>5. At(q) = q.to - Len(q.next) + 1
  BY DEF At
<1> HIDE DEF q
<1>6. PICK at \in Nat : at = At(q)
  BY <1>2, <1>3
<1>7. Len(q.next) = q.to - at + 1 /\ 1 \in 1..Len(q.next) /\ at \in 1..Len(chain) /\ at + 1 - 1 = at
  BY <1>2, <1>3, <1>4, <1>5, <1>6
<1>8. Head(q.next) = chain[at]
  <2>1. q.next[1] = chain[at + 1 - 1]
    BY <1>3, <1>6, <1>7
  <2> QED BY <1>2, <1>7, <2>1
<1>9. chain[at] \in Block
  BY <1>7, BlockFacts
<1> QED BY <1>1, <1>2, <1>3, <1>4, <1>6, <1>7, <1>8, <1>9 DEF q

PollStep(p) ==
    \/ Starts(p) \/ StartsAfresh(p) \/ Rebuilds(p) \/ Resumes(p)
    \/ Asks(p) \/ Waits(p) \/ Applies(p) \/ GivesUp(p)
    \/ PassesOver(p) \/ Finishes(p) \/ Closes(p)

TypesNext == db' \in Database /\ indexer' \in Stages /\ polls' \in [Polls -> PollState]

LEMMA ContinueTypes ==
  ASSUME TypeOK, NEW p \in Polls, NEW r \in PollState, Continue(p, r)
  PROVE  /\ polls'[p] = r /\ indexer' \in Stages /\ polls' \in [Polls -> PollState]
         /\ \A o \in Polls \ {p} : polls[o].pc # "mark" /\ polls'[o] = polls[o]
BY DEF Continue, TypeOK, Stages

LEMMA StartSteps ==
  ASSUME TypeOK, ShapeOK, NEW p \in Polls, startPoll(p)
  PROVE  (Starts(p) \/ StartsAfresh(p)) /\ Alone(p) /\ TypesNext
<1> DEFINE head == Len(chain) - CONFIRMATIONS
           q == [NoPoll EXCEPT !.safeHead = head]
<1>1. head \in Int /\ head <= Len(chain)
  BY BlockFacts, IndexerAssumption
<1>2. /\ db \in Database /\ db.lastBlock \in Nat /\ db.lastHash \in Nat
      /\ chain' = chain /\ scenario' = scenario /\ mined' = mined /\ settled' = settled
      /\ polls[p].pc = "idle"
  BY DEF TypeOK, Database, startPoll
<1>3. q \in PollState /\ q.from = 0 /\ q.safeHead = head
  BY <1>1, NoPollType DEF PollState, NoPoll
<1>4. CASE db.lastBlock > 0
  <2> DEFINE r == [q EXCEPT !.pc = "check", !.cursor = db.lastBlock, !.stored = db.lastHash]
  <2>1. Continue(p, r) /\ db' = db
    BY <1>4 DEF startPoll
  <2>2. /\ r \in PollState /\ r.pc = "check" /\ r.cursor = db.lastBlock
        /\ r.stored = db.lastHash /\ r.safeHead = head
    <3> HIDE DEF q
    <3> QED BY <1>2, <1>3 DEF PollState
  <2> HIDE DEF r
  <2>3. /\ polls'[p] = r /\ indexer' \in Stages /\ polls' \in [Polls -> PollState]
        /\ \A o \in Polls \ {p} : polls[o].pc # "mark" /\ polls'[o] = polls[o]
    BY <2>1, <2>2, ContinueTypes
  <2> QED BY <1>2, <1>4, <2>1, <2>2, <2>3 DEF Starts, Alone, TypesNext
<1>5. CASE ~(db.lastBlock > 0)
  <2>1. Proceed(p, q, db) /\ db.lastBlock = 0
    BY <1>2, <1>5 DEF startPoll
  <2> HIDE DEF q, head
  <2>2. /\ Turns(p, head, 0, db) /\ TypesNext
        /\ \A o \in Polls \ {p} : polls[o].pc # "mark" /\ polls'[o] = polls[o]
    BY <1>1, <1>2, <1>3, <2>1, ProceedTurns DEF TypesNext
  <2> QED BY <1>2, <2>1, <2>2 DEF StartsAfresh, Alone, head
<1> QED BY <1>4, <1>5

LEMMA CheckSteps ==
  ASSUME TypeOK, ShapeOK, NEW p \in Polls, NEW answer \in HashAnswers(polls[p].cursor),
         checkHash(p, answer)
  PROVE  (Rebuilds(p) \/ Resumes(p)) /\ Alone(p) /\ TypesNext
<1> DEFINE q == polls[p]
           reorg == q.stored # 0 /\ answer # 0 /\ q.stored # answer
<1>1. /\ q \in PollState /\ q.pc = "check" /\ q.safeHead <= Len(chain) /\ q.cursor \in Nat
      /\ db \in Database
      /\ chain' = chain /\ scenario' = scenario /\ mined' = mined /\ settled' = settled
  BY DEF TypeOK, ShapeOK, checkHash, PollState
<1>2. CASE reorg
  <2> DEFINE r == [q EXCEPT !.from = 0]
             d == resetIndexerDerived(db, q.cursor)
  <2>1. Proceed(p, r, d)
    BY <1>2 DEF checkHash
  <2>2. r \in PollState /\ r.from = 0 /\ r.safeHead = q.safeHead
    BY <1>1 DEF PollState
  <2>3. d \in Database
    BY <1>1, ResetIndexerDerived
  <2> HIDE DEF r, d
  <2>4. /\ Turns(p, q.safeHead, 0, d) /\ TypesNext
        /\ \A o \in Polls \ {p} : polls[o].pc # "mark" /\ polls'[o] = polls[o]
    BY <1>1, <2>1, <2>2, <2>3, ProceedTurns DEF TypesNext
  <2> QED BY <1>1, <1>2, <2>4 DEF Rebuilds, Alone, d
<1>3. CASE ~reorg
  <2> DEFINE r == [q EXCEPT !.from = q.cursor]
  <2>1. Proceed(p, r, db)
    BY <1>3 DEF checkHash
  <2>2. r \in PollState /\ r.from = q.cursor /\ r.safeHead = q.safeHead
    BY <1>1 DEF PollState
  <2> HIDE DEF r
  <2>3. /\ Turns(p, q.safeHead, q.cursor, db) /\ TypesNext
        /\ \A o \in Polls \ {p} : polls[o].pc # "mark" /\ polls'[o] = polls[o]
    BY <1>1, <2>1, <2>2, ProceedTurns DEF TypesNext
  <2> QED BY <1>1, <1>3, <2>3 DEF Resumes, Alone
<1> QED BY <1>2, <1>3

LEMMA AskSteps ==
  ASSUME TypeOK, ShapeOK, NEW p \in Polls, getLogs(p)
  PROVE  Asks(p) /\ Alone(p) /\ TypesNext
<1> DEFINE q == polls[p]
           range == SubSeq(chain, q.from + 1, LesserOf(q.to, Len(chain)))
           r == [q EXCEPT !.next = range]
<1>1. /\ q \in PollState /\ q.pc = "logs" /\ q.from < q.to /\ q.to <= q.safeHead
      /\ q.safeHead <= Len(chain) /\ q.from \in Nat /\ q.to \in Nat /\ q.safeHead \in Int
      /\ db \in Database
      /\ chain' = chain /\ scenario' = scenario /\ mined' = mined /\ settled' = settled
  BY DEF TypeOK, ShapeOK, getLogs, PollState
<1>2. chain \in Seq(Block) /\ Len(chain) \in Nat
  BY BlockFacts
<1>3. q.to <= Len(chain) /\ LesserOf(q.to, Len(chain)) = q.to
  BY <1>1, <1>2 DEF LesserOf
<1>4. /\ range \in Seq(Block) /\ Len(range) = q.to - (q.from + 1) + 1
      /\ \A i \in 1..Len(range) : range[i] = chain[q.from + 1 + i - 1]
  <2>1. q.from + 1 \in Nat \ {0} /\ q.from + 1 <= q.to
    BY <1>1
  <2>2. range = SubSeq(chain, q.from + 1, q.to)
    BY <1>3
  <2> HIDE DEF q, range
  <2>3. PICK m \in Nat \ {0}, n \in Nat : m = q.from + 1 /\ n = q.to /\ m <= n
    BY <1>1, <2>1
  <2>4. /\ SubSeq(chain, m, n) \in Seq(Block)
        /\ Len(SubSeq(chain, m, n)) = n - m + 1
        /\ \A i \in 1..Len(SubSeq(chain, m, n)) : SubSeq(chain, m, n)[i] = chain[m + i - 1]
    BY <1>2, <1>3, <2>3, PartOfSequence
  <2> QED BY <2>2, <2>3, <2>4
<1>5. NextLog(p, r, db)
  BY DEF getLogs
<1> HIDE DEF range
<1>6. /\ r \in PollState /\ r.from = q.from /\ r.to = q.to /\ r.safeHead = q.safeHead
      /\ r.next = range
  BY <1>1, <1>4 DEF PollState
<1> HIDE DEF r
<1>7. q.from + 1 \in Nat /\ q.from + 1 \in (r.from + 1)..(r.to + 1)
  BY <1>1, <1>6
<1>8. /\ Goes(p, db, q.from + 1) /\ TypesNext
      /\ \A o \in Polls \ {p} : polls[o].pc # "mark" /\ polls'[o] = polls[o]
  <2>1. /\ r.from = polls[p].from /\ r.to = polls[p].to /\ r.safeHead = polls[p].safeHead
        /\ r.to <= Len(chain)
    BY <1>3, <1>6
  <2>2. PICK at \in Nat : at = q.from + 1 /\ at \in (r.from + 1)..(r.to + 1)
    BY <1>7
  <2>3. Len(r.next) = r.to - at + 1 /\ \A i \in 1..Len(r.next) : r.next[i] = chain[at + i - 1]
    BY <1>4, <1>6, <2>2
  <2> HIDE DEF q
  <2>4. /\ Goes(p, db, at)
        /\ \A o \in Polls \ {p} : polls[o].pc # "mark" /\ polls'[o] = polls[o]
        /\ db' \in Database /\ indexer' \in Stages /\ polls' \in [Polls -> PollState]
    BY <1>1, <1>5, <1>6, <2>1, <2>2, <2>3, NextLogGoes
  <2> QED BY <1>1, <2>2, <2>4 DEF TypesNext
<1> QED BY <1>1, <1>8 DEF Asks, Alone

\* What is left after the first log of the range.
LEMMA RestSteps ==
  ASSUME TypeOK, ShapeOK, NEW p \in Polls, polls[p].pc \in {"enrich", "mark"},
         NEW d \in Database, NextLog(p, RestOf(polls[p]), d)
  PROVE  /\ Goes(p, d, At(polls[p]) + 1) /\ TypesNext
         /\ \A o \in Polls \ {p} : polls[o].pc # "mark" /\ polls'[o] = polls[o]
<1> DEFINE q == polls[p]
           rest == Tail(q.next)
           r == RestOf(q)
<1>1. /\ q \in PollState /\ q.from \in Nat /\ q.to \in Nat /\ q.to <= Len(chain)
      /\ At(q) \in (q.from + 1)..q.to
      /\ Len(q.next) = q.to - At(q) + 1
      /\ \A i \in 1..Len(q.next) : q.next[i] = chain[At(q) + i - 1]
  BY WindowFacts
<1>2. q.next \in Seq(Block)
  BY <1>1 DEF PollState
<1> HIDE DEF q
<1>3. PICK at \in Nat : at = At(q)
  BY <1>1
<1>4. Len(q.next) \in Nat /\ Len(q.next) > 0
  BY <1>1, <1>2, <1>3
<1>5. /\ rest \in Seq(Block) /\ Len(rest) = Len(q.next) - 1
      /\ \A i \in 1..Len(rest) : rest[i] = q.next[i + 1]
  BY <1>2, <1>4
<1>6. Len(rest) = q.to - (at + 1) + 1
  <2>1. PICK l \in Nat : l = Len(q.next)
    BY <1>4
  <2>2. PICK t \in Nat : t = q.to
    BY <1>1
  <2>3. l = t - at + 1 /\ Len(rest) = l - 1
    BY <1>1, <1>3, <1>5, <2>1, <2>2
  <2>4. l - 1 = t - (at + 1) + 1
    BY <2>3
  <2> QED BY <2>2, <2>3, <2>4
<1>7. \A i \in 1..Len(rest) : rest[i] = chain[at + 1 + i - 1]
  <2>1. ASSUME NEW i \in 1..Len(rest) PROVE rest[i] = chain[at + 1 + i - 1]
    <3>1. i + 1 \in 1..Len(q.next) /\ at + (i + 1) - 1 = at + 1 + i - 1
      BY <1>4, <1>5
    <3>2. q.next[i + 1] = chain[at + (i + 1) - 1]
      BY <1>1, <1>3, <3>1
    <3> QED BY <1>5, <3>1, <3>2
  <2> QED BY <2>1
<1> HIDE DEF rest
<1>8. /\ r \in PollState /\ r.from = q.from /\ r.to = q.to /\ r.safeHead = q.safeHead
      /\ r.next = rest
  BY <1>1, <1>5 DEF PollState, RestOf, rest
<1>9. NextLog(p, r, d)
  BY DEF q
<1> HIDE DEF r
<1>10. at + 1 \in Nat /\ at + 1 \in (r.from + 1)..(r.to + 1) /\ r.to <= Len(chain)
  BY <1>1, <1>3, <1>8
<1>11. r.from = polls[p].from /\ r.to = polls[p].to /\ r.safeHead = polls[p].safeHead
  BY <1>8 DEF q
<1> QED BY <1>3, <1>6, <1>7, <1>8, <1>9, <1>10, <1>11, NextLogGoes DEF TypesNext, q

LEMMA PollSteps ==
  ASSUME TypeOK, ShapeOK, NEW p \in Polls, Poll(p)
  PROVE  PollStep(p) /\ Alone(p) /\ TypesNext
<1> DEFINE q == polls[p]
<1>1. q \in PollState /\ db \in Database
  BY DEF TypeOK
<1>2. CASE startPoll(p)
  BY <1>2, StartSteps DEF PollStep
<1>3. CASE \E answer \in HashAnswers(polls[p].cursor) : checkHash(p, answer)
  BY <1>3, CheckSteps DEF PollStep
<1>4. CASE getLogs(p)
  BY <1>4, AskSteps DEF PollStep
<1>5. CASE blockTs(p)
  <2> DEFINE b == Head(q.next)
             pc == IF NeedsCall(b) THEN "enrich" ELSE "mark"
  <2>0. PICK ts \in Timestamps(b) :
            /\ db' = IF NeedsCall(b) THEN db ELSE applyLog(db, b, ts)
            /\ Continue(p, [q EXCEPT !.pc = pc, !.ts = ts])
    BY <1>5 DEF blockTs
  <2> DEFINE r == [q EXCEPT !.pc = pc, !.ts = ts]
  <2>1. /\ q.pc = "stamp" /\ Continue(p, r)
        /\ db' = IF NeedsCall(b) THEN db ELSE applyLog(db, b, ts)
        /\ chain' = chain /\ scenario' = scenario /\ mined' = mined /\ settled' = settled
    BY <1>5, <2>0 DEF blockTs
  <2>2. b = chain[At(q)] /\ b \in Block /\ b.log # NoLog
    BY <2>1, WindowFacts
  <2>3. r \in PollState /\ ts \in Nat /\ r.ts = ts
    <3>1. ts \in Nat
      BY <2>2, BlockFacts DEF Timestamps, Block
    <3> HIDE DEF b
    <3> QED BY <1>1, <3>1 DEF PollState
  <2>4. /\ polls'[p] = r /\ indexer' \in Stages /\ polls' \in [Polls -> PollState]
        /\ \A o \in Polls \ {p} : polls[o].pc # "mark" /\ polls'[o] = polls[o]
    <3> HIDE DEF r
    <3> QED BY <2>1, <2>3, ContinueTypes
  <2> HIDE DEF b
  <2>5. CASE NeedsCall(b)
    <3>1. Waits(p) /\ db' \in Database
      BY <1>1, <2>1, <2>2, <2>4, <2>5 DEF Waits
    <3> QED BY <2>1, <2>4, <3>1 DEF Alone, TypesNext, PollStep
  <2>6. CASE ~NeedsCall(b)
    <3>1. db' \in Database
      BY <1>1, <2>1, <2>2, <2>3, <2>6, ApplyLog
    <3>2. Applies(p)
      BY <2>1, <2>2, <2>4, <2>6 DEF Applies
    <3> QED BY <2>1, <2>4, <3>1, <3>2 DEF Alone, TypesNext, PollStep
  <2> QED BY <2>5, <2>6
<1>6. CASE failPoll(p)
  <2>1. /\ "rpc" \in scenario.faults /\ q.pc \in {"logs", "stamp"} /\ Continue(p, NoPoll)
        /\ db' = db /\ chain' = chain /\ scenario' = scenario /\ mined' = mined
        /\ settled' = settled
    BY <1>6 DEF failPoll
  <2>2. /\ polls'[p] = NoPoll /\ indexer' \in Stages /\ polls' \in [Polls -> PollState]
        /\ \A o \in Polls \ {p} : polls[o].pc # "mark" /\ polls'[o] = polls[o]
    BY <2>1, NoPollType, ContinueTypes
  <2> QED BY <1>1, <2>1, <2>2 DEF Alone, TypesNext, PollStep, GivesUp
<1>7. CASE enrich(p)
  <2> DEFINE b == Head(q.next)
             r == [q EXCEPT !.pc = "mark"]
  <2>1. /\ q.pc = "enrich" /\ Continue(p, r) /\ db' = applyLog(db, b, q.ts) /\ Enrichable(b)
        /\ chain' = chain /\ scenario' = scenario /\ mined' = mined /\ settled' = settled
    BY <1>7 DEF enrich
  <2>2. b = chain[At(q)] /\ b \in Block /\ b.log # NoLog
    BY <2>1, WindowFacts
  <2>3. r \in PollState /\ q.ts \in Nat /\ r.ts = q.ts /\ r = [q EXCEPT !.pc = "mark", !.ts = q.ts]
    BY <1>1 DEF PollState
  <2>4. /\ polls'[p] = r /\ indexer' \in Stages /\ polls' \in [Polls -> PollState]
        /\ \A o \in Polls \ {p} : polls[o].pc # "mark" /\ polls'[o] = polls[o]
    <3> HIDE DEF r
    <3> QED BY <2>1, <2>3, ContinueTypes
  <2> HIDE DEF b
  <2>5. db' \in Database
    BY <1>1, <2>1, <2>2, <2>3, ApplyLog
  <2>6. Applies(p)
    BY <2>1, <2>2, <2>3, <2>4 DEF Applies
  <2> QED BY <2>1, <2>4, <2>5, <2>6 DEF Alone, TypesNext, PollStep
<1>8. CASE skipLog(p)
  <2>1. /\ q.pc = "enrich" /\ Head(q.next).log.kind = "CapabilityRegistered"
        /\ NextLog(p, RestOf(q), db)
        /\ chain' = chain /\ scenario' = scenario /\ mined' = mined /\ settled' = settled
    BY <1>8 DEF skipLog
  <2>2. Head(q.next) = chain[At(q)]
    BY <2>1, WindowFacts
  <2>3. /\ Goes(p, db, At(q) + 1) /\ TypesNext
        /\ \A o \in Polls \ {p} : polls[o].pc # "mark" /\ polls'[o] = polls[o]
    BY <1>1, <2>1, RestSteps
  <2> QED BY <2>1, <2>2, <2>3 DEF Alone, PollStep, PassesOver
<1>9. CASE markLog(p)
  <2> DEFINE d == markIndexed(db, Head(q.next))
  <2>1. /\ q.pc = "mark" /\ NextLog(p, RestOf(q), d)
        /\ chain' = chain /\ scenario' = scenario /\ mined' = mined /\ settled' = settled
    BY <1>9 DEF markLog
  <2>2. Head(q.next) = chain[At(q)] /\ chain[At(q)] \in Block
    BY <2>1, WindowFacts
  <2>3. d = markIndexed(db, chain[At(q)]) /\ d \in Database
    BY <1>1, <2>2, MarkIndexed
  <2> HIDE DEF d
  <2>4. /\ Goes(p, d, At(q) + 1) /\ TypesNext
        /\ \A o \in Polls \ {p} : polls[o].pc # "mark" /\ polls'[o] = polls[o]
    BY <2>1, <2>3, RestSteps
  <2> QED BY <2>1, <2>3, <2>4 DEF Alone, PollStep, Finishes
<1>10. CASE \E answer \in HashAnswers(polls[p].to) : storeHash(p, answer)
  <2>1. PICK answer \in HashAnswers(q.to) : storeHash(p, answer)
    BY <1>10
  <2> DEFINE r == [q EXCEPT !.from = q.to, !.chunks = @ + 1]
             d == [db EXCEPT !.lastHash = answer]
  <2>2. /\ q.pc = "hash" /\ Proceed(p, r, d)
        /\ chain' = chain /\ scenario' = scenario /\ mined' = mined /\ settled' = settled
    BY <2>1 DEF storeHash
  <2>3. r \in PollState /\ r.from = q.to /\ r.safeHead = q.safeHead
    <3>1. q.chunks + 1 \in Nat /\ q.to \in Nat
      BY <1>1 DEF PollState
    <3>2. PICK n \in Nat : n = q.chunks + 1
      BY <3>1
    <3>3. r = [q EXCEPT !.from = q.to, !.chunks = n]
      BY <3>2
    <3> HIDE DEF r, q
    <3> QED BY <1>1, <3>1, <3>3 DEF PollState
  <2>4. answer \in Nat
    BY BlockFacts DEF HashAnswers, HashAt
  <2>5. d \in Database
    BY <1>1, <2>4 DEF Database
  <2>6. q.safeHead <= Len(chain)
    BY <2>2 DEF ShapeOK
  <2> HIDE DEF r, d
  <2>7. /\ Turns(p, q.safeHead, q.to, d) /\ TypesNext
        /\ \A o \in Polls \ {p} : polls[o].pc # "mark" /\ polls'[o] = polls[o]
    BY <2>2, <2>3, <2>5, <2>6, ProceedTurns DEF TypesNext
  <2>8. Closes(p)
    BY <2>2, <2>7 DEF Closes, d
  <2> QED BY <2>2, <2>7, <2>8 DEF Alone, PollStep
<1> QED BY <1>2, <1>3, <1>4, <1>5, <1>6, <1>7, <1>8, <1>9, <1>10 DEF Poll

-----------------------------------------------------------------------------
(* The invariant that every run keeps *)

\* Nothing is under way before the first poll, nor after the call before it has failed.
StartOK == indexer \in {"starting", "failed"} => \A p \in Polls : polls[p] = NoPoll

Base == TypeOK /\ ChainOK /\ DepthOK /\ ShapeOK /\ StartOK

LEMMA BaseInit == Init => Base
<1> SUFFICES ASSUME Init PROVE Base
  OBVIOUS
<1>1. TypeOK
  <2>1. << >> \in Seq(Block)
    OBVIOUS
  <2> QED BY <2>1, NoPollType, EmptyDbType DEF Init, TypeOK, Stages
<1>2. chain = << >> /\ Len(chain) = 0 /\ 1..Len(chain) = {} /\ 0..Len(chain) = {0}
  BY DEF Init
<1>3. ChainOK
  <2>1. StateAt(chain, 0) = Genesis
    BY DEF StateAt
  <2>2. \A n \in 0..Len(chain) : n = 0 /\ 0..n = {0}
    BY <1>2
  <2> QED BY <1>2, <2>1, <2>2, GenesisFacts, LaterIsOrder DEF ChainOK
<1>4. DepthOK
  BY <1>2, IndexerAssumption DEF DepthOK, Init
<1>5. ShapeOK /\ StartOK
  BY DEF ShapeOK, StartOK, Init, NoPoll
<1> QED BY <1>1, <1>3, <1>4, <1>5 DEF Base

\* Polls that the chain does not move under stay as they are.
LEMMA KeptShape ==
  ASSUME TypeOK, ShapeOK, NEW n \in Nat, chain' \in Seq(Block), n <= Len(chain),
         n <= Len(chain'), \A i \in 1..n : chain'[i] = chain[i],
         settled <= settled', settled \in Nat, settled' \in Nat, polls' = polls,
         scenario' = scenario,
         \A p \in Polls : polls[p].pc = "idle" \/ polls[p].safeHead <= n
  PROVE  ShapeOK'
<1>1. ASSUME NEW p \in Polls
      PROVE  LET q == polls[p]
             IN  /\ q.pc # "idle" => q.safeHead <= settled' /\ q.safeHead <= Len(chain')
                 /\ q.pc \in {"logs", "stamp", "enrich", "mark", "hash"} =>
                       q.from < q.to /\ q.to <= q.safeHead
                 /\ q.pc \in {"stamp", "enrich", "mark"} => Window(chain', q)
                 /\ q.pc = "enrich" => NeedsCall(chain'[At(q)]) /\ Stamps(q.ts, At(q))
  <2> DEFINE q == polls[p]
  <2>1. q \in PollState /\ q.safeHead \in Int /\ Len(chain') \in Nat
    BY DEF TypeOK, PollState
  <2>2. q.pc # "idle" => q.safeHead <= settled /\ q.safeHead <= n
    BY DEF ShapeOK
  <2>3. ASSUME q.pc \in {"stamp", "enrich", "mark"}
        PROVE  Window(chain', q) /\ chain'[At(q)] = chain[At(q)]
    <3>1. /\ q.from \in Nat /\ q.to \in Nat /\ q.to <= n
          /\ At(q) \in (q.from + 1)..q.to
          /\ Len(q.next) = q.to - At(q) + 1
          /\ \A i \in 1..Len(q.next) : q.next[i] = chain[At(q) + i - 1]
          /\ chain[At(q)].log # NoLog
      <4>1. /\ q.from \in Nat /\ q.to \in Nat
            /\ At(q) \in (q.from + 1)..q.to
            /\ Len(q.next) = q.to - At(q) + 1
            /\ \A i \in 1..Len(q.next) : q.next[i] = chain[At(q) + i - 1]
            /\ chain[At(q)].log # NoLog
        BY <2>3, WindowFacts
      <4>2. q.to <= q.safeHead /\ q.safeHead <= n
        BY <2>2, <2>3 DEF ShapeOK
      <4>3. q.to <= n
        BY <2>1, <4>1, <4>2
      <4> QED BY <4>1, <4>3
    <3>2. PICK at \in Nat : at = At(q)
      BY <3>1
    <3>3. \A i \in 1..Len(q.next) : at + i - 1 \in 1..n
      <4>1. PICK from \in Nat, to \in Nat :
               /\ from = q.from /\ to = q.to /\ to <= n /\ at \in (from + 1)..to
               /\ Len(q.next) = to - at + 1
        BY <3>1, <3>2
      <4>2. \A i \in 1..(to - at + 1) : at + i - 1 \in 1..n
        <5>1. PICK top \in Nat : top = n
          BY <2>1
        <5>2. \A i \in 1..(to - at + 1) : at + i - 1 \in 1..top
          <6>1. to <= top /\ at <= to /\ 1 <= at
            BY <4>1, <5>1
          <6> QED BY <6>1
        <5> QED BY <5>1, <5>2
      <4> QED BY <4>1, <4>2
    <3>4. at \in 1..n
      BY <3>1, <3>2
    <3> HIDE DEF q
    <3> QED BY <3>1, <3>2, <3>3, <3>4 DEF Window
  <2>4. q.pc = "enrich" => NeedsCall(chain[At(q)]) /\ Stamps(q.ts, At(q))
    BY DEF ShapeOK
  <2>5. q.pc \in {"logs", "stamp", "enrich", "mark", "hash"} => q.from < q.to /\ q.to <= q.safeHead
    BY DEF ShapeOK
  <2> HIDE DEF q
  <2> QED BY <2>1, <2>2, <2>3, <2>4, <2>5 DEF q
<1>2. \A p, o \in Polls : polls[p].pc = "mark" /\ polls[o].pc = "mark" => p = o
  BY DEF ShapeOK
<1>3. \A ts, m : Stamps(ts, m) => Stamps(ts, m)'
  BY DEF Stamps
<1> QED BY <1>1, <1>2, <1>3 DEF ShapeOK, Stamps

LEMMA MineKeepsBase ==
  ASSUME Base, Mine
  PROVE  Base'
<1>1. TypeOK /\ ChainOK /\ DepthOK /\ ShapeOK /\ StartOK
  BY DEF Base
<1>2. /\ Len(chain') = Len(chain) + 1 /\ chain' \in Seq(Block) /\ ChainOK' /\ DepthOK'
      /\ \A n \in 1..Len(chain) : chain'[n] = chain[n]
  BY <1>1, MineStep
<1>3. /\ mined' = mined + 1 /\ scenario' = scenario /\ restarts' = restarts /\ db' = db
      /\ indexer' = indexer /\ polls' = polls
      /\ settled' = IF Len(chain) + 1 - CONFIRMATIONS > settled
                    THEN Len(chain) + 1 - CONFIRMATIONS ELSE settled
  BY DEF Mine
<1>4. settled \in Nat /\ settled' \in Nat /\ settled <= settled' /\ Len(chain) \in Nat
  BY <1>1, <1>3, BlockFacts, IndexerAssumption DEF TypeOK
<1>5. TypeOK'
  BY <1>1, <1>2, <1>3, <1>4 DEF TypeOK
<1>6. \A p \in Polls : polls[p].pc = "idle" \/ polls[p].safeHead <= Len(chain)
  BY <1>1 DEF ShapeOK
<1>7. ShapeOK' /\ StartOK'
  <2>1. ShapeOK'
    BY <1>1, <1>2, <1>3, <1>4, <1>6, KeptShape
  <2> QED BY <1>1, <1>3, <2>1 DEF StartOK
<1> QED BY <1>2, <1>5, <1>7 DEF Base

LEMMA ReorganiseKeepsBase ==
  ASSUME Base, NEW keep \in 0..MaxMined, Reorganise(keep)
  PROVE  Base'
<1>1. TypeOK /\ ChainOK /\ DepthOK /\ ShapeOK /\ StartOK
  BY DEF Base
<1>2. /\ keep < Len(chain) /\ Len(chain') = keep /\ chain' \in Seq(Block) /\ ChainOK' /\ DepthOK'
      /\ \A n \in 1..keep : chain'[n] = chain[n]
      /\ keep >= settled \/ \A p \in Polls : polls[p].pc = "idle"
  BY <1>1, ReorganiseStep
<1>3. /\ mined' = mined /\ scenario' = scenario /\ restarts' = restarts /\ db' = db
      /\ indexer' = indexer /\ polls' = polls /\ settled' = settled
  BY DEF Reorganise
<1>4. TypeOK'
  BY <1>1, <1>2, <1>3 DEF TypeOK
<1>5. ASSUME NEW p \in Polls PROVE polls[p].pc = "idle" \/ polls[p].safeHead <= keep
  <2>1. polls[p].safeHead \in Int /\ settled \in Nat
    BY <1>1 DEF TypeOK, PollState
  <2>2. polls[p].pc # "idle" => polls[p].safeHead <= settled
    BY <1>1 DEF ShapeOK
  <2> QED BY <1>2, <2>1, <2>2
<1>6. keep \in Nat /\ keep <= Len(chain) /\ settled \in Nat /\ settled <= settled
  BY <1>1, <1>2, BlockFacts DEF TypeOK
<1>7. ShapeOK' /\ StartOK'
  <2>1. ShapeOK'
    BY <1>1, <1>2, <1>3, <1>5, <1>6, KeptShape
  <2> QED BY <1>1, <1>3, <2>1 DEF StartOK
<1> QED BY <1>2, <1>4, <1>7 DEF Base

LEMMA StampFacts ==
  ASSUME TypeOK, ChainOK, ShapeOK, NEW p \in Polls, polls[p].pc = "stamp",
         NEW ts \in Timestamps(chain[At(polls[p])])
  PROVE  ts \in Nat /\ Stamps(ts, At(polls[p]))
<1>1. /\ polls[p].from \in Nat /\ polls[p].to \in Nat /\ polls[p].to <= Len(chain)
      /\ At(polls[p]) \in (polls[p].from + 1)..polls[p].to
  BY WindowFacts
<1>2. PICK n \in 1..Len(chain) : n = At(polls[p])
  BY <1>1, BlockFacts
<1>3. chain[n].number = n
  BY <1>2, BlockFacts DEF ChainOK
<1>4. ts = n \/ ("null" \in scenario.faults /\ ts = Len(chain))
  BY <1>2, <1>3 DEF Timestamps
<1> QED BY <1>2, <1>4, BlockFacts DEF Stamps

LEMMA ContinuesIndexer ==
  ASSUME NEW p \in Polls, Poll(p)
  PROVE  indexer' \in {indexer, "polling"}
BY DEF Poll, startPoll, checkHash, getLogs, blockTs, failPoll, enrich, skipLog, markLog, storeHash,
       Proceed, NextLog, Continue

LEMMA PollKeepsBase ==
  ASSUME Base, NEW p \in Polls, Poll(p)
  PROVE  Base' /\ PollStep(p) /\ Alone(p)
<1>1. TypeOK /\ ChainOK /\ DepthOK /\ ShapeOK /\ StartOK
  BY DEF Base
<1>2. PollStep(p) /\ Alone(p) /\ TypesNext
  BY <1>1, PollSteps
<1>3. /\ chain' = chain /\ scenario' = scenario /\ mined' = mined /\ settled' = settled
      /\ \A o \in Polls \ {p} : polls[o].pc # "mark" /\ polls'[o] = polls[o]
  BY <1>2 DEF Alone
<1>4. restarts' = restarts
  BY DEF Poll, startPoll, checkHash, getLogs, blockTs, failPoll, enrich, skipLog, markLog, storeHash
<1>5. TypeOK' /\ ChainOK' /\ DepthOK'
  <2>1. TypeOK'
    BY <1>1, <1>2, <1>3, <1>4 DEF TypeOK, TypesNext
  <2>2. ChainOK' /\ DepthOK'
    BY <1>1, <1>3 DEF ChainOK, DepthOK
  <2> QED BY <2>1, <2>2
<1> DEFINE q == polls[p]
           r == polls'[p]
           Good(s) == /\ s.pc # "idle" => s.safeHead <= settled /\ s.safeHead <= Len(chain)
                      /\ s.pc \in {"logs", "stamp", "enrich", "mark", "hash"} =>
                            s.from < s.to /\ s.to <= s.safeHead
                      /\ s.pc \in {"stamp", "enrich", "mark"} => Window(chain, s)
                      /\ s.pc = "enrich" => NeedsCall(chain[At(s)]) /\ Stamps(s.ts, At(s))
<1>6. \A o \in Polls : Good(polls[o])
  BY <1>1 DEF ShapeOK
<1>7. Len(chain) - CONFIRMATIONS <= settled /\ Len(chain) - CONFIRMATIONS <= Len(chain)
  BY <1>1, BlockFacts, IndexerAssumption DEF DepthOK
<1>8. ASSUME NEW safeHead, NEW from, NEW d, Turns(p, safeHead, from, d),
             safeHead <= settled, safeHead <= Len(chain)
      PROVE  Good(r)
  <2>1. CASE r = NoPoll
    <3>1. r.pc = "idle"
      BY <2>1 DEF NoPoll
    <3> HIDE DEF r
    <3> QED BY <3>1
  <2>2. CASE r.pc = "logs" /\ r.safeHead = safeHead /\ r.from < r.to /\ r.to <= safeHead
    <3> HIDE DEF r
    <3> QED BY <1>8, <2>2
  <2>3. \/ r = NoPoll
        \/ r.pc = "logs" /\ r.safeHead = safeHead /\ r.from < r.to /\ r.to <= safeHead
    BY <1>8 DEF Turns
  <2> HIDE DEF Good, r
  <2> QED BY <2>1, <2>2, <2>3
<1>9. \A at, d : Goes(p, d, at) /\ q.pc \in {"logs", "enrich", "mark"} => Good(r)
  <2>1. Good(q)
    BY <1>6
  <2> QED BY <2>1 DEF Goes
<1>10. \A pc, ts : r = [q EXCEPT !.pc = pc, !.ts = ts] =>
          /\ r.pc = pc /\ r.ts = ts /\ r.safeHead = q.safeHead /\ r.from = q.from
          /\ r.to = q.to /\ r.next = q.next
  <2>1. q \in PollState
    BY <1>1 DEF TypeOK
  <2> QED BY <2>1 DEF PollState
<1>11. Good(r)
  <2> HIDE DEF r
  <2>1. Good(q)
    BY <1>6
  <2>2. CASE Starts(p)
    BY <1>7, <2>2 DEF Starts, r
  <2>3. CASE StartsAfresh(p)
    <3> HIDE DEF Good
    <3> QED BY <1>7, <1>8, <2>3 DEF StartsAfresh
  <2>4. CASE Rebuilds(p) \/ Resumes(p)
    <3> HIDE DEF Good
    <3>1. q.safeHead <= settled /\ q.safeHead <= Len(chain)
      BY <2>1, <2>4 DEF Good, Rebuilds, Resumes
    <3> QED BY <1>8, <2>4, <3>1 DEF Rebuilds, Resumes
  <2>5. CASE Closes(p)
    <3>1. q.safeHead <= settled /\ q.safeHead <= Len(chain)
      BY <2>1, <2>5 DEF Closes
    <3> HIDE DEF Good
    <3> QED BY <1>8, <2>5, <3>1 DEF Closes
  <2>6. CASE Asks(p) \/ PassesOver(p) \/ Finishes(p)
    <3> HIDE DEF Good
    <3> QED BY <1>9, <2>6 DEF Asks, PassesOver, Finishes
  <2>7. CASE GivesUp(p)
    BY <2>7 DEF GivesUp, NoPoll, r
  <2>8. CASE Waits(p)
    <3>1. PICK ts \in Timestamps(chain[At(q)]) : r = [q EXCEPT !.pc = "enrich", !.ts = ts]
      BY <2>8 DEF Waits, r
    <3>2. /\ r.pc = "enrich" /\ r.ts = ts /\ r.safeHead = q.safeHead /\ r.from = q.from
          /\ r.to = q.to /\ r.next = q.next
      BY <1>10, <3>1
    <3>3. At(r) = At(q)
      BY <3>2 DEF At
    <3>4. q.pc = "stamp" /\ NeedsCall(chain[At(q)])
      BY <2>8 DEF Waits
    <3>5. Stamps(r.ts, At(r))
      BY <1>1, <3>1, <3>2, <3>3, <3>4, StampFacts
    <3> QED BY <2>1, <3>2, <3>3, <3>4, <3>5 DEF Window
  <2>9. CASE Applies(p)
    <3>1. q.pc \in {"stamp", "enrich"} /\ r = [q EXCEPT !.pc = "mark", !.ts = r.ts]
      BY <2>9 DEF Applies, r
    <3>2. /\ r.pc = "mark" /\ r.safeHead = q.safeHead /\ r.from = q.from /\ r.to = q.to
          /\ r.next = q.next
      BY <1>10, <3>1
    <3>3. At(r) = At(q)
      BY <3>2 DEF At
    <3> QED BY <2>1, <3>1, <3>2, <3>3 DEF Window
  <2> QED BY <1>2, <2>2, <2>3, <2>4, <2>5, <2>6, <2>7, <2>8, <2>9 DEF PollStep
<1>12. \A o \in Polls : Good(polls'[o])
  BY <1>3, <1>6, <1>11
<1>13. \A i, j \in Polls : polls'[i].pc = "mark" /\ polls'[j].pc = "mark" => i = j
  <2>1. \A o \in Polls \ {p} : polls'[o].pc # "mark"
    BY <1>3
  <2> QED BY <2>1
<1>14. ShapeOK'
  <2> HIDE DEF r
  <2> QED BY <1>3, <1>12, <1>13 DEF ShapeOK, Stamps
<1>15. indexer \notin {"starting", "failed"} /\ indexer' \in {indexer, "polling"}
  <2>1. indexer \notin {"starting", "failed"}
    <3>1. CASE startPoll(p)
      BY <3>1 DEF startPoll
    <3>2. CASE polls[p].pc # "idle"
      BY <1>1, <3>2 DEF StartOK, NoPoll
    <3>3. startPoll(p) \/ polls[p].pc # "idle"
      BY DEF Poll, checkHash, getLogs, blockTs, failPoll, enrich, skipLog, markLog, storeHash
    <3> QED BY <3>1, <3>2, <3>3
  <2>2. indexer' \in {indexer, "polling"}
    BY ContinuesIndexer
  <2> QED BY <2>1, <2>2
<1> QED BY <1>2, <1>5, <1>14, <1>15 DEF Base, StartOK

LEMMA RestartKeepsBase ==
  ASSUME Base, restart
  PROVE  Base'
<1>1. TypeOK /\ ChainOK /\ DepthOK /\ ShapeOK /\ StartOK
  BY DEF Base
<1>2. /\ chain' = chain /\ scenario' = scenario /\ mined' = mined /\ settled' = settled
      /\ db' = db /\ restarts' \in {restarts, restarts + 1} /\ indexer' = "starting"
      /\ polls' = [p \in Polls |-> NoPoll]
  BY DEF restart
<1>3. TypeOK' /\ ChainOK' /\ DepthOK'
  <2>1. TypeOK'
    <3>1. restarts' \in Nat /\ polls' \in [Polls -> PollState]
      BY <1>1, <1>2, NoPollType DEF TypeOK
    <3> QED BY <1>1, <1>2, <3>1 DEF TypeOK, Stages
  <2>2. ChainOK' /\ DepthOK'
    BY <1>1, <1>2 DEF ChainOK, DepthOK
  <2> QED BY <2>1, <2>2
<1>4. \A p \in Polls : polls'[p].pc = "idle"
  BY <1>2 DEF NoPoll
<1>5. ShapeOK' /\ StartOK'
  BY <1>2, <1>4 DEF ShapeOK, StartOK
<1> QED BY <1>3, <1>5 DEF Base

LEMMA StartKeepsBase ==
  ASSUME Base, startIndexer
  PROVE  Base'
<1>1. /\ chain' = chain /\ scenario' = scenario /\ mined' = mined /\ settled' = settled
      /\ db' = db /\ restarts' = restarts /\ polls' = polls
      /\ indexer = "starting" /\ indexer' \in {"first", "failed"}
  BY DEF startIndexer
<1>2. TypeOK' /\ ChainOK' /\ DepthOK'
  BY <1>1 DEF Base, TypeOK, Stages, ChainOK, DepthOK
<1>3. ShapeOK' /\ StartOK'
  BY <1>1 DEF Base, ShapeOK, Stamps, StartOK
<1> QED BY <1>2, <1>3 DEF Base

LEMMA BaseStep == Base /\ [Next]_vars => Base'
<1> SUFFICES ASSUME Base, [Next]_vars PROVE Base'
  OBVIOUS
<1>1. CASE Mine
  BY <1>1, MineKeepsBase
<1>2. CASE \E keep \in 0..MaxMined : Reorganise(keep)
  BY <1>2, ReorganiseKeepsBase
<1>3. CASE \E p \in Polls : Poll(p)
  BY <1>3, PollKeepsBase
<1>4. CASE restart
  BY <1>4, RestartKeepsBase
<1>5. CASE startIndexer
  BY <1>5, StartKeepsBase
<1>6. CASE UNCHANGED vars
  BY <1>6 DEF vars, Base, TypeOK, ChainOK, DepthOK, ShapeOK, Stamps, StartOK
<1> QED BY <1>1, <1>2, <1>3, <1>4, <1>5, <1>6 DEF Next

THEOREM IndexerTypeCorrect == Spec => []TypeOK
<1>1. Base => TypeOK
  BY DEF Base
<1> QED BY BaseInit, BaseStep, <1>1, PTL DEF Spec

-----------------------------------------------------------------------------
(* What is applied, and the alerts that it raised *)

LEMMA TurnEffect ==
  ASSUME TypeOK, NEW p \in Polls, NEW safeHead, NEW from, NEW d \in Database,
         Turns(p, safeHead, from, d)
  PROVE  /\ db' \in Database
         /\ KeepsTables(d, db') /\ Marks(db') = Marks(d) /\ polls'[p].pc \in {"idle", "logs"}
         /\ db'.lastBlock = d.lastBlock /\ db'.lastHash = d.lastHash
         /\ \A m \in db'.forgotten : m \in d.forgotten \/ m.block < d.lastBlock
<1>1. CASE db' = d
  <2>1. KeepsTables(d, db') /\ Marks(db') = Marks(d) /\ db'.lastBlock = d.lastBlock
        /\ db'.lastHash = d.lastHash /\ \A m \in db'.forgotten : m \in d.forgotten
    BY <1>1 DEF KeepsTables, KeepsReputation, KeepsAlerts
  <2> QED BY <1>1, <2>1 DEF Turns, NoPoll
<1>2. CASE db' = pruneIndexedLogs(d, d.lastBlock, scenario.markerBlocks)
  <2>1. d.lastBlock \in Nat /\ scenario.markerBlocks \in Nat
    BY IndexerAssumption DEF TypeOK, Database
  <2>2. /\ db' \in Database /\ KeepsTables(d, db') /\ Marks(db') = Marks(d)
        /\ db'.lastBlock = d.lastBlock /\ db'.lastHash = d.lastHash
        /\ \A m \in db'.forgotten : m \in d.forgotten \/ m.block < d.lastBlock
    <3> DEFINE n == d.lastBlock
               keep == scenario.markerBlocks
    <3>1. db' = pruneIndexedLogs(d, n, keep) /\ n \in Nat /\ keep \in Nat
      BY <1>2, <2>1
    <3> HIDE DEF n, keep
    <3>2. /\ db' \in Database /\ KeepsTables(d, db') /\ Marks(db') = Marks(d)
          /\ db'.lastBlock = d.lastBlock /\ db'.lastHash = d.lastHash
          /\ \A m \in db'.forgotten : m \in d.forgotten \/ m.block < n
      BY <3>1, PruneIndexedLogs
    <3> QED BY <3>2 DEF n
  <2> QED BY <2>2 DEF Turns, NoPoll
<1> QED BY <1>1, <1>2 DEF Turns

LEMMA GoEffect ==
  ASSUME TypeOK, NEW p \in Polls, NEW at, NEW d \in Database, Goes(p, d, at)
  PROVE  /\ KeepsTables(d, db') /\ Marks(db') = Marks(d) /\ polls'[p].pc \in {"hash", "stamp"}
         /\ db'.forgotten = d.forgotten /\ db'.lastHash = d.lastHash
         /\ db'.lastBlock = IF polls'[p].pc = "hash" THEN polls[p].to ELSE d.lastBlock
<1>1. CASE polls'[p].pc = "hash" /\ db' = [d EXCEPT !.lastBlock = polls[p].to]
  <2>1. /\ db'.lastBlock = polls[p].to /\ db'.lastHash = d.lastHash
        /\ db'.forgotten = d.forgotten /\ db'.indexedLogs = d.indexedLogs
        /\ KeepsTables(d, db')
    BY <1>1 DEF Database, KeepsTables, KeepsReputation, KeepsAlerts
  <2> QED BY <1>1, <2>1 DEF Marks
<1>2. CASE polls'[p].pc = "stamp" /\ db' = d
  BY <1>2 DEF KeepsTables, KeepsReputation, KeepsAlerts
<1> QED BY <1>1, <1>2 DEF Goes

LEMMA AppliedIs ==
  TypeOK /\ ShapeOK =>
    \A h : h \in Applied <=> \/ \E m \in Marks(db) : h = m.hash
                             \/ \E p \in Polls : /\ polls[p].pc = "mark"
                                                 /\ h = chain[At(polls[p])].hash
<1>1. TypeOK /\ ShapeOK =>
        \A p \in Polls : polls[p].pc = "mark" => Head(polls[p].next) = chain[At(polls[p])]
  BY WindowFacts
<1> QED BY <1>1 DEF Applied, Marks

LEMMA AppliedNext ==
  (TypeOK /\ ShapeOK =>
    \A h : h \in Applied <=> \/ \E m \in Marks(db) : h = m.hash
                             \/ \E p \in Polls : /\ polls[p].pc = "mark"
                                                 /\ h = chain[At(polls[p])].hash)'
BY AppliedIs, PTL

\* The steps of a poll by what they do to what is applied.
LEMMA PollEffects ==
  ASSUME Base, NEW p \in Polls, Poll(p)
  PROVE  \/ /\ KeepsTables(db, db') /\ Marks(db') = Marks(db) /\ Applied' = Applied
            /\ \/ Starts(p) \/ StartsAfresh(p) \/ Resumes(p) \/ Asks(p)
               \/ Waits(p) \/ GivesUp(p) \/ PassesOver(p) \/ Closes(p)
         \/ /\ Rebuilds(p)
            /\ KeepsTables(resetIndexerDerived(db, polls[p].cursor), db')
            /\ Marks(db') = {} /\ Applied' = {}
         \/ /\ Applies(p) /\ Marks(db') = Marks(db)
            /\ Applied' = Applied \cup {chain[At(polls[p])].hash}
         \/ /\ Finishes(p) /\ KeepsTables(db, db') /\ Applied' = Applied
            /\ Marks(db') = Marks(db) \cup
                  {[hash |-> chain[At(polls[p])].hash, block |-> chain[At(polls[p])].number]}
<1> DEFINE q == polls[p]
           r == polls'[p]
<1>1. TypeOK /\ ShapeOK /\ PollStep(p) /\ Alone(p) /\ TypeOK' /\ ShapeOK' /\ db \in Database
      /\ q \in PollState
  BY PollKeepsBase DEF Base, TypeOK
<1>2. chain' = chain /\ \A o \in Polls \ {p} : polls[o].pc # "mark" /\ polls'[o] = polls[o]
  BY <1>1 DEF Alone
<1>3. \A h : h \in Applied <=> \/ \E m \in Marks(db) : h = m.hash
                               \/ q.pc = "mark" /\ h = chain[At(q)].hash
  BY <1>1, <1>2, AppliedIs
<1>4. \A h : h \in Applied' <=> \/ \E m \in Marks(db') : h = m.hash
                                \/ r.pc = "mark" /\ h = chain[At(r)].hash
  BY <1>1, <1>2, AppliedNext
<1>5. Marks(db') = Marks(db) /\ q.pc # "mark" /\ r.pc # "mark" => Applied' = Applied
  BY <1>3, <1>4
<1> DEFINE Quiet == /\ KeepsTables(db, db') /\ Marks(db') = Marks(db)
                    /\ q.pc # "mark" /\ r.pc # "mark"
<1> HIDE DEF r
<1>6. CASE Starts(p) \/ Waits(p) \/ GivesUp(p)
  <2>1. db' = db /\ q.pc # "mark"
    BY <1>6 DEF Starts, Waits, GivesUp
  <2>2. r.pc # "mark"
    <3>1. CASE Starts(p) \/ GivesUp(p)
      BY <3>1 DEF Starts, GivesUp, NoPoll, r
    <3>2. CASE Waits(p)
      <4>1. PICK ts : r = [q EXCEPT !.pc = "enrich", !.ts = ts]
        BY <3>2 DEF Waits, r
      <4> QED BY <1>1, <4>1 DEF PollState
    <3> QED BY <1>6, <3>1, <3>2
  <2>3. Quiet
    BY <2>1, <2>2 DEF KeepsTables, KeepsReputation, KeepsAlerts
  <2> QED BY <1>5, <1>6, <2>3
<1>7. CASE StartsAfresh(p) \/ Resumes(p)
  <2>1. PICK safeHead, from : Turns(p, safeHead, from, db)
    BY <1>7 DEF StartsAfresh, Resumes
  <2>2. Quiet
    BY <1>1, <1>7, <2>1, TurnEffect DEF StartsAfresh, Resumes, r
  <2> QED BY <1>5, <1>7, <2>2
<1>8. CASE Closes(p)
  <2>1. PICK answer \in HashAnswers(q.to) : Turns(p, q.safeHead, q.to, [db EXCEPT !.lastHash = answer])
    BY <1>8 DEF Closes
  <2> DEFINE d == [db EXCEPT !.lastHash = answer]
  <2>2. answer \in Nat
    BY <1>1, BlockFacts DEF HashAnswers, HashAt
  <2>3. d \in Database /\ KeepsTables(db, d) /\ Marks(d) = Marks(db)
    BY <1>1, <2>2 DEF Database, KeepsTables, KeepsReputation, KeepsAlerts, Marks
  <2> HIDE DEF d
  <2>4. KeepsTables(d, db') /\ Marks(db') = Marks(d) /\ r.pc \in {"idle", "logs"}
    BY <1>1, <2>1, <2>3, TurnEffect DEF d, r
  <2>5. Quiet
    BY <1>8, <2>3, <2>4 DEF Closes, KeepsTables, KeepsReputation, KeepsAlerts
  <2> QED BY <1>5, <1>8, <2>5
<1>9. CASE Asks(p) \/ PassesOver(p)
  <2>1. PICK at : Goes(p, db, at)
    BY <1>9 DEF Asks, PassesOver
  <2>2. Quiet
    BY <1>1, <1>9, <2>1, GoEffect DEF Asks, PassesOver, r
  <2> QED BY <1>5, <1>9, <2>2
<1>10. CASE Rebuilds(p)
  <2> DEFINE d == resetIndexerDerived(db, q.cursor)
  <2>1. q.cursor \in Nat /\ q.pc = "check" /\ Turns(p, q.safeHead, 0, d)
    BY <1>1, <1>10 DEF Rebuilds, PollState
  <2>2. d \in Database /\ Marks(d) = {}
    BY <1>1, <2>1, ResetIndexerDerived
  <2> HIDE DEF d
  <2>3. KeepsTables(d, db') /\ Marks(db') = {} /\ r.pc # "mark"
    BY <1>1, <2>1, <2>2, TurnEffect DEF r
  <2>4. Applied' = {}
    BY <1>4, <2>3
  <2> QED BY <1>10, <2>3, <2>4 DEF d
<1>11. CASE Applies(p)
  <2> DEFINE b == chain[At(q)]
  <2>1. /\ q.pc \in {"stamp", "enrich"} /\ r = [q EXCEPT !.pc = "mark", !.ts = r.ts]
        /\ db' = applyLog(db, b, r.ts)
    BY <1>11 DEF Applies, r
  <2>2. b \in Block /\ b.log # NoLog /\ r.ts \in Nat
    <3>1. r \in PollState
      BY <1>1 DEF TypeOK, r
    <3> QED BY <1>1, <2>1, <3>1, WindowFacts DEF PollState
  <2> HIDE DEF b
  <2>3. KeepsMarks(db, db')
    BY <1>1, <2>1, <2>2, ApplyLog
  <2>4. Marks(db') = Marks(db)
    BY <2>3 DEF KeepsMarks, Marks
  <2>5. r.pc = "mark" /\ At(r) = At(q)
    BY <1>1, <2>1 DEF At, PollState
  <2>6. Applied' = Applied \cup {b.hash}
    BY <1>3, <1>4, <2>1, <2>4, <2>5 DEF b
  <2> QED BY <1>11, <2>4, <2>6 DEF b
<1>12. CASE Finishes(p)
  <2> DEFINE b == chain[At(q)]
             d == markIndexed(db, b)
  <2>1. q.pc = "mark" /\ Goes(p, d, At(q) + 1)
    BY <1>12 DEF Finishes
  <2>2. b \in Block
    BY <1>1, <2>1, WindowFacts
  <2>3. /\ d \in Database /\ KeepsTables(db, d)
        /\ Marks(d) = Marks(db) \cup {[hash |-> b.hash, block |-> b.number]}
    BY <1>1, <2>2, MarkIndexed
  <2> HIDE DEF d
  <2>4. KeepsTables(d, db') /\ Marks(db') = Marks(d) /\ r.pc # "mark"
    BY <1>1, <2>1, <2>3, GoEffect DEF r
  <2>5. KeepsTables(db, db')
    BY <2>3, <2>4 DEF KeepsTables, KeepsReputation, KeepsAlerts
  <2>6. Applied' = Applied
    <3>1. \A h : (\E m \in Marks(db') : h = m.hash) <=> (\E m \in Marks(db) : h = m.hash) \/ h = b.hash
      <4>1. PICK mark : mark = [hash |-> b.hash, block |-> b.number]
        OBVIOUS
      <4>2. mark.hash = b.hash
        BY <4>1
      <4>3. Marks(db') = Marks(db) \cup {mark}
        BY <2>3, <2>4, <4>1
      <4> QED BY <4>2, <4>3
    <3> QED BY <1>3, <1>4, <2>1, <2>4, <3>1 DEF b
  <2> QED BY <1>12, <2>3, <2>4, <2>5, <2>6 DEF b
<1> QED BY <1>1, <1>6, <1>7, <1>8, <1>9, <1>10, <1>11, <1>12 DEF PollStep

\* Unless the chain is reorganised below a settled block, all that is applied is settled.
MarksOK ==
    \A m \in Marks(db) :
        /\ m.block \in 1..Len(chain) /\ m.block <= settled
        /\ m.hash = chain[m.block].hash /\ chain[m.block].log # NoLog

AlertsOK ==
    \A row \in db.alerts :
        /\ row.block \in 1..Len(chain) /\ row.block <= settled
        /\ CallsForAlert(row.block) /\ TellsOf(row, row.block)

\* What is applied was mined, and what of it is on the chain has raised its alert.
ToldOK ==
    /\ \A h \in Applied : h \in Nat /\ h <= mined
    /\ \A row, other \in db.alerts : SameAlert(row, other) => row = other
    /\ \A n \in 1..Len(chain) :
          CallsForAlert(n) /\ chain[n].hash \in Applied => \E row \in db.alerts : TellsOf(row, n)

NoReorg == "reorg" \notin scenario.faults

LEMMA CanonicalMarks ==
  ASSUME Base, MarksOK
  PROVE  /\ \A h \in Applied : \E n \in 1..Len(chain) :
                n <= settled /\ h = chain[n].hash /\ chain[n].log # NoLog
         /\ Canonical
<1>1. TypeOK /\ ShapeOK
  BY DEF Base
<1>2. ASSUME NEW h \in Applied
      PROVE  \E n \in 1..Len(chain) : n <= settled /\ h = chain[n].hash /\ chain[n].log # NoLog
  <2>1. CASE \E m \in Marks(db) : h = m.hash
    BY <2>1 DEF MarksOK
  <2>2. CASE \E p \in Polls : polls[p].pc = "mark" /\ h = chain[At(polls[p])].hash
    <3>1. PICK p \in Polls : polls[p].pc = "mark" /\ h = chain[At(polls[p])].hash
      BY <2>2
    <3> DEFINE q == polls[p]
    <3>2. /\ q.to \in Nat /\ q.from \in Nat /\ At(q) \in (q.from + 1)..q.to
          /\ At(q) \in 1..Len(chain) /\ chain[At(q)].log # NoLog
      BY <1>1, <3>1, WindowFacts
    <3>3. q.to <= q.safeHead /\ q.safeHead <= settled /\ q.safeHead \in Int /\ settled \in Int
      BY <1>1, <3>1 DEF ShapeOK, TypeOK, PollState
    <3>4. At(q) <= settled
      BY <3>2, <3>3
    <3> QED BY <3>1, <3>2, <3>4
  <2> QED BY <1>1, <2>1, <2>2, AppliedIs
<1> QED BY <1>2 DEF Canonical

\* The alerts stay in step with a chain that is the same up to the settled block.
LEMMA KeptMarks ==
  ASSUME Base, ChainOK', MarksOK, AlertsOK, chain' \in Seq(Block),
         \A n \in 1..Len(chain) : n <= settled => n <= Len(chain') /\ chain'[n] = chain[n],
         settled <= settled', settled' \in Nat, db' = db
  PROVE  MarksOK' /\ AlertsOK'
<1>1. settled \in Nat /\ Len(chain) \in Nat /\ Len(chain') \in Nat
  BY BlockFacts DEF Base, TypeOK
<1>2. ASSUME NEW n \in 1..Len(chain), n <= settled
      PROVE  n \in 1..Len(chain') /\ n <= settled' /\ chain'[n] = chain[n]
  BY <1>1, <1>2
<1>3. MarksOK'
  <2>1. Marks(db') = Marks(db)
    OBVIOUS
  <2> QED BY <1>2, <2>1 DEF MarksOK
<1>4. \A row \in db'.alerts :
          /\ row.block \in 1..Len(chain') /\ row.block <= settled'
          /\ CallsForAlert(row.block)' /\ TellsOf(row, row.block)'
  BY <1>2 DEF AlertsOK, CallsForAlert, TellsOf
<1> QED BY <1>3, <1>4 DEF AlertsOK

\* The block of the log that a poll has read the timestamp of, or is about to.
LEMMA HeadFacts ==
  ASSUME Base, NEW p \in Polls, polls[p].pc \in {"stamp", "enrich", "mark"}
  PROVE  LET at == At(polls[p])
             b == chain[at]
         IN  /\ at \in 1..Len(chain) /\ at <= settled /\ b \in Block /\ b.log # NoLog
             /\ b.number = at /\ b.hash \in Nat /\ b.hash <= mined
<1> DEFINE q == polls[p]
           at == At(q)
           b == chain[at]
<1>1. TypeOK /\ ShapeOK /\ ChainOK /\ settled \in Nat
  BY DEF Base, TypeOK
<1>2. /\ q.to \in Nat /\ q.from \in Nat /\ at \in (q.from + 1)..q.to
      /\ at \in 1..Len(chain) /\ b \in Block /\ b.log # NoLog
  BY <1>1, WindowFacts
<1>3. q.to <= q.safeHead /\ q.safeHead <= settled /\ q.safeHead \in Int
  BY <1>1 DEF ShapeOK, TypeOK, PollState
<1>4. b.number = at /\ b.hash <= mined /\ b.hash \in Nat
  BY <1>1, <1>2, BlockFacts DEF ChainOK
<1> HIDE DEF at, b
<1>5. at <= settled
  BY <1>1, <1>2, <1>3
<1> QED BY <1>2, <1>4, <1>5 DEF at, b

LEMMA AppliesFacts ==
  ASSUME Base, NEW p \in Polls, Poll(p), Applies(p)
  PROVE  polls'[p].ts \in Nat /\ Stamps(polls'[p].ts, At(polls[p]))
<1>1. TypeOK /\ ChainOK /\ ShapeOK
  BY DEF Base
<1>2. CASE polls[p].pc = "stamp"
  BY <1>1, <1>2, StampFacts DEF Applies
<1>3. CASE polls[p].pc = "enrich"
  <2>1. polls[p].ts \in Nat
    BY <1>1 DEF TypeOK, PollState
  <2> QED BY <1>1, <1>3, <2>1 DEF Applies, ShapeOK
<1> QED BY <1>2, <1>3 DEF Applies

\* The alerts that a poll leaves: all of them, those of a rebuild, or one more.
LEMMA AlertsAfter ==
  ASSUME Base, NEW p \in Polls, Poll(p)
  PROVE  \/ KeepsAlerts(db, db') /\ ~Applies(p)
         \/ Rebuilds(p) /\ db'.alerts \subseteq db.alerts
         \/ /\ Applies(p)
            /\ IF CallsForAlert(At(polls[p]))
               THEN db'.alerts = recordAlert(db, chain[At(polls[p])]).alerts
               ELSE db'.alerts = db.alerts
<1> DEFINE q == polls[p]
           b == chain[At(q)]
<1>1. TypeOK /\ db \in Database /\ q \in PollState
  BY DEF Base, TypeOK
<1>2. CASE KeepsTables(db, db') /\ ~Applies(p)
  BY <1>2 DEF KeepsTables
<1>3. CASE Rebuilds(p) /\ KeepsTables(resetIndexerDerived(db, q.cursor), db')
  <2>1. q.cursor \in Nat
    BY <1>1 DEF PollState
  <2>2. db'.alerts = {row \in db.alerts : row.block < q.cursor}
    BY <1>1, <1>3, <2>1, ResetIndexerDerived DEF KeepsTables, KeepsAlerts
  <2> QED BY <1>3, <2>2
<1>4. CASE Applies(p)
  <2>1. b \in Block /\ b.log # NoLog
    BY <1>4, HeadFacts DEF Applies
  <2>2. db' = applyLog(db, b, polls'[p].ts) /\ polls'[p].ts \in Nat
    BY <1>4, AppliesFacts DEF Applies
  <2> HIDE DEF b
  <2>3. IF b.log.kind \in AlertKinds THEN KeepsAlerts(recordAlert(db, b), db')
                                     ELSE KeepsAlerts(db, db')
    BY <1>1, <2>1, <2>2, ApplyLog
  <2> QED BY <1>4, <2>3 DEF KeepsAlerts, CallsForAlert, b
<1>5. Finishes(p) \/ Starts(p) \/ StartsAfresh(p) \/ Resumes(p) \/ Asks(p) \/ Waits(p)
        \/ GivesUp(p) \/ PassesOver(p) \/ Closes(p) => ~Applies(p)
  <2>1. Applies(p) => polls'[p].pc = "mark" /\ q.pc \in {"stamp", "enrich"}
    BY <1>1 DEF Applies, PollState
  <2>2. Waits(p) => polls'[p].pc # "mark"
    BY <1>1 DEF Waits, PollState
  <2>3. NoPoll.pc # "mark"
    BY DEF NoPoll
  <2> QED BY <2>1, <2>2, <2>3 DEF Finishes, Starts, StartsAfresh, Resumes, Asks, GivesUp,
          PassesOver, Closes, Goes
<1> QED BY <1>2, <1>3, <1>4, <1>5, PollEffects

LEMMA PollKeepsMarks ==
  ASSUME Base, MarksOK, AlertsOK, NEW p \in Polls, Poll(p)
  PROVE  MarksOK' /\ AlertsOK'
<1> DEFINE q == polls[p]
           at == At(q)
           b == chain[at]
<1>1. TypeOK /\ chain' = chain /\ settled' = settled
  BY PollKeepsBase DEF Alone, Base
<1>2. MarksOK'
  <2>1. CASE Marks(db') \subseteq Marks(db)
    BY <1>1, <2>1 DEF MarksOK
  <2>2. CASE Finishes(p) /\ Marks(db') = Marks(db) \cup {[hash |-> b.hash, block |-> b.number]}
    <3>1. at \in 1..Len(chain) /\ at <= settled /\ b.log # NoLog /\ b.number = at
      BY <2>2, HeadFacts DEF Finishes
    <3>2. PICK m : m = [hash |-> b.hash, block |-> b.number]
      OBVIOUS
    <3>3. m.hash = b.hash /\ m.block = at /\ Marks(db') = Marks(db) \cup {m}
      BY <2>2, <3>1, <3>2
    <3> HIDE DEF at
    <3> QED BY <1>1, <3>1, <3>3 DEF MarksOK
  <2> QED BY <2>1, <2>2, PollEffects
<1>3. AlertsOK'
  <2>1. CASE db'.alerts \subseteq db.alerts
    BY <1>1, <2>1 DEF AlertsOK, CallsForAlert, TellsOf
  <2>2. CASE Applies(p) /\ CallsForAlert(at) /\ db'.alerts = recordAlert(db, b).alerts
    <3> DEFINE new == Alert(db, b)
    <3>1. /\ at \in 1..Len(chain) /\ at <= settled /\ b.number = at
      BY <2>2, HeadFacts DEF Applies
    <3>2. new.kind = b.log.kind /\ new.block = at /\ new.tx = b.hash
      BY <3>1 DEF Alert
    <3>3. \A row \in db'.alerts : row \in db.alerts \/ row = new
      <4>1. recordAlert(db, b) = db \/ recordAlert(db, b) = [db EXCEPT !.alerts = @ \cup {new}]
        BY DEF recordAlert
      <4>2. db \in Database
        BY <1>1 DEF TypeOK
      <4> HIDE DEF new
      <4> QED BY <2>2, <4>1, <4>2 DEF Database
    <3>4. TellsOf(new, at)
      BY <3>2 DEF TellsOf
    <3> HIDE DEF new, at
    <3> QED BY <1>1, <2>2, <3>1, <3>2, <3>3, <3>4 DEF AlertsOK, CallsForAlert, TellsOf
  <2> QED BY <2>1, <2>2, AlertsAfter DEF KeepsAlerts
<1> QED BY <1>2, <1>3

\* The alerts told of stay so when the chain changes but for blocks newly mined.
LEMMA KeptTold ==
  ASSUME Base, ToldOK, db' = db, Applied' \subseteq Applied, mined \in Nat, mined' \in Nat,
         mined <= mined',
         \A n \in 1..Len(chain') : \/ n \in 1..Len(chain) /\ chain'[n] = chain[n]
                                   \/ chain'[n].hash > mined
  PROVE  ToldOK'
<1>1. \A h \in Applied' : h \in Nat /\ h <= mined'
  BY DEF ToldOK
<1>2. ASSUME NEW n \in 1..Len(chain'), CallsForAlert(n)', chain'[n].hash \in Applied'
      PROVE  \E row \in db'.alerts : TellsOf(row, n)'
  <2>1. chain'[n].hash <= mined /\ chain'[n].hash \in Nat
    BY <1>2 DEF ToldOK
  <2>2. n \in 1..Len(chain) /\ chain'[n] = chain[n]
    BY <2>1
  <2> QED BY <1>2, <2>2 DEF ToldOK, CallsForAlert, TellsOf
<1> QED BY <1>1, <1>2 DEF ToldOK

LEMMA PollKeepsTold ==
  ASSUME Base, ToldOK, NEW p \in Polls, Poll(p)
  PROVE  ToldOK'
<1> DEFINE q == polls[p]
           at == At(q)
           b == chain[at]
           new == Alert(db, b)
<1>1. /\ TypeOK /\ ChainOK /\ chain' = chain /\ mined' = mined /\ db \in Database
      /\ db.alerts \in SUBSET Row
  BY PollKeepsBase DEF Alone, Base, TypeOK, Database
<1>2. CASE db'.alerts \subseteq db.alerts /\ Applied' = {}
  BY <1>1, <1>2 DEF ToldOK
<1>3. CASE db'.alerts = db.alerts /\ Applied' = Applied
  BY <1>1, <1>3 DEF ToldOK, CallsForAlert, TellsOf
<1>4. CASE Applies(p) /\ Applied' = Applied \cup {b.hash}
  <2>1. /\ at \in 1..Len(chain) /\ b.number = at /\ b.hash \in Nat /\ b.hash <= mined
    BY <1>4, HeadFacts DEF Applies
  <2>2. new.kind = b.log.kind /\ new.block = at /\ new.tx = b.hash
    BY <2>1 DEF Alert
  <2>3. IF CallsForAlert(at) THEN db'.alerts = recordAlert(db, b).alerts
                             ELSE db'.alerts = db.alerts
    <3>1. Rebuilds(p) => ~Applies(p)
      BY DEF Rebuilds, Applies
    <3> QED BY <1>4, <3>1, AlertsAfter
  <2>4. \A n \in 1..Len(chain) : chain[n].hash = b.hash => n = at
    BY <1>1, <2>1 DEF ChainOK
  <2>5. \A row : TellsOf(row, at) <=> SameAlert(row, new)
    BY <2>2 DEF TellsOf, SameAlert
  <2>6. recordAlert(db, b) = IF \E row \in db.alerts : SameAlert(row, new)
                             THEN db ELSE [db EXCEPT !.alerts = @ \cup {new}]
    BY DEF recordAlert
  <2>7. CallsForAlert(at) =>
           db'.alerts = IF \E row \in db.alerts : SameAlert(row, new)
                        THEN db.alerts ELSE db.alerts \cup {new}
    <3> HIDE DEF new, at, b
    <3> QED BY <1>1, <2>3, <2>6 DEF Database
  <2> HIDE DEF new, at, b
  <2>8. \A row, other : SameAlert(row, other) => SameAlert(other, row)
    BY DEF SameAlert
  <2>9. SameAlert(new, new)
    BY DEF SameAlert
  <2>10. \A row, other \in db'.alerts : SameAlert(row, other) => row = other
    BY <2>3, <2>7, <2>8 DEF ToldOK
  <2>11. db.alerts \subseteq db'.alerts /\ (CallsForAlert(at) => \E row \in db'.alerts : TellsOf(row, at))
    BY <2>3, <2>5, <2>7, <2>9
  <2>12. \A n \in 1..Len(chain) :
            CallsForAlert(n) /\ chain[n].hash \in Applied' => \E row \in db'.alerts : TellsOf(row, n)
    BY <1>4, <2>4, <2>11 DEF ToldOK
  <2> QED BY <1>1, <1>4, <2>1, <2>10, <2>12 DEF ToldOK, CallsForAlert, TellsOf
<1> QED
  <2>1. KeepsTables(db, db') => db'.alerts = db.alerts
    BY DEF KeepsTables, KeepsAlerts
  <2>2. Rebuilds(p) => ~Applies(p)
    BY DEF Rebuilds, Applies
  <2>3. Rebuilds(p) /\ Applied' = {} => db'.alerts \subseteq db.alerts
    BY <2>2, AlertsAfter DEF KeepsAlerts
  <2> QED BY <1>2, <1>3, <1>4, <2>1, <2>3, PollEffects

LEMMA AlertsInit == Init => MarksOK /\ AlertsOK /\ ToldOK
<1> SUFFICES ASSUME Init PROVE MarksOK /\ AlertsOK /\ ToldOK
  OBVIOUS
<1>1. Marks(db) = {} /\ db.alerts = {} /\ 1..Len(chain) = {}
  BY DEF Init, EmptyDb, Marks
<1>2. Applied = {}
  BY <1>1 DEF Init, Applied, Marks, NoPoll
<1> QED BY <1>1, <1>2 DEF MarksOK, AlertsOK, ToldOK

LEMMA ToldStep == Base /\ ToldOK /\ [Next]_vars => ToldOK'
<1> SUFFICES ASSUME Base, ToldOK, [Next]_vars PROVE ToldOK'
  OBVIOUS
<1>1. TypeOK /\ ChainOK /\ DepthOK /\ mined \in Nat /\ chain \in Seq(Block)
  BY DEF Base, TypeOK
<1>2. CASE Mine
  <2>1. /\ Len(chain') = Len(chain) + 1 /\ \A n \in 1..Len(chain) : chain'[n] = chain[n]
    BY <1>1, <1>2, MineStep
  <2>2. db' = db /\ polls' = polls /\ mined' = mined + 1
    BY <1>2 DEF Mine
  <2>3. Applied' \subseteq Applied
    BY <2>2 DEF Applied
  <2>4. chain'[Len(chain) + 1].hash = mined + 1
    <3>1. PICK e : chain' = Extended(chain, mined + 1, e)
      BY <1>2 DEF Mine
    <3>2. PICK s : chain' = Append(chain, [number |-> Len(chain) + 1, hash |-> mined + 1,
                                           log |-> e, state |-> s])
      BY <3>1 DEF Extended
    <3> QED BY <1>1, <3>2
  <2>5. \A n \in 1..Len(chain') : \/ n \in 1..Len(chain) /\ chain'[n] = chain[n]
                                  \/ chain'[n].hash > mined
    <3>1. \A n \in 1..Len(chain') : n \in 1..Len(chain) \/ n = Len(chain) + 1
      BY <1>1, <2>1, BlockFacts
    <3> QED BY <1>1, <2>1, <2>4, <3>1
  <2> QED BY <1>1, <2>2, <2>3, <2>5, KeptTold
<1>3. CASE \E keep \in 0..MaxMined : Reorganise(keep)
  <2>1. PICK keep \in 0..MaxMined : Reorganise(keep)
    BY <1>3
  <2>2. /\ keep < Len(chain) /\ Len(chain') = keep /\ \A n \in 1..keep : chain'[n] = chain[n]
    BY <1>1, <2>1, ReorganiseStep
  <2>3. db' = db /\ polls' = polls /\ mined' = mined
    BY <2>1 DEF Reorganise
  <2>4. Applied' \subseteq Applied
    BY <2>3 DEF Applied
  <2>5. \A n \in 1..Len(chain') : n \in 1..Len(chain) /\ chain'[n] = chain[n]
    BY <1>1, <2>2, BlockFacts
  <2> QED BY <1>1, <2>3, <2>4, <2>5, KeptTold
<1>4. CASE \E p \in Polls : Poll(p)
  BY <1>4, PollKeepsTold
<1>5. CASE restart
  <2>1. chain' = chain /\ db' = db /\ mined' = mined /\ polls' = [p \in Polls |-> NoPoll]
    BY <1>5 DEF restart
  <2>2. Applied' \subseteq Applied
    <3>1. \A p \in Polls : polls'[p].pc # "mark"
      BY <2>1 DEF NoPoll
    <3> QED BY <2>1, <3>1 DEF Applied
  <2> QED BY <1>1, <2>1, <2>2, KeptTold
<1>6. CASE startIndexer \/ UNCHANGED vars
  <2>1. chain' = chain /\ db' = db /\ mined' = mined /\ polls' = polls
    BY <1>6 DEF startIndexer, vars
  <2>2. Applied' \subseteq Applied
    BY <2>1 DEF Applied
  <2> QED BY <1>1, <2>1, <2>2, KeptTold
<1> QED BY <1>2, <1>3, <1>4, <1>5, <1>6 DEF Next

LEMMA AlertsStep == Base /\ NoReorg /\ MarksOK /\ AlertsOK /\ [Next]_vars => MarksOK' /\ AlertsOK'
<1> SUFFICES ASSUME Base, NoReorg, MarksOK, AlertsOK, [Next]_vars PROVE MarksOK' /\ AlertsOK'
  OBVIOUS
<1>1. /\ TypeOK /\ ChainOK /\ DepthOK /\ settled \in Nat /\ Len(chain) \in Nat
      /\ settled <= Len(chain)
  BY BlockFacts DEF Base, TypeOK, DepthOK, NoReorg
<1>2. ChainOK' /\ chain' \in Seq(Block) /\ settled' \in Nat /\ TypeOK' /\ ShapeOK'
  BY BaseStep DEF Base, TypeOK
<1>3. CASE Mine
  <2>1. /\ Len(chain') = Len(chain) + 1 /\ \A n \in 1..Len(chain) : chain'[n] = chain[n]
    BY <1>1, <1>3, MineStep
  <2>2. db' = db /\ settled <= settled'
    BY <1>1, <1>3, IndexerAssumption DEF Mine
  <2>4. \A n \in 1..Len(chain) : n <= settled => n <= Len(chain') /\ chain'[n] = chain[n]
    BY <1>1, <2>1
  <2> QED BY <1>2, <2>2, <2>4, KeptMarks
<1>4. CASE \E keep \in 0..MaxMined : Reorganise(keep)
  <2>1. PICK keep \in 0..MaxMined : Reorganise(keep)
    BY <1>4
  <2>2. /\ Len(chain') = keep /\ \A n \in 1..keep : chain'[n] = chain[n]
        /\ keep >= settled
    BY <1>1, <2>1, ReorganiseStep DEF NoReorg
  <2>3. db' = db /\ settled' = settled
    BY <2>1 DEF Reorganise
  <2>5. \A n \in 1..Len(chain) : n <= settled => n <= Len(chain') /\ chain'[n] = chain[n]
    BY <1>1, <2>2
  <2>6. settled <= settled'
    BY <1>1, <2>3
  <2> QED BY <1>2, <2>3, <2>5, <2>6, KeptMarks
<1>5. CASE \E p \in Polls : Poll(p)
  BY <1>5, PollKeepsMarks
<1>6. CASE restart \/ startIndexer \/ UNCHANGED vars
  <2>1. chain' = chain /\ db' = db /\ settled' = settled
    BY <1>6 DEF restart, startIndexer, vars
  <2>2. settled <= settled' /\ \A n \in 1..Len(chain) : n <= settled => n <= Len(chain') /\ chain'[n] = chain[n]
    BY <1>1, <2>1
  <2> QED BY <1>2, <2>1, <2>2, KeptMarks
<1> QED BY <1>3, <1>4, <1>5, <1>6 DEF Next

LEMMA ScenarioStep == [Next]_vars => scenario' = scenario
<1> SUFFICES ASSUME [Next]_vars PROVE scenario' = scenario
  OBVIOUS
<1>1. \A p \in Polls : Poll(p) => scenario' = scenario
  BY DEF Poll, startPoll, checkHash, getLogs, blockTs, failPoll, enrich, skipLog, markLog, storeHash
<1> QED BY <1>1 DEF Next, Mine, Reorganise, startIndexer, restart, vars

\* As long as no settled block is replaced, the index follows the chain and never a dead
\* fork, with any number of polls under way and whatever else fails: calls, the process
\* between two calls, the process between applying a log and marking it.
THEOREM IndexFollowsChain == Spec => [](NoReorg => Canonical)
<1> DEFINE Inv == Base /\ (NoReorg => MarksOK /\ AlertsOK)
<1>1. Init => Inv
  BY BaseInit, AlertsInit
<1>2. Inv /\ [Next]_vars => Inv'
  <2>1. [Next]_vars => (NoReorg' <=> NoReorg)
    BY ScenarioStep DEF NoReorg
  <2> QED BY <2>1, BaseStep, AlertsStep
<1>3. Inv => (NoReorg => Canonical)
  BY CanonicalMarks
<1> QED BY <1>1, <1>2, <1>3, PTL DEF Spec

\* Whatever fails, and however deep the chain is reorganised, every applied log that calls
\* for an alert has raised one, and one only: neither overlapping polls, nor a log that is
\* applied twice because the process was lost before it was marked, nor a rebuild of the
\* index from the start adds another.  An alert for anything that the chain does not hold
\* is left only by a reorganisation of settled blocks.
THEOREM AlertsAreExact == Spec => []AlertsMatchLogs
<1> DEFINE Inv == Base /\ ToldOK /\ (NoReorg => MarksOK /\ AlertsOK)
<1>1. Init => Inv
  BY BaseInit, AlertsInit
<1>2. Inv /\ [Next]_vars => Inv'
  <2>1. [Next]_vars => (NoReorg' <=> NoReorg)
    BY ScenarioStep DEF NoReorg
  <2> QED BY <2>1, BaseStep, ToldStep, AlertsStep
<1>3. Inv => AlertsMatchLogs
  <2> SUFFICES ASSUME Inv PROVE AlertsMatchLogs
    OBVIOUS
  <2>1. Without({"reorg"}) => \A row \in db.alerts : \E n \in 1..Len(chain) :
                                CallsForAlert(n) /\ TellsOf(row, n)
    BY DEF Without, NoReorg, AlertsOK
  <2> QED BY <2>1 DEF ToldOK, AlertsMatchLogs
<1> QED BY <1>1, <1>2, <1>3, PTL DEF Spec

-----------------------------------------------------------------------------
(* Polls that do not overlap *)

\* The timer finds no poll under way, as it does if a poll takes less than the interval.
StartsAlone == (\E p \in Polls : startPoll(p)) => \A o \in Polls : polls[o].pc = "idle"

Lone(p) == \A o \in Polls \ {p} : polls[o].pc = "idle"

AtMostOne == \A p, o \in Polls : polls[p].pc # "idle" /\ polls[o].pc # "idle" => p = o

LEMMA LoneInit == Init => AtMostOne
BY DEF Init, AtMostOne, NoPoll

\* Whoever is lone after a step was so before it, or takes over from a poll that ended, or
\* is one of those that a new process begins with.
LEMMA LoneCases ==
  ASSUME Base, AtMostOne, [Next]_vars, [StartsAlone]_vars, NEW p \in Polls, Lone(p)'
  PROVE  \/ /\ Lone(p)
            /\ Mine \/ (\E keep \in 0..MaxMined : Reorganise(keep)) \/ startIndexer
               \/ UNCHANGED vars \/ Poll(p)
         \/ \E o \in Polls : Lone(o) /\ Poll(o) /\ polls'[o].pc = "idle" /\ polls'[p].pc = "idle"
         \/ restart /\ \E o \in Polls : Lone(o)
<1>1. CASE Mine \/ (\E keep \in 0..MaxMined : Reorganise(keep)) \/ startIndexer \/ UNCHANGED vars
  <2>1. polls' = polls
    BY <1>1 DEF Mine, Reorganise, startIndexer, vars
  <2> QED BY <1>1, <2>1 DEF Lone
<1>2. ASSUME NEW o \in Polls, Poll(o), ~UNCHANGED vars
      PROVE  \/ Lone(p) /\ Poll(p)
             \/ Lone(o) /\ Poll(o) /\ polls'[o].pc = "idle" /\ polls'[p].pc = "idle"
  <2>1. Alone(o) /\ StartsAlone
    BY <1>2, PollKeepsBase
  <2>2. Lone(o)
    <3>1. CASE polls[o].pc = "idle"
      <4>1. startPoll(o)
        BY <1>2, <3>1 DEF Poll, checkHash, getLogs, blockTs, failPoll, enrich, skipLog, markLog,
                          storeHash
      <4> QED BY <2>1, <4>1 DEF StartsAlone, Lone
    <3>2. CASE polls[o].pc # "idle"
      BY <3>2 DEF AtMostOne, Lone
    <3> QED BY <3>1, <3>2
  <2>3. CASE o = p
    BY <1>2, <2>2, <2>3
  <2>4. CASE o # p
    BY <1>2, <2>1, <2>2, <2>4 DEF Lone, Alone
  <2> QED BY <2>3, <2>4
<1>3. CASE restart
  <2>1. CASE \E o \in Polls : polls[o].pc # "idle"
    BY <1>3, <2>1 DEF AtMostOne, Lone
  <2>2. CASE \A o \in Polls : polls[o].pc = "idle"
    BY <1>3, <2>2 DEF Lone
  <2> QED BY <2>1, <2>2
<1> QED BY <1>1, <1>2, <1>3 DEF Next

LEMMA LoneStep ==
  ASSUME Base, AtMostOne, [Next]_vars, [StartsAlone]_vars
  PROVE  AtMostOne'
<1>1. CASE polls' = polls
  BY <1>1 DEF AtMostOne
<1>2. ASSUME NEW o \in Polls, Poll(o), polls' # polls PROVE AtMostOne'
  <2>1. Alone(o) /\ StartsAlone
    BY <1>2, PollKeepsBase DEF vars
  <2>2. Lone(o)
    <3>1. CASE polls[o].pc = "idle"
      <4>1. startPoll(o)
        BY <1>2, <3>1 DEF Poll, checkHash, getLogs, blockTs, failPoll, enrich, skipLog, markLog,
                          storeHash
      <4> QED BY <2>1, <4>1 DEF StartsAlone, Lone
    <3>2. CASE polls[o].pc # "idle"
      BY <3>2 DEF AtMostOne, Lone
    <3> QED BY <3>1, <3>2
  <2> QED BY <2>1, <2>2 DEF Lone, Alone, AtMostOne
<1>3. CASE restart
  BY <1>3 DEF restart, AtMostOne, NoPoll
<1>4. Mine \/ (\E keep \in 0..MaxMined : Reorganise(keep)) \/ startIndexer \/ UNCHANGED vars
        => polls' = polls
  BY DEF Mine, Reorganise, startIndexer, vars
<1> QED BY <1>1, <1>2, <1>3, <1>4 DEF Next

-----------------------------------------------------------------------------
(* The cursor of a lone poll *)

HashesFail == "hash" \in scenario.faults
ProcessesDie == "restart" \in scenario.faults \/ "crash" \in scenario.faults

OneGuardLost ==
    ~(HashesFail /\ ProcessesDie) /\ ~(HashesFail /\ ~NoReorg) /\ ~(ProcessesDie /\ ~NoReorg)

LEMMA GuardsAre == LostGuardsAreAlone <=> OneGuardLost
BY DEF LostGuardsAreAlone, OneGuardLost, Without, HashesFail, ProcessesDie, NoReorg

Owes(l) == l # NoLog /\ l.kind # "CapabilityRegistered"
Marked(d, b) == \E m \in Marks(d) : m.hash = b.hash

\* Every log that database d owes chain c up to block k is marked.
Covers(c, d, k) == \A n \in 1..Len(c) : n <= k /\ Owes(c[n].log) => Marked(d, c[n])

\* The cursor reads as good, be it because nothing is stored to compare.
Trusts(c, d) == d.lastHash \in {0, HashAt(c, d.lastBlock)}

\* What a poll has behind it is covered.  Without lost processes the cursor is trusted
\* between its two writes unless the chain was replaced under it, and unless calls fail
\* its hash is there.
CursorOK(p) ==
    LET q == polls[p]
    IN  /\ Trusts(chain, db) => Covers(chain, db, db.lastBlock)
        /\ db.lastBlock <= settled /\ db.lastHash <= mined
        /\ q.pc = "check" =>
              q.cursor = db.lastBlock /\ q.stored = db.lastHash /\ db.lastBlock > 0
        /\ q.pc = "logs" => Covers(chain, db, q.from)
        /\ q.pc \in {"stamp", "enrich", "mark"} => Covers(chain, db, At(q) - 1)
        /\ q.pc = "hash" => Covers(chain, db, q.to) /\ db.lastBlock = q.to
        /\ q.pc # "hash" /\ NoReorg /\ ~ProcessesDie => Trusts(chain, db)
        /\ q.pc # "hash" /\ ~HashesFail /\ ~ProcessesDie => db.lastBlock = 0 \/ db.lastHash # 0

LEMMA CoversIs ==
  CursorCoversLogs <=>
    (LostGuardsAreAlone => (Trusts(chain, db) => Covers(chain, db, db.lastBlock)))
BY DEF CursorCoversLogs, Trusts, Covers, Owes, Marked, Marks

\* A lone poll is at rest or has its range within the settled part of the chain.
LEMMA Reach ==
  ASSUME Base, NEW p \in Polls
  PROVE  LET q == polls[p]
         IN  /\ q \in PollState /\ q.from \in Nat /\ q.to \in Nat /\ q.cursor \in Nat
             /\ q.pc \in {"logs", "stamp", "enrich", "mark", "hash"} =>
                   q.from < q.to /\ q.to <= settled /\ q.to <= Len(chain)
             /\ q.pc \in {"stamp", "enrich", "mark"} =>
                   At(q) \in (q.from + 1)..q.to /\ At(q) \in 1..Len(chain)
<1> DEFINE q == polls[p]
<1>1. TypeOK /\ ShapeOK /\ q \in PollState /\ settled \in Nat /\ Len(chain) \in Nat
  BY BlockFacts DEF Base, TypeOK
<1>2. q.from \in Nat /\ q.to \in Nat /\ q.cursor \in Nat /\ q.safeHead \in Int
  BY <1>1 DEF PollState
<1>3. /\ q.pc # "idle" => q.safeHead <= settled /\ q.safeHead <= Len(chain)
      /\ q.pc \in {"logs", "stamp", "enrich", "mark", "hash"} => q.from < q.to /\ q.to <= q.safeHead
  BY <1>1 DEF ShapeOK
<1>4. q.pc \in {"stamp", "enrich", "mark"} =>
         At(q) \in (q.from + 1)..q.to /\ At(q) \in 1..Len(chain)
  BY <1>1, WindowFacts
<1> HIDE DEF q
<1>5. q.pc \in {"logs", "stamp", "enrich", "mark", "hash"} => q.to <= settled /\ q.to <= Len(chain)
  BY <1>1, <1>2, <1>3
<1> QED BY <1>1, <1>2, <1>3, <1>4, <1>5 DEF q

LEMMA CursorInit == ASSUME Init, NEW p \in Polls PROVE CursorOK(p)
<1>1. /\ db.lastBlock = 0 /\ db.lastHash = 0 /\ settled = 0 /\ mined = 0 /\ polls[p].pc = "idle"
      /\ 1..Len(chain) = {}
  BY DEF Init, EmptyDb, NoPoll
<1> QED BY <1>1 DEF CursorOK, Trusts, Covers

\* The chain moves under the cursor.
LEMMA CursorMine ==
  ASSUME Base, NEW p \in Polls, OneGuardLost, CursorOK(p), Mine
  PROVE  CursorOK(p)'
<1> DEFINE q == polls[p]
           len == Len(chain)
<1>1. /\ TypeOK /\ ChainOK /\ DepthOK /\ db.lastBlock \in Nat /\ db.lastHash \in Nat
      /\ settled \in Nat /\ mined \in Nat /\ len \in Nat
      /\ \A n \in 1..len : chain[n].hash \in Nat \ {0} /\ chain[n].hash <= mined
  BY BlockFacts DEF Base, TypeOK, Database, ChainOK
<1>2. /\ len' = len + 1 /\ mined' = mined + 1 /\ db' = db /\ polls' = polls
      /\ scenario' = scenario /\ settled <= settled' /\ settled' \in Nat
      /\ \A n \in 1..len : chain'[n] = chain[n]
  BY <1>1, MineStep, IndexerAssumption DEF Mine
<1>3. chain'[len + 1].hash = mined + 1
  <2>1. PICK e : chain' = Extended(chain, mined + 1, e)
    BY DEF Mine
  <2> QED BY <1>1, <2>1 DEF Extended, TypeOK
<1>4. \A k \in Nat : k <= len => (Covers(chain', db, k) <=> Covers(chain, db, k))
  <2>1. \A n \in 1..len : chain'[n] = chain[n]
    BY <1>2
  <2>2. ASSUME NEW k \in Nat, k <= len
        PROVE  Covers(chain', db, k) <=> Covers(chain, db, k)
    <3>1. \A n \in 1..(len + 1) : n <= k => n \in 1..len
      BY <1>1, <2>2
    <3>2. 1..len \subseteq 1..(len + 1)
      BY <1>1
    <3> QED BY <1>2, <2>1, <3>1, <3>2 DEF Covers
  <2> QED BY <2>2
<1>5. CASE db.lastBlock <= len
  <2>1. Trusts(chain', db') <=> Trusts(chain, db)
    BY <1>1, <1>2, <1>5 DEF Trusts, HashAt
  <2>2. /\ q.pc = "logs" => q.from \in Nat /\ q.from <= len
        /\ q.pc \in {"stamp", "enrich", "mark"} => At(q) - 1 \in Nat /\ At(q) - 1 <= len
        /\ q.pc = "hash" => q.to \in Nat /\ q.to <= len
    <3>1. q.from \in Nat /\ q.to \in Nat
      BY Reach
    <3>2. q.pc \in {"logs", "stamp", "enrich", "mark", "hash"} => q.from < q.to /\ q.to <= len
      BY Reach
    <3>3. q.pc \in {"stamp", "enrich", "mark"} => At(q) \in 1..len
      BY Reach
    <3> HIDE DEF q, len
    <3> QED BY <1>1, <3>1, <3>2, <3>3
  <2> HIDE DEF q, len
  <2>3. CursorOK(p)
    OBVIOUS
  <2> QED BY <1>1, <1>2, <1>4, <1>5, <2>1, <2>2, <2>3 DEF CursorOK, q, NoReorg, ProcessesDie, HashesFail
<1>6. CASE ~(db.lastBlock <= len)
  <2>1. ~NoReorg /\ ~HashesFail /\ ~ProcessesDie
    BY <1>1, <1>6 DEF DepthOK, NoReorg, OneGuardLost, CursorOK
  <2>2. q.pc # "hash"
    BY <1>1, <1>6, Reach DEF CursorOK
  <2>3. db.lastHash # 0 /\ db.lastHash <= mined
    BY <1>1, <1>6, <2>1, <2>2 DEF CursorOK
  <2>4. ~Trusts(chain', db')
    BY <1>1, <1>2, <1>3, <1>6, <2>3 DEF Trusts, HashAt
  <2>5. /\ q.pc = "logs" => q.from \in Nat /\ q.from <= len
        /\ q.pc \in {"stamp", "enrich", "mark"} => At(q) - 1 \in Nat /\ At(q) - 1 <= len
    <3>1. q.from \in Nat /\ q.to \in Nat
      BY Reach
    <3>2. q.pc \in {"logs", "stamp", "enrich", "mark", "hash"} => q.from < q.to /\ q.to <= len
      BY Reach
    <3>3. q.pc \in {"stamp", "enrich", "mark"} => At(q) \in 1..len
      BY Reach
    <3> HIDE DEF q, len
    <3> QED BY <1>1, <3>1, <3>2, <3>3
  <2> HIDE DEF q, len
  <2> QED BY <1>1, <1>2, <1>4, <2>1, <2>2, <2>3, <2>4, <2>5
          DEF CursorOK, q, NoReorg, ProcessesDie, HashesFail
<1> QED BY <1>5, <1>6

LEMMA CursorReorganise ==
  ASSUME Base, NEW p \in Polls, OneGuardLost, CursorOK(p),
         NEW keep \in 0..MaxMined, Reorganise(keep)
  PROVE  CursorOK(p)'
<1> DEFINE q == polls[p]
<1>1. /\ TypeOK /\ ChainOK /\ DepthOK /\ db.lastBlock \in Nat /\ db.lastHash \in Nat
      /\ settled \in Nat /\ mined \in Nat /\ Len(chain) \in Nat /\ keep \in Nat
      /\ \A n \in 1..Len(chain) : chain[n].hash \in Nat \ {0}
  BY BlockFacts DEF Base, TypeOK, Database
<1>2. /\ keep < Len(chain) /\ Len(chain') = keep /\ \A n \in 1..keep : chain'[n] = chain[n]
      /\ keep >= settled \/ (~NoReorg /\ q.pc = "idle")
  BY <1>1, ReorganiseStep DEF NoReorg
<1>3. db' = db /\ polls' = polls /\ scenario' = scenario /\ settled' = settled /\ mined' = mined
  BY DEF Reorganise
<1>4. \A k : Covers(chain, db, k) => Covers(chain', db', k)
  <2>1. \A n \in 1..keep : chain'[n] = chain[n]
    BY <1>2
  <2>2. 1..keep \subseteq 1..Len(chain)
    BY <1>1, <1>2
  <2> QED BY <1>2, <1>3, <2>1, <2>2 DEF Covers
<1>5. CASE db.lastBlock <= keep
  <2>1. HashAt(chain', db.lastBlock) = HashAt(chain, db.lastBlock)
    BY <1>1, <1>2, <1>5 DEF HashAt
  <2>2. Trusts(chain', db') <=> Trusts(chain, db)
    BY <1>3, <2>1 DEF Trusts
  <2> QED BY <1>3, <1>4, <2>2 DEF CursorOK, NoReorg, ProcessesDie, HashesFail
<1>6. CASE ~(db.lastBlock <= keep)
  <2>1. ~NoReorg /\ ~HashesFail /\ ~ProcessesDie /\ q.pc = "idle"
    BY <1>1, <1>2, <1>6 DEF OneGuardLost, CursorOK
  <2>2. db.lastHash # 0
    BY <1>1, <1>6, <2>1 DEF CursorOK
  <2>3. ~Trusts(chain', db')
    BY <1>1, <1>2, <1>3, <1>6, <2>2 DEF Trusts, HashAt
  <2> QED BY <1>3, <1>4, <2>1, <2>2, <2>3 DEF CursorOK, NoReorg, ProcessesDie, HashesFail
<1> QED BY <1>5, <1>6

\* A new process knows of its cursor what the old one did.
LEMMA CursorRestart ==
  ASSUME Base, NEW o \in Polls, CursorOK(o), NEW p \in Polls, restart
  PROVE  CursorOK(p)'
<1>1. /\ chain' = chain /\ db' = db /\ settled' = settled /\ mined' = mined /\ scenario' = scenario
      /\ polls'[p] = NoPoll /\ (ProcessesDie \/ indexer = "failed")
  BY DEF restart, ProcessesDie
<1>2. polls'[p].pc = "idle" /\ (indexer = "failed" => polls[o].pc = "idle")
  BY <1>1 DEF NoPoll, Base, StartOK
<1>3. (Trusts(chain', db') <=> Trusts(chain, db)) /\ \A k : Covers(chain, db, k) => Covers(chain', db', k)
  BY <1>1 DEF Trusts, Covers, Marked
<1> QED BY <1>1, <1>2, <1>3 DEF CursorOK, ProcessesDie, NoReorg, HashesFail

LEMMA CursorPassesOn ==
  ASSUME NEW o \in Polls, NEW p \in Polls, polls'[o].pc = "idle", polls'[p].pc = "idle",
         CursorOK(o)'
  PROVE  CursorOK(p)'
BY DEF CursorOK

\* After a turn of the while loop the poll is at the block it had got to.
LEMMA CursorTurn ==
  ASSUME Base, NEW p \in Polls, NEW safeHead, NEW from, NEW d \in Database,
         Turns(p, safeHead, from, d), Alone(p),
         d.lastBlock <= settled, d.lastHash <= mined,
         polls'[p].pc = "logs" => Covers(chain, d, from),
         Trusts(chain, d) => Covers(chain, d, d.lastBlock),
         NoReorg /\ ~ProcessesDie => Trusts(chain, d),
         ~HashesFail /\ ~ProcessesDie => d.lastBlock = 0 \/ d.lastHash # 0
  PROVE  CursorOK(p)'
<1> DEFINE r == polls'[p]
<1>1. /\ Marks(db') = Marks(d) /\ r.pc \in {"idle", "logs"}
      /\ db'.lastBlock = d.lastBlock /\ db'.lastHash = d.lastHash
  BY TurnEffect DEF Base
<1>2. chain' = chain /\ scenario' = scenario /\ mined' = mined /\ settled' = settled
  BY DEF Alone
<1>3. r.pc = "logs" => r.from = from
  BY DEF Turns, NoPoll
<1>4. \A k : Covers(chain', db', k) <=> Covers(chain, d, k)
  BY <1>1, <1>2 DEF Covers, Marked
<1>5. Trusts(chain', db') <=> Trusts(chain, d)
  BY <1>1, <1>2 DEF Trusts
<1> HIDE DEF r
<1>6. r.pc = "logs" => Covers(chain', db', r.from)
  BY <1>3, <1>4 DEF r
<1>7. Trusts(chain', db') => Covers(chain', db', db'.lastBlock)
  BY <1>1, <1>4, <1>5
<1>8. NoReorg /\ ~ProcessesDie => Trusts(chain', db')
  BY <1>5
<1> QED BY <1>1, <1>2, <1>6, <1>7, <1>8 DEF CursorOK, NoReorg, ProcessesDie, HashesFail, r

\* After a turn of the for loop the poll is at the next log or has moved the cursor.
LEMMA CursorGo ==
  ASSUME Base, NEW p \in Polls, NEW last \in Nat, NEW d \in Database, Goes(p, d, last + 1), Alone(p),
         CursorOK(p), polls[p].pc \in {"logs", "stamp", "enrich", "mark"},
         d.lastBlock = db.lastBlock, d.lastHash = db.lastHash,
         Covers(chain, d, last),
         Marks(db) \subseteq Marks(d)
  PROVE  CursorOK(p)'
<1> DEFINE r == polls'[p]
           q == polls[p]
<1>1. /\ Marks(db') = Marks(d) /\ r.pc \in {"hash", "stamp"} /\ db'.lastHash = d.lastHash
      /\ db'.lastBlock = IF r.pc = "hash" THEN q.to ELSE d.lastBlock
  BY GoEffect DEF Base
<1>2. /\ chain' = chain /\ scenario' = scenario /\ mined' = mined /\ settled' = settled
      /\ Len(chain) \in Nat
  BY BlockFacts DEF Alone, Base
<1>3. r.to = q.to /\ q.to \in Nat /\ q.to <= settled
  BY Reach DEF Goes
<1>4. \A k : Covers(chain', db', k) <=> Covers(chain, d, k)
  BY <1>1, <1>2 DEF Covers, Marked
<1>5. \A n : Skipped(d, n) /\ Owes(chain[n].log) => Marked(d, chain[n])
  BY DEF Skipped, Owes, alreadyIndexed, Marks, Marked
<1>6. \A k : Covers(chain, db, k) => Covers(chain', db', k)
  BY <1>4 DEF Covers, Marked
<1>7. CASE r.pc = "hash"
  <2>1. \A n \in (last + 1)..q.to : Skipped(d, n)
    BY <1>7 DEF Goes
  <2>2. Covers(chain', db', q.to)
    <3> HIDE DEF q
    <3>1. \A n \in 1..Len(chain) : n <= q.to => n <= last \/ n \in (last + 1)..q.to
      BY <1>2, <1>3
    <3> QED BY <1>4, <1>5, <2>1, <3>1 DEF Covers
  <2> HIDE DEF q, r
  <2> QED BY <1>1, <1>2, <1>3, <1>7, <2>2 DEF CursorOK, r
<1>8. CASE r.pc = "stamp"
  <2>1. \A n \in (last + 1)..(At(r) - 1) : Skipped(d, n)
    BY <1>8 DEF Goes
  <2>2. At(r) \in (last + 1)..q.to
    BY <1>8 DEF Goes
  <2>3. Covers(chain', db', At(r) - 1)
    <3> HIDE DEF q, r
    <3>1. \A n \in 1..Len(chain) : n <= At(r) - 1 => n <= last \/ n \in (last + 1)..(At(r) - 1)
      BY <1>2, <1>3, <2>2
    <3> QED BY <1>4, <1>5, <2>1, <3>1 DEF Covers
  <2>4. Trusts(chain', db') <=> Trusts(chain, db)
    BY <1>1, <1>2, <1>8 DEF Trusts
  <2>5. Trusts(chain', db') => Covers(chain', db', db'.lastBlock)
    BY <1>1, <1>6, <1>8, <2>4 DEF CursorOK
  <2> HIDE DEF q, r
  <2> QED BY <1>1, <1>2, <1>3, <1>8, <2>3, <2>4, <2>5
          DEF CursorOK, q, r, NoReorg, ProcessesDie, HashesFail
<1> QED BY <1>1, <1>7, <1>8

\* The steps of a poll that neither turns a loop nor moves the cursor.
LEMMA CursorStays ==
  ASSUME Base, NEW p \in Polls, CursorOK(p), Alone(p), Poll(p),
         Starts(p) \/ Waits(p) \/ Applies(p) \/ GivesUp(p)
  PROVE  CursorOK(p)'
<1> DEFINE q == polls[p]
           r == polls'[p]
<1>1. /\ chain' = chain /\ scenario' = scenario /\ mined' = mined /\ settled' = settled
      /\ q \in PollState /\ db \in Database /\ TypeOK /\ ShapeOK
  BY DEF Alone, Base, TypeOK
<1>2. KeepsMarks(db, db')
  <2>1. CASE Applies(p)
    <3>1. q.pc \in {"stamp", "enrich"} /\ db' = applyLog(db, chain[At(q)], r.ts) /\ r.ts \in Nat
      BY <2>1, AppliesFacts DEF Applies
    <3>2. chain[At(q)] \in Block /\ chain[At(q)].log # NoLog
      BY <1>1, <3>1, WindowFacts
    <3> QED BY <1>1, <3>1, <3>2, ApplyLog
  <2>2. CASE db' = db
    BY <2>2 DEF KeepsMarks
  <2> QED BY <2>1, <2>2 DEF Starts, Waits, GivesUp
<1>3. /\ \A k : Covers(chain', db', k) <=> Covers(chain, db, k)
      /\ Trusts(chain', db') <=> Trusts(chain, db)
      /\ db'.lastBlock = db.lastBlock /\ db'.lastHash = db.lastHash
  BY <1>1, <1>2 DEF KeepsMarks, Covers, Marked, Marks, Trusts
<1>4. /\ r.pc = "check" => r.cursor = db.lastBlock /\ r.stored = db.lastHash /\ db.lastBlock > 0
      /\ r.pc \in {"check", "idle", "enrich", "mark"} /\ q.pc # "hash"
      /\ r.pc \in {"enrich", "mark"} => q.pc \in {"stamp", "enrich", "mark"} /\ At(r) = At(q)
  <2>1. CASE Starts(p)
    BY <2>1 DEF Starts
  <2>2. CASE GivesUp(p)
    BY <2>2 DEF GivesUp, NoPoll
  <2>3. CASE Waits(p) \/ Applies(p)
    BY <1>1, <2>3 DEF Waits, Applies, PollState, At
  <2> QED BY <2>1, <2>2, <2>3
<1> HIDE DEF q, r
<1> QED BY <1>1, <1>3, <1>4 DEF CursorOK, q, r, NoReorg, ProcessesDie, HashesFail

LEMMA CursorPoll ==
  ASSUME Base, NEW p \in Polls, OneGuardLost, CursorOK(p), Poll(p)
  PROVE  CursorOK(p)'
<1> DEFINE q == polls[p]
<1>1. /\ PollStep(p) /\ Alone(p) /\ TypeOK /\ ChainOK /\ ShapeOK
      /\ db \in Database /\ db.lastBlock \in Nat /\ db.lastHash \in Nat
      /\ mined \in Nat /\ settled \in Nat /\ Len(chain) \in Nat
      /\ \A n \in 1..Len(chain) : chain[n].hash \in Nat \ {0} /\ chain[n].hash <= mined
  BY PollKeepsBase, BlockFacts DEF Base, TypeOK, Database, ChainOK
<1>2. q.from \in Nat /\ q.to \in Nat /\ q.cursor \in Nat
  BY Reach
<1>3. db.lastBlock <= settled /\ db.lastHash <= mined
      /\ (Trusts(chain, db) => Covers(chain, db, db.lastBlock))
  BY DEF CursorOK
<1>4. CASE Starts(p) \/ Waits(p) \/ Applies(p) \/ GivesUp(p)
  BY <1>1, <1>4, CursorStays
<1>5. CASE StartsAfresh(p)
  <2>1. Turns(p, Len(chain) - CONFIRMATIONS, 0, db) /\ q.pc = "idle"
    BY <1>5 DEF StartsAfresh
  <2>2. Covers(chain, db, 0)
    BY DEF Covers
  <2> QED BY <1>1, <1>3, <2>1, <2>2, CursorTurn DEF CursorOK
<1>6. CASE Rebuilds(p)
  <2> DEFINE d == resetIndexerDerived(db, q.cursor)
  <2>1. /\ q.pc = "check" /\ q.stored # 0 /\ Turns(p, q.safeHead, 0, d)
    BY <1>6 DEF Rebuilds
  <2>2. PICK answer \in HashAnswers(q.cursor) : answer # 0 /\ answer # q.stored
    BY <1>6 DEF Rebuilds
  <2>3. q.cursor = db.lastBlock /\ q.stored = db.lastHash
    BY <2>1 DEF CursorOK
  <2>4. ~Trusts(chain, db)
    BY <2>1, <2>2, <2>3 DEF HashAnswers, Trusts
  <2>5. d \in Database /\ d.lastBlock = db.lastBlock /\ d.lastHash = db.lastHash
    BY <1>1, <1>2, ResetIndexerDerived
  <2>6. Covers(chain, d, 0)
    BY DEF Covers
  <2> HIDE DEF d
  <2>7. ~Trusts(chain, d) /\ ~(NoReorg /\ ~ProcessesDie)
        /\ (~HashesFail /\ ~ProcessesDie => d.lastBlock = 0 \/ d.lastHash # 0)
    BY <2>1, <2>4, <2>5 DEF CursorOK, Trusts
  <2> QED BY <1>1, <1>3, <2>1, <2>5, <2>6, <2>7, CursorTurn
<1>7. CASE Resumes(p)
  <2>1. q.pc = "check" /\ Turns(p, q.safeHead, q.cursor, db)
    BY <1>7 DEF Resumes
  <2>2. PICK answer \in HashAnswers(q.cursor) : q.stored = 0 \/ answer = 0 \/ answer = q.stored
    BY <1>7 DEF Resumes
  <2>3. q.cursor = db.lastBlock /\ q.stored = db.lastHash
    BY <2>1 DEF CursorOK
  <2>4. polls'[p].pc = "logs" => Trusts(chain, db)
    <3>1. CASE HashesFail
      BY <2>1, <3>1 DEF OneGuardLost, CursorOK
    <3>2. CASE ~HashesFail
      <4>1. answer = HashAt(chain, db.lastBlock)
        BY <2>3, <3>2 DEF HashAnswers, HashesFail
      <4>2. ASSUME polls'[p].pc = "logs" PROVE db.lastBlock <= Len(chain) /\ db.lastBlock > 0
        <5>1. q.cursor < polls'[p].to /\ polls'[p].to <= q.safeHead
          BY <2>1, <4>2 DEF Turns, NoPoll
        <5>2. q.safeHead \in Int /\ q.safeHead <= Len(chain)
          BY <1>1, <2>1 DEF ShapeOK, TypeOK, PollState
        <5>3. polls'[p].to \in Nat
          BY PollKeepsBase DEF Base, TypeOK, PollState
        <5>4. db.lastBlock > 0
          BY <2>1 DEF CursorOK
        <5> HIDE DEF q
        <5> QED BY <1>1, <1>2, <2>3, <5>1, <5>2, <5>3, <5>4
      <4>3. polls'[p].pc = "logs" => answer # 0
        BY <1>1, <4>1, <4>2 DEF HashAt
      <4> QED BY <2>2, <2>3, <4>1, <4>3 DEF Trusts
    <3> QED BY <3>1, <3>2
  <2>5. NoReorg /\ ~ProcessesDie => Trusts(chain, db)
    BY <2>1 DEF CursorOK
  <2>6. ~HashesFail /\ ~ProcessesDie => db.lastBlock = 0 \/ db.lastHash # 0
    BY <2>1 DEF CursorOK
  <2> QED BY <1>1, <1>3, <2>1, <2>3, <2>4, <2>5, <2>6, CursorTurn
<1>8. CASE Asks(p)
  <2>1. q.pc = "logs" /\ Goes(p, db, q.from + 1)
    BY <1>8 DEF Asks
  <2>2. Covers(chain, db, q.from)
    BY <1>2, <2>1 DEF CursorOK
  <2> QED BY <1>1, <1>2, <2>1, <2>2, CursorGo
<1>9. CASE PassesOver(p)
  <2>1. /\ q.pc = "enrich" /\ chain[At(q)].log.kind = "CapabilityRegistered"
        /\ Goes(p, db, At(q) + 1)
    BY <1>9 DEF PassesOver
  <2>2. At(q) \in 1..Len(chain) /\ Covers(chain, db, At(q) - 1)
    BY <2>1, Reach DEF CursorOK
  <2> HIDE DEF q
  <2>3. At(q) \in Nat
    BY <1>1, <2>2
  <2>4. Covers(chain, db, At(q))
    <3>1. \A n \in 1..Len(chain) : n <= At(q) => n <= At(q) - 1 \/ n = At(q)
      BY <1>1, <2>2
    <3> QED BY <2>1, <2>2, <3>1 DEF Covers, Owes
  <2> QED BY <1>1, <2>1, <2>3, <2>4, CursorGo DEF q
<1>10. CASE Finishes(p)
  <2> DEFINE b == chain[At(q)]
             d == markIndexed(db, b)
  <2>1. q.pc = "mark" /\ Goes(p, d, At(q) + 1)
    BY <1>10 DEF Finishes
  <2>2. At(q) \in 1..Len(chain) /\ Covers(chain, db, At(q) - 1) /\ b \in Block
    BY <1>1, <2>1, Reach, WindowFacts DEF CursorOK
  <2>3. /\ d \in Database /\ d.lastBlock = db.lastBlock /\ d.lastHash = db.lastHash
        /\ Marks(d) = Marks(db) \cup {[hash |-> b.hash, block |-> b.number]}
    BY <1>1, <2>2, MarkIndexed
  <2>4. Marked(d, b) /\ Marks(db) \subseteq Marks(d)
    <3>1. PICK m : m = [hash |-> b.hash, block |-> b.number]
      OBVIOUS
    <3>2. m.hash = b.hash /\ m \in Marks(d)
      BY <2>3, <3>1
    <3> QED BY <2>3, <3>2 DEF Marked
  <2> HIDE DEF q, d
  <2>5. At(q) \in Nat
    BY <1>1, <2>2
  <2>6. Covers(chain, d, At(q))
    <3>1. \A n \in 1..Len(chain) : n <= At(q) => n <= At(q) - 1 \/ n = At(q)
      BY <1>1, <2>2
    <3> QED BY <2>2, <2>4, <3>1 DEF Covers, Marked
  <2> QED BY <1>1, <2>1, <2>3, <2>4, <2>5, <2>6, CursorGo DEF q
<1>11. CASE Closes(p)
  <2>1. q.pc = "hash"
    BY <1>11 DEF Closes
  <2>2. PICK answer \in HashAnswers(q.to) : Turns(p, q.safeHead, q.to, [db EXCEPT !.lastHash = answer])
    BY <1>11 DEF Closes
  <2> DEFINE d == [db EXCEPT !.lastHash = answer]
  <2>3. db.lastBlock = q.to /\ Covers(chain, db, q.to) /\ q.to \in 1..Len(chain)
    <3>1. q.from < q.to /\ q.to <= Len(chain)
      BY <2>1, Reach
    <3>2. db.lastBlock = q.to /\ Covers(chain, db, q.to)
      BY <2>1 DEF CursorOK
    <3> HIDE DEF q
    <3> QED BY <1>1, <1>2, <3>1, <3>2
  <2>4. answer \in {0, HashAt(chain, q.to)} /\ (~HashesFail => answer = HashAt(chain, q.to))
    BY <2>2 DEF HashAnswers, HashesFail
  <2>5. HashAt(chain, q.to) \in Nat \ {0} /\ HashAt(chain, q.to) <= mined
    BY <1>1, <2>3 DEF HashAt
  <2>6. answer \in Nat /\ answer <= mined /\ (~HashesFail => answer # 0)
    BY <1>1, <2>4, <2>5
  <2>7. /\ d \in Database /\ d.lastBlock = db.lastBlock /\ d.lastHash = answer
        /\ Marks(d) = Marks(db)
    BY <1>1, <2>6 DEF Database, Marks
  <2>8. Turns(p, q.safeHead, q.to, d)
    BY <2>2
  <2> HIDE DEF d, q
  <2>9. Covers(chain, d, q.to) /\ Trusts(chain, d)
    BY <2>3, <2>4, <2>7 DEF Covers, Marked, Trusts
  <2>10. /\ d.lastBlock <= settled /\ d.lastHash <= mined
         /\ (Trusts(chain, d) => Covers(chain, d, d.lastBlock))
         /\ (~HashesFail /\ ~ProcessesDie => d.lastBlock = 0 \/ d.lastHash # 0)
    BY <1>3, <2>3, <2>6, <2>7, <2>9
  <2>11. d \in Database /\ Alone(p)
    BY <1>1, <2>7
  <2> QED BY <2>8, <2>9, <2>10, <2>11, CursorTurn
<1> QED BY <1>1, <1>4, <1>5, <1>6, <1>7, <1>8, <1>9, <1>10, <1>11 DEF PollStep

LEMMA CursorStep ==
  ASSUME Base, AtMostOne, OneGuardLost, [Next]_vars, [StartsAlone]_vars,
         \A o \in Polls : Lone(o) => CursorOK(o),
         NEW p \in Polls, Lone(p)'
  PROVE  CursorOK(p)'
<1>1. CASE Lone(p) /\ Mine
  BY <1>1, CursorMine
<1>2. CASE Lone(p) /\ \E keep \in 0..MaxMined : Reorganise(keep)
  BY <1>2, CursorReorganise
<1>3. CASE Lone(p) /\ Poll(p)
  BY <1>3, CursorPoll
<1>4. CASE \E o \in Polls : Lone(o) /\ Poll(o) /\ polls'[o].pc = "idle" /\ polls'[p].pc = "idle"
  BY <1>4, CursorPoll, CursorPassesOn
<1>5. CASE restart /\ \E o \in Polls : Lone(o)
  BY <1>5, CursorRestart
<1>6. CASE Lone(p) /\ (startIndexer \/ UNCHANGED vars)
  BY <1>6 DEF startIndexer, vars, CursorOK, NoReorg, ProcessesDie, HashesFail
<1> QED BY <1>1, <1>2, <1>3, <1>4, <1>5, <1>6, LoneCases

\* Whatever the polls do, each may start only when no other is under way, and of the three
\* guards of a rebuild one may be lost: whichever calls fail besides, however often and at
\* which point ever processes are lost, the cursor never passes a log that has to be applied
\* and is not.
THEOREM CursorIsSafe == Spec /\ [][StartsAlone]_vars => []CursorCoversLogs
<1> DEFINE Inv == /\ Base /\ AtMostOne
                  /\ OneGuardLost => \A p \in Polls : Lone(p) => CursorOK(p)
<1>1. Init => Inv
  BY BaseInit, LoneInit, CursorInit
<1>2. Inv /\ [Next]_vars /\ [StartsAlone]_vars => Inv'
  <2> SUFFICES ASSUME Inv, [Next]_vars, [StartsAlone]_vars PROVE Inv'
    OBVIOUS
  <2>1. OneGuardLost' <=> OneGuardLost
    BY ScenarioStep DEF OneGuardLost, HashesFail, ProcessesDie, NoReorg
  <2>2. Base' /\ AtMostOne'
    BY BaseStep, LoneStep
  <2>3. ASSUME OneGuardLost, NEW p \in Polls, Lone(p)' PROVE CursorOK(p)'
    BY <2>3, CursorStep
  <2> QED BY <2>1, <2>2, <2>3
<1>3. Inv => CursorCoversLogs
  <2>1. ASSUME AtMostOne PROVE \E p \in Polls : Lone(p)
    BY <2>1, IndexerAssumption DEF AtMostOne, Lone
  <2> QED BY <2>1, CoversIs, GuardsAre DEF CursorOK
<1> QED BY <1>1, <1>2, <1>3, PTL DEF Spec

-----------------------------------------------------------------------------
(* What the blocks up to the last applied one leave behind *)

\* The last of a set of blocks, 0 if there is none.
LastOf(s) == Max({0} \cup s)

LEMMA LastOfFacts ==
  ASSUME NEW n \in Nat, NEW s \in SUBSET (1..n)
  PROVE  /\ LastOf(s) \in 0..n /\ (LastOf(s) = 0 \/ LastOf(s) \in s)
         /\ \A m \in s : m <= LastOf(s)
         /\ \A k \in {0} \cup s : (\A m \in s : m <= k) => k = LastOf(s)
<1> DEFINE t == {0} \cup s
           Bounds == {k \in 1..n : \A m \in s : m <= k}
<1>1. \A m \in t : m \in Int /\ m >= 0 /\ m <= n
  OBVIOUS
<1>2. \E x \in t : \A y \in t : x >= y
  <2>1. CASE s = {}
    BY <2>1
  <2>2. CASE s # {}
    <3> DEFINE k == Min(Bounds)
    <3> PICK first \in s : TRUE
      BY <2>2
    <3>1. n \in Bounds
      <4>1. first \in Int /\ first >= 1 /\ first <= n /\ \A m \in s : m <= n
        OBVIOUS
      <4>2. n \in 1..n
        BY <4>1
      <4> QED BY <4>1, <4>2
    <3>2. k \in Bounds /\ \A y \in Bounds : k <= y
      <4>1. Bounds \in SUBSET (1..n) /\ Bounds # {}
        BY <3>1
      <4> HIDE DEF Bounds
      <4> QED BY <4>1, MinOfInterval
    <3> HIDE DEF k
    <3>3. k \in s
      <4> SUFFICES ASSUME k \notin s PROVE FALSE
        OBVIOUS
      <4>1. k \in 1..n /\ \A m \in s : m <= k /\ m # k
        BY <3>2
      <4>2. \A m \in s : m <= k - 1
        BY <1>1, <4>1
      <4>3. k - 1 \in 1..n
        <5>1. first <= k - 1 /\ first \in Int /\ first >= 1 /\ k \in Int /\ k <= n
          BY <4>1, <4>2
        <5> QED BY <5>1
      <4>4. k - 1 \in Bounds
        BY <4>2, <4>3
      <4> QED BY <3>2, <4>1, <4>4
    <3>4. \A y \in t : k >= y
      BY <1>1, <3>2
    <3> QED BY <3>3, <3>4
  <2> QED BY <2>1, <2>2
<1>3. LastOf(s) \in t /\ \A y \in t : LastOf(s) >= y
  BY <1>2 DEF LastOf, Max
<1> HIDE DEF t
<1>4. LastOf(s) \in 0..n /\ (LastOf(s) = 0 \/ LastOf(s) \in s) /\ \A m \in s : m <= LastOf(s)
  <2> DEFINE last == LastOf(s)
  <2> HIDE DEF last
  <2>1. last \in t /\ \A y \in t : last >= y
    BY <1>3 DEF last
  <2>2. last \in Int /\ last >= 0 /\ last <= n /\ (last = 0 \/ last \in s)
    BY <1>1, <2>1 DEF t
  <2>3. \A m \in s : m <= last
    BY <1>1, <2>1, <2>2 DEF t
  <2> QED BY <2>2, <2>3 DEF last
<1>5. \A k \in t : (\A m \in s : m <= k) => k = LastOf(s)
  <2> SUFFICES ASSUME NEW k \in t, \A m \in s : m <= k PROVE k = LastOf(s)
    OBVIOUS
  <2>1. k \in Int /\ k >= 0 /\ LastOf(s) \in Int /\ LastOf(s) >= k /\ LastOf(s) <= k
    BY <1>1, <1>3, <1>4
  <2> QED BY <2>1
<1> QED BY <1>4, <1>5 DEF t

\* What the contracts' tables keep over blocks that the index may skip: blocks without a
\* log, and registrations of capabilities.
Undisturbed(v, w) ==
    /\ w.completions = v.completions /\ w.lastActivity = v.lastActivity
    /\ w.agentMetadataCID = v.agentMetadataCID
    /\ \A i \in Capabilities : v.capabilities[i].registered => w.capabilities[i] = v.capabilities[i]

LEMMA UndisturbedAfter ==
  ASSUME NEW w \in World, NEW e \in Log, NEW ts \in Nat, Emits(w, e), ~Owes(e)
  PROVE  Undisturbed(w, StateAfter(w, e, ts))
<1> DEFINE v == StateAfter(w, e, ts)
<1>1. e.kind \in {"None", "CapabilityRegistered"}
  BY LogFields DEF Owes
<1>2. v \in World
  BY AfterType
<1>3. /\ \A i \in Completions : v.completions[i] = w.completions[i]
      /\ \A a \in Agents : v.lastActivity[a] = w.lastActivity[a]
                           /\ v.agentMetadataCID[a] = w.agentMetadataCID[a]
  BY <1>1, AfterTables DEF CompletionKinds
<1>4. \A i \in Capabilities : w.capabilities[i].registered => v.capabilities[i] = w.capabilities[i]
  <2> SUFFICES ASSUME NEW i \in Capabilities, w.capabilities[i].registered
               PROVE  v.capabilities[i] = w.capabilities[i]
    OBVIOUS
  <2>1. ~(e.kind \in CapabilityKinds /\ e.id = i)
    BY <1>1 DEF Emits, CapabilityKinds
  <2> QED BY <2>1, AfterTables
<1> HIDE DEF v
<1>5. /\ v.completions = w.completions /\ v.lastActivity = w.lastActivity
      /\ v.agentMetadataCID = w.agentMetadataCID
  BY <1>2, <1>3 DEF World
<1> QED BY <1>4, <1>5 DEF Undisturbed, v

\* Blocks that owe the index nothing, one after the other.
LEMMA UndisturbedBetween ==
  ASSUME TypeOK, ChainOK, NEW m \in 0..Len(chain), NEW n \in m..Len(chain),
         \A k \in (m + 1)..n : ~Owes(chain[k].log)
  PROVE  Undisturbed(StateAt(chain, m), StateAt(chain, n))
<1> DEFINE Bad == {k \in (m + 1)..n : ~Undisturbed(StateAt(chain, m), StateAt(chain, k))}
<1> SUFFICES ASSUME ~Undisturbed(StateAt(chain, m), StateAt(chain, n)) PROVE FALSE
  OBVIOUS
<1>1. m \in Nat /\ n \in Nat /\ m <= n /\ n <= Len(chain) /\ Len(chain) \in Nat
  BY BlockFacts
<1>2. n # m
  BY DEF Undisturbed
<1>3. Bad \in SUBSET (1..n) /\ n \in Bad
  BY <1>1, <1>2
<1> DEFINE k == Min(Bad)
<1>4. k \in Bad /\ \A y \in Bad : k <= y
  <2> HIDE DEF Bad
  <2> QED BY <1>1, <1>3, MinOfInterval
<1> HIDE DEF k
<1>5. k \in (m + 1)..n /\ ~Undisturbed(StateAt(chain, m), StateAt(chain, k))
  BY <1>4
<1>6. PICK j \in Nat : j = k - 1 /\ m <= j /\ j < k /\ j < n
  BY <1>1, <1>5
<1>7. Undisturbed(StateAt(chain, m), StateAt(chain, j))
  <2>1. CASE j = m
    BY <2>1 DEF Undisturbed
  <2>2. CASE j # m
    <3>1. j \in (m + 1)..n
      BY <1>1, <1>6, <2>2
    <3> QED BY <1>4, <1>5, <1>6, <3>1
  <2> QED BY <2>1, <2>2
<1>8. /\ k \in 1..Len(chain) /\ k \in Nat /\ k # 0 /\ StateAt(chain, j) \in World /\ chain[k].log \in Log
      /\ Emits(StateAt(chain, j), chain[k].log)
      /\ chain[k].state = StateAfter(StateAt(chain, j), chain[k].log, k)
  <2>1. k \in 1..Len(chain) /\ j \in 0..Len(chain) /\ k - 1 = j /\ k # 0 /\ k \in Nat
    BY <1>1, <1>5, <1>6
  <2> QED BY <2>1, BlockFacts DEF ChainOK
<1>9. Undisturbed(StateAt(chain, j), chain[k].state)
  BY <1>5, <1>8, UndisturbedAfter
<1>10. StateAt(chain, k) = chain[k].state
  BY <1>8 DEF StateAt
<1> QED BY <1>5, <1>7, <1>9, <1>10 DEF Undisturbed

-----------------------------------------------------------------------------
(* The counters of the index and a count over the contract's completions *)

CountersOf(w, a) ==
    [completions |-> Cardinality(CompletionsOf(w, a)), confirmed |-> Cardinality(ConfirmedOf(w, a)),
     disputes |-> Cardinality(DisputedOf(w, a))]

SameCounts(m, n) ==
    m.completions = n.completions /\ m.confirmed = n.confirmed /\ m.disputes = n.disputes

\* The tables that the counts are made of, against state w.
CountsMatch(d, w) ==
    /\ \A a \in Agents : SameCounts(d.scores[a], CountersOf(w, a))
    /\ \A i \in Completions :
          LET c == w.completions[i]
          IN  /\ d.receipts[i].counterparty = c.counterparty
              /\ c.counterparty # Nobody => d.receipts[i].agent = c.agent
              /\ c.agent # Nobody => d.completions[i] = c.agent

LEMMA CountsNeedLittle ==
  ASSUME NEW d, NEW e, NEW v, NEW w, CountsMatch(d, v),
         e.scores = d.scores, e.receipts = d.receipts, e.completions = d.completions,
         w.completions = v.completions
  PROVE  CountsMatch(e, w)
BY DEF CountsMatch, CountersOf, CompletionsOf, ConfirmedOf, DisputedOf

One(b) == IF b THEN 1 ELSE 0

LEMMA CompletionsFinite == IsFiniteSet(Completions)
BY EventLogAssumption, FS_Interval DEF Completions

\* The counters after one completion has changed.
LEMMA CountersAfter ==
  ASSUME NEW w \in World, NEW v \in World, NEW id \in Completions, NEW a \in Agents,
         \A i \in Completions \ {id} : v.completions[i] = w.completions[i]
  PROVE  LET c == w.completions[id]
             f == v.completions[id]
             m == CountersOf(w, a)
             n == CountersOf(v, a)
         IN  /\ m.completions \in Nat /\ m.confirmed \in Nat /\ m.disputes \in Nat
             /\ n.completions \in Nat /\ n.confirmed \in Nat /\ n.disputes \in Nat
             /\ n.completions = m.completions + One(f.agent = a) - One(c.agent = a)
             /\ n.confirmed = m.confirmed + One(f.agent = a /\ f.counterparty # Nobody)
                                          - One(c.agent = a /\ c.counterparty # Nobody)
             /\ n.disputes = m.disputes + One(f.agent = a /\ f.disputed)
                                        - One(c.agent = a /\ c.disputed)
<1>1. IsFiniteSet(Completions)
  BY CompletionsFinite
<1>2. /\ CompletionsOf(w, a) \in SUBSET Completions /\ CompletionsOf(v, a) \in SUBSET Completions
      /\ ConfirmedOf(w, a) \in SUBSET Completions /\ ConfirmedOf(v, a) \in SUBSET Completions
      /\ DisputedOf(w, a) \in SUBSET Completions /\ DisputedOf(v, a) \in SUBSET Completions
  BY DEF CompletionsOf, ConfirmedOf, DisputedOf
<1>3. /\ CompletionsOf(w, a) \ {id} = CompletionsOf(v, a) \ {id}
      /\ ConfirmedOf(w, a) \ {id} = ConfirmedOf(v, a) \ {id}
      /\ DisputedOf(w, a) \ {id} = DisputedOf(v, a) \ {id}
  BY DEF CompletionsOf, ConfirmedOf, DisputedOf
<1>4. /\ id \in CompletionsOf(w, a) <=> w.completions[id].agent = a
      /\ id \in CompletionsOf(v, a) <=> v.completions[id].agent = a
      /\ id \in ConfirmedOf(w, a) <=>
            w.completions[id].agent = a /\ w.completions[id].counterparty # Nobody
      /\ id \in ConfirmedOf(v, a) <=>
            v.completions[id].agent = a /\ v.completions[id].counterparty # Nobody
      /\ id \in DisputedOf(w, a) <=> w.completions[id].agent = a /\ w.completions[id].disputed
      /\ id \in DisputedOf(v, a) <=> v.completions[id].agent = a /\ v.completions[id].disputed
  BY DEF CompletionsOf, ConfirmedOf, DisputedOf
<1>5. /\ Cardinality(CompletionsOf(w, a)) \in Nat
      /\ Cardinality(CompletionsOf(v, a)) =
            Cardinality(CompletionsOf(w, a)) + One(id \in CompletionsOf(v, a)) - One(id \in CompletionsOf(w, a))
  BY <1>1, <1>2, <1>3, CountChange DEF One
<1>6. /\ Cardinality(ConfirmedOf(w, a)) \in Nat
      /\ Cardinality(ConfirmedOf(v, a)) =
            Cardinality(ConfirmedOf(w, a)) + One(id \in ConfirmedOf(v, a)) - One(id \in ConfirmedOf(w, a))
  BY <1>1, <1>2, <1>3, CountChange DEF One
<1>7. /\ Cardinality(DisputedOf(w, a)) \in Nat
      /\ Cardinality(DisputedOf(v, a)) =
            Cardinality(DisputedOf(w, a)) + One(id \in DisputedOf(v, a)) - One(id \in DisputedOf(w, a))
  BY <1>1, <1>2, <1>3, CountChange DEF One
<1>8. /\ Cardinality(CompletionsOf(v, a)) \in Nat /\ Cardinality(ConfirmedOf(v, a)) \in Nat
      /\ Cardinality(DisputedOf(v, a)) \in Nat
  BY <1>1, <1>2, FS_Subset, FS_CardinalityType
<1> QED BY <1>4, <1>5, <1>6, <1>7, <1>8 DEF CountersOf, One

\* Counters m of agent a are n once a completion c of somebody's is f.
CountersMove(m, n, c, f, a) ==
    /\ n.completions = m.completions + One(f.agent = a) - One(c.agent = a)
    /\ n.confirmed = m.confirmed + One(f.agent = a /\ f.counterparty # Nobody)
                                 - One(c.agent = a /\ c.counterparty # Nobody)
    /\ n.disputes = m.disputes + One(f.agent = a /\ f.disputed) - One(c.agent = a /\ c.disputed)

RowsTell(d, c, id) ==
    /\ d.receipts[id].counterparty = c.counterparty
    /\ c.counterparty # Nobody => d.receipts[id].agent = c.agent
    /\ c.agent # Nobody => d.completions[id] = c.agent

MoveTogether(d, e, w, v, id) ==
    /\ \A i \in Completions \ {id} :
          /\ v.completions[i] = w.completions[i]
          /\ e.receipts[i] = d.receipts[i] /\ e.completions[i] = d.completions[i]
    /\ RowsTell(e, v.completions[id], id)
    /\ \A a \in Agents :
          CountersMove(d.scores[a], e.scores[a], w.completions[id], v.completions[id], a)

\* The tables stay in step if the counters move as the one completion does that changes.
LEMMA CountsStep ==
  ASSUME NEW d \in Database, NEW e \in Database, NEW w \in World, NEW v \in World,
         NEW id \in Completions, CountsMatch(d, w), MoveTogether(d, e, w, v, id)
  PROVE  CountsMatch(e, v)
<1>1. ASSUME NEW a \in Agents PROVE SameCounts(e.scores[a], CountersOf(v, a))
  <2>1. SameCounts(d.scores[a], CountersOf(w, a))
    BY DEF CountsMatch
  <2>2. CountersMove(CountersOf(w, a), CountersOf(v, a), w.completions[id], v.completions[id], a)
    BY CountersAfter DEF CountersMove, MoveTogether
  <2>3. CountersMove(d.scores[a], e.scores[a], w.completions[id], v.completions[id], a)
    BY DEF MoveTogether
  <2> QED BY <2>1, <2>2, <2>3 DEF SameCounts, CountersMove
<1>2. ASSUME NEW i \in Completions
      PROVE  RowsTell(e, v.completions[i], i)
  <2>1. CASE i = id
    BY <2>1 DEF MoveTogether
  <2>2. CASE i # id
    <3>1. RowsTell(d, w.completions[i], i)
      BY DEF CountsMatch, RowsTell
    <3> QED BY <2>2, <3>1 DEF RowsTell, MoveTogether
  <2> QED BY <2>1, <2>2
<1> QED BY <1>1, <1>2 DEF CountsMatch, RowsTell

\* A receipt that is there has been counted.
LEMMA ReceiptIsCounted ==
  ASSUME NEW d \in Database, NEW w \in World, NEW id \in Completions, CountsMatch(d, w),
         NEW a \in Agents, w.completions[id].agent = a, w.completions[id].counterparty # Nobody
  PROVE  d.scores[a].confirmed >= 1
<1> DEFINE n == Cardinality(ConfirmedOf(w, a))
<1>1. id \in ConfirmedOf(w, a) /\ ConfirmedOf(w, a) \subseteq Completions
  BY DEF ConfirmedOf, CompletionsOf
<1>2. IsFiniteSet(ConfirmedOf(w, a))
  BY <1>1, CompletionsFinite, FS_Subset
<1>3. n \in Nat /\ n # 0
  BY <1>1, <1>2, FS_CardinalityType, FS_EmptySet
<1>4. d.scores[a].confirmed = CountersOf(w, a).confirmed
  BY DEF CountsMatch, SameCounts
<1>5. CountersOf(w, a).confirmed = n
  BY DEF CountersOf
<1> HIDE DEF n
<1> QED BY <1>3, <1>4, <1>5

GreaterOf(m, n) == IF n > m THEN n ELSE m

\* The counters after a bump, field by field.
LEMMA BumpedFields ==
  ASSUME NEW m \in Counters
  PROVE  /\ \A n \in Nat :
              LET s == Bumped(m, Completed(n))
              IN  /\ s.completions = m.completions + 1 /\ s.confirmed = m.confirmed
                  /\ s.disputes = m.disputes /\ s.lastActivity = GreaterOf(m.lastActivity, n)
         /\ \A n \in Nat :
              LET s == Bumped(m, Confirmed(n))
              IN  /\ s.completions = m.completions /\ s.confirmed = m.confirmed + 1
                  /\ s.disputes = m.disputes /\ s.lastActivity = GreaterOf(m.lastActivity, n)
         /\ LET s == Bumped(m, Disputed)
            IN  /\ s.completions = m.completions /\ s.confirmed = m.confirmed
                /\ s.disputes = m.disputes + 1 /\ s.lastActivity = m.lastActivity
                /\ s \in Counters
         /\ LET s == Bumped(m, Revoked)
            IN  /\ s.completions = m.completions /\ s.disputes = m.disputes
                /\ s.lastActivity = m.lastActivity
                /\ m.confirmed >= 1 => s.confirmed = m.confirmed - 1
<1>1. /\ m.completions \in Nat /\ m.confirmed \in Nat /\ m.disputes \in Nat
      /\ m.lastActivity \in Nat
  BY DEF Counters
<1>2. ASSUME NEW n \in Nat
      PROVE  LET s == Bumped(m, Completed(n))
             IN  /\ s.completions = m.completions + 1 /\ s.confirmed = m.confirmed
                 /\ s.disputes = m.disputes /\ s.lastActivity = GreaterOf(m.lastActivity, n)
  BY <1>1, <1>2 DEF Bumped, Completed, NoDelta, AtLeastZero, GreaterOf
<1>3. ASSUME NEW n \in Nat
      PROVE  LET s == Bumped(m, Confirmed(n))
             IN  /\ s.completions = m.completions /\ s.confirmed = m.confirmed + 1
                 /\ s.disputes = m.disputes /\ s.lastActivity = GreaterOf(m.lastActivity, n)
  BY <1>1, <1>3 DEF Bumped, Confirmed, NoDelta, AtLeastZero, GreaterOf
<1>4. LET s == Bumped(m, Disputed)
      IN  /\ s.completions = m.completions /\ s.confirmed = m.confirmed
          /\ s.disputes = m.disputes + 1 /\ s.lastActivity = m.lastActivity
          /\ s \in Counters
  BY <1>1 DEF Bumped, Disputed, NoDelta, AtLeastZero, Counters
<1>5. LET s == Bumped(m, Revoked)
      IN  /\ s.completions = m.completions /\ s.disputes = m.disputes
          /\ s.lastActivity = m.lastActivity
          /\ m.confirmed >= 1 => s.confirmed = m.confirmed - 1
  BY <1>1 DEF Bumped, Revoked, NoDelta, AtLeastZero
<1> QED BY <1>2, <1>3, <1>4, <1>5

\* The tables and the contract's completions move together, kind by kind.
LEMMA CountSelfAttested ==
  ASSUME NEW d \in Database, NEW b \in Block, NEW ts \in Nat, NEW w \in World, b.log.kind = "SelfAttested",
         Emits(w, b.log), Sound(w), CountsMatch(d, w), d.completions[b.log.id] \in {Nobody, b.log.agent}
  PROVE  CountsMatch(applyLog(d, b, ts), StateAfter(w, b.log, b.number))
<1> DEFINE e == applyLog(d, b, ts)
           v == StateAfter(w, b.log, b.number)
           l == b.log
           c == w.completions[l.id]
           f == v.completions[l.id]
<1>1. l \in Log /\ b.number \in Nat
  BY DEF Block
<1>2. l.id \in Completions /\ l.agent \in Agents /\ l.kind \in CompletionKinds
  BY <1>1, LogFields DEF CompletionKinds
<1>3. /\ \A i \in Completions \ {l.id} : v.completions[i] = w.completions[i]
      /\ f = CompletionAfter(c, l)
      /\ v \in World
  <2>1. v \in World
    BY <1>1, AfterType
  <2>2. \A i \in Completions :
           v.completions[i] = IF l.kind \in CompletionKinds /\ l.id = i
                              THEN CompletionAfter(w.completions[i], l)
                              ELSE w.completions[i]
    BY <1>1, AfterTables
  <2> HIDE DEF v, l
  <2> QED BY <1>2, <2>1, <2>2
<1>4. c \in Completion
  BY <1>2 DEF World
<1>5. c.agent = Nobody /\ c.counterparty = Nobody /\ ~c.disputed
  <2>1. c.agent = Nobody
    BY <1>2 DEF Emits
  <2>2. c.counterparty = Nobody /\ ~c.challenged
    BY <1>2, <2>1 DEF Sound
  <2>3. ~c.disputed
    BY <1>2, <2>2 DEF Sound
  <2> QED BY <2>1, <2>2, <2>3
<1>6. f.agent = l.agent /\ f.counterparty = Nobody /\ ~f.disputed
  <2>1. f = [c EXCEPT !.agent = l.agent]
    BY <1>3 DEF CompletionAfter
  <2> HIDE DEF f
  <2> QED BY <1>4, <1>5, <2>1 DEF Completion
<1>7. /\ e \in Database /\ e.receipts = d.receipts
      /\ e.scores = BumpedScores(d.scores, l.agent, Completed(ts))
      /\ e.completions = IF d.completions[l.id] = Nobody
                         THEN [d.completions EXCEPT ![l.id] = l.agent] ELSE d.completions
  BY ApplySelfAttested
<1>8. /\ d.scores \in [Agents -> Counters]
      /\ d.completions \in [Completions -> Agents \cup {Nobody}]
  BY DEF Database
<1>9. l.agent # Nobody
  BY <1>2, EventLogAssumption
<1> HIDE DEF e, v, l, c, f
<1>10. ASSUME NEW a \in Agents
       PROVE  CountersMove(d.scores[a], e.scores[a], c, f, a)
  <2> DEFINE m == d.scores[a]
  <2>1. m \in Counters
    BY <1>8
  <2>2. /\ m.completions \in Nat /\ m.confirmed \in Nat /\ m.disputes \in Nat
    BY <2>1 DEF Counters
  <2>3. a # Nobody
    BY EventLogAssumption
  <2>4. CASE l.agent # a
    <3>1. e.scores[a] = m
      BY <1>7, <1>8, <2>4 DEF BumpedScores
    <3> HIDE DEF m
    <3> QED BY <1>3, <1>5, <1>6, <2>1, <2>2, <2>3, <2>4, <3>1 DEF CountersMove, One, m
  <2>5. CASE l.agent = a
    <3>1. e.scores[a] = Bumped(m, Completed(ts))
      BY <1>7, <1>8, <2>5 DEF BumpedScores
    <3> DEFINE s == e.scores[a]
    <3> HIDE DEF m
    <3>2. /\ s.completions = m.completions + 1 /\ s.confirmed = m.confirmed
          /\ s.disputes = m.disputes
      BY <2>1, <3>1, BumpedFields
    <3> QED BY <1>3, <1>5, <1>6, <2>2, <2>3, <2>5, <3>2 DEF CountersMove, One, m
  <2> QED BY <2>4, <2>5
<1>11. /\ \A i \in Completions \ {l.id} :
             e.receipts[i] = d.receipts[i] /\ e.completions[i] = d.completions[i]
       /\ e.completions[l.id] = l.agent
  BY <1>2, <1>7, <1>8, <1>9 DEF l
<1>12. RowsTell(e, f, l.id)
  <2>1. d.receipts[l.id].counterparty = Nobody
    BY <1>2, <1>5 DEF CountsMatch, c
  <2> QED BY <1>6, <1>7, <1>11, <2>1 DEF RowsTell
<1>13. MoveTogether(d, e, w, v, l.id)
  BY <1>3, <1>10, <1>11, <1>12 DEF MoveTogether, c, f
<1>14. CountsMatch(e, v)
  BY <1>2, <1>3, <1>7, <1>13, CountsStep
<1> QED BY <1>14 DEF e, v, l

LEMMA CountReceiptAttested ==
  ASSUME NEW d \in Database, NEW b \in Block, NEW ts \in Nat, NEW w \in World, b.log.kind = "ReceiptAttested",
         Emits(w, b.log), CountsMatch(d, w)
  PROVE  CountsMatch(applyLog(d, b, ts), StateAfter(w, b.log, b.number))
<1> DEFINE e == applyLog(d, b, ts)
           v == StateAfter(w, b.log, b.number)
           l == b.log
           c == w.completions[l.id]
           f == v.completions[l.id]
<1>1. l \in Log /\ b.number \in Nat
  BY DEF Block
<1>2. /\ l.id \in Completions /\ l.agent \in Agents /\ l.counterparty \in Parties
      /\ l.kind \in CompletionKinds
  BY <1>1, LogFields DEF CompletionKinds
<1>3. /\ \A i \in Completions \ {l.id} : v.completions[i] = w.completions[i]
      /\ f = CompletionAfter(c, l)
      /\ v \in World
  <2>1. v \in World
    BY <1>1, AfterType
  <2>2. \A i \in Completions :
           v.completions[i] = IF l.kind \in CompletionKinds /\ l.id = i
                              THEN CompletionAfter(w.completions[i], l)
                              ELSE w.completions[i]
    BY <1>1, AfterTables
  <2> HIDE DEF v, l
  <2> QED BY <1>2, <2>1, <2>2
<1>4. c \in Completion
  BY <1>2 DEF World
<1>5. c.agent = l.agent /\ c.counterparty = Nobody /\ ~c.disputed
  BY <1>2 DEF Emits
<1>6. f.agent = l.agent /\ f.counterparty = l.counterparty /\ ~f.disputed
  <2>1. f = [c EXCEPT !.counterparty = l.counterparty]
    BY <1>3 DEF CompletionAfter
  <2> HIDE DEF f
  <2> QED BY <1>4, <1>5, <2>1 DEF Completion
<1>7. /\ e \in Database /\ e.completions = d.completions
      /\ e.receipts = [d.receipts EXCEPT ![l.id] =
                         [agent |-> l.agent, counterparty |-> l.counterparty]]
      /\ e.scores = BumpedScores(d.scores, l.agent, Confirmed(ts))
  BY ApplyReceiptAttested
<1>8. d.scores \in [Agents -> Counters] /\ d.receipts \in [Completions -> Receipt]
  BY DEF Database
<1>9. l.agent # Nobody /\ l.counterparty # Nobody
  BY <1>2, EventLogAssumption
<1> HIDE DEF e, v, l, c, f
<1>10. ASSUME NEW a \in Agents
       PROVE  CountersMove(d.scores[a], e.scores[a], c, f, a)
  <2> DEFINE m == d.scores[a]
  <2>1. m \in Counters
    BY <1>8
  <2>2. /\ m.completions \in Nat /\ m.confirmed \in Nat /\ m.disputes \in Nat
    BY <2>1 DEF Counters
  <2>3. CASE l.agent # a
    <3>1. e.scores[a] = m
      BY <1>7, <1>8, <2>3 DEF BumpedScores
    <3> HIDE DEF m
    <3> QED BY <1>3, <1>5, <1>6, <2>1, <2>2, <2>3, <3>1 DEF CountersMove, One, m
  <2>4. CASE l.agent = a
    <3>1. e.scores[a] = Bumped(m, Confirmed(ts))
      BY <1>7, <1>8, <2>4 DEF BumpedScores
    <3> DEFINE s == e.scores[a]
    <3> HIDE DEF m
    <3>2. /\ s.completions = m.completions /\ s.confirmed = m.confirmed + 1
          /\ s.disputes = m.disputes
      BY <2>1, <3>1, BumpedFields
    <3> QED BY <1>3, <1>5, <1>6, <1>9, <2>2, <2>4, <3>2 DEF CountersMove, One, m
  <2> QED BY <2>3, <2>4
<1>11. /\ \A i \in Completions \ {l.id} : e.receipts[i] = d.receipts[i]
       /\ e.receipts[l.id] = [agent |-> l.agent, counterparty |-> l.counterparty]
  BY <1>2, <1>7, <1>8
<1>12. RowsTell(e, f, l.id)
  <2>1. d.completions[l.id] = l.agent
    BY <1>2, <1>5, <1>9 DEF CountsMatch, c
  <2> QED BY <1>6, <1>7, <1>11, <2>1 DEF RowsTell
<1>13. MoveTogether(d, e, w, v, l.id)
  BY <1>3, <1>7, <1>10, <1>11, <1>12 DEF MoveTogether, c, f
<1>14. CountsMatch(e, v)
  BY <1>2, <1>3, <1>7, <1>13, CountsStep
<1> QED BY <1>14 DEF e, v, l

LEMMA CountReceiptRevoked ==
  ASSUME NEW d \in Database, NEW b \in Block, NEW ts \in Nat, NEW w \in World, b.log.kind = "ReceiptRevoked",
         Emits(w, b.log), CountsMatch(d, w)
  PROVE  CountsMatch(applyLog(d, b, ts), StateAfter(w, b.log, b.number))
<1> DEFINE e == applyLog(d, b, ts)
           v == StateAfter(w, b.log, b.number)
           l == b.log
           c == w.completions[l.id]
           f == v.completions[l.id]
<1>1. l \in Log /\ b.number \in Nat
  BY DEF Block
<1>2. l.id \in Completions /\ l.kind \in CompletionKinds
  BY <1>1, LogFields DEF CompletionKinds
<1>3. /\ \A i \in Completions \ {l.id} : v.completions[i] = w.completions[i]
      /\ f = CompletionAfter(c, l)
      /\ v \in World
  <2>1. v \in World
    BY <1>1, AfterType
  <2>2. \A i \in Completions :
           v.completions[i] = IF l.kind \in CompletionKinds /\ l.id = i
                              THEN CompletionAfter(w.completions[i], l)
                              ELSE w.completions[i]
    BY <1>1, AfterTables
  <2> HIDE DEF v, l
  <2> QED BY <1>2, <2>1, <2>2
<1>4. c \in Completion
  BY <1>2 DEF World
<1>5. c.agent # Nobody /\ c.counterparty # Nobody
  BY <1>2 DEF Emits
<1>6. f.agent = c.agent /\ f.counterparty = Nobody /\ f.disputed = c.disputed
  <2>1. f = [c EXCEPT !.counterparty = Nobody]
    BY <1>3 DEF CompletionAfter
  <2> HIDE DEF f
  <2> QED BY <1>4, <2>1 DEF Completion
<1>7. /\ e \in Database /\ e.completions = d.completions
      /\ RevokedBy(d, e, l.id, d.receipts[l.id].agent)
  BY ApplyReceiptRevoked
<1>8. d.receipts[l.id].counterparty = c.counterparty /\ d.receipts[l.id].agent = c.agent
      /\ d.completions[l.id] = c.agent
  BY <1>2, <1>5 DEF CountsMatch
<1>9. d.scores \in [Agents -> Counters] /\ d.receipts \in [Completions -> Receipt]
  BY DEF Database
<1> HIDE DEF e, v, l, c, f
<1>10. /\ e.receipts = [d.receipts EXCEPT ![l.id] = [agent |-> Nobody, counterparty |-> Nobody]]
       /\ e.scores = BumpedScores(d.scores, c.agent, Revoked)
  BY <1>5, <1>7, <1>8 DEF RevokedBy
<1>11. ASSUME NEW a \in Agents
       PROVE  CountersMove(d.scores[a], e.scores[a], c, f, a)
  <2> DEFINE m == d.scores[a]
  <2>1. m \in Counters
    BY <1>9
  <2>2. /\ m.completions \in Nat /\ m.confirmed \in Nat /\ m.disputes \in Nat
    BY <2>1 DEF Counters
  <2>3. CASE c.agent # a
    <3>1. e.scores[a] = m
      BY <1>9, <1>10, <2>3 DEF BumpedScores
    <3> HIDE DEF m
    <3> QED BY <1>3, <1>6, <2>1, <2>2, <2>3, <3>1 DEF CountersMove, One, m
  <2>4. CASE c.agent = a
    <3>1. e.scores[a] = Bumped(m, Revoked)
      BY <1>9, <1>10, <2>4 DEF BumpedScores
    <3>2. m.confirmed >= 1
      BY <1>2, <1>5, <2>4, ReceiptIsCounted DEF c
    <3> DEFINE s == e.scores[a]
    <3> HIDE DEF m
    <3>3. /\ s.completions = m.completions /\ s.confirmed = m.confirmed - 1
          /\ s.disputes = m.disputes
      BY <2>1, <3>1, <3>2, BumpedFields
    <3> QED BY <1>3, <1>5, <1>6, <2>1, <2>2, <2>4, <3>3 DEF CountersMove, One, m
  <2> QED BY <2>3, <2>4
<1>12. /\ \A i \in Completions \ {l.id} : e.receipts[i] = d.receipts[i]
       /\ e.receipts[l.id].counterparty = Nobody
  BY <1>2, <1>9, <1>10
<1>13. RowsTell(e, f, l.id)
  BY <1>6, <1>7, <1>8, <1>12 DEF RowsTell
<1>14. MoveTogether(d, e, w, v, l.id)
  BY <1>3, <1>7, <1>11, <1>12, <1>13 DEF MoveTogether, c, f
<1>15. CountsMatch(e, v)
  BY <1>2, <1>3, <1>7, <1>14, CountsStep
<1> QED BY <1>15 DEF e, v, l

\* A challenge that is upheld costs the agent a dispute, and the receipt if there is one.
LEMMA CountUpheldChallenge ==
  ASSUME NEW d \in Database, NEW b \in Block, NEW ts \in Nat, NEW w \in World, b.log.kind = "ChallengeResolved",
         b.log.upheld, Emits(w, b.log), Sound(w), CountsMatch(d, w)
  PROVE  CountsMatch(applyLog(d, b, ts), StateAfter(w, b.log, b.number))
<1> DEFINE e == applyLog(d, b, ts)
           v == StateAfter(w, b.log, b.number)
           l == b.log
           c == w.completions[l.id]
           f == v.completions[l.id]
           g == [d EXCEPT !.scores = BumpedScores(d.scores, d.completions[l.id], Disputed)]
<1>1. l \in Log /\ b.number \in Nat
  BY DEF Block
<1>2. l.id \in Completions /\ l.kind \in CompletionKinds
  BY <1>1, LogFields DEF CompletionKinds
<1>3. /\ \A i \in Completions \ {l.id} : v.completions[i] = w.completions[i]
      /\ f = CompletionAfter(c, l)
      /\ v \in World
  <2>1. v \in World
    BY <1>1, AfterType
  <2>2. \A i \in Completions :
           v.completions[i] = IF l.kind \in CompletionKinds /\ l.id = i
                              THEN CompletionAfter(w.completions[i], l)
                              ELSE w.completions[i]
    BY <1>1, AfterTables
  <2> HIDE DEF v, l
  <2> QED BY <1>2, <2>1, <2>2
<1>4. c \in Completion
  BY <1>2 DEF World
<1>5. c.agent # Nobody /\ ~c.disputed
  <2>1. c.agent # Nobody /\ c.pending
    BY <1>2 DEF Emits
  <2> QED BY <1>2, <2>1 DEF Sound
<1>6. f.agent = c.agent /\ f.counterparty = Nobody /\ f.disputed
  <2>1. f = [c EXCEPT !.pending = FALSE, !.disputed = TRUE, !.counterparty = Nobody]
    BY <1>1, <1>3, LogFields DEF CompletionAfter
  <2> HIDE DEF f
  <2> QED BY <1>4, <2>1 DEF Completion
<1>7. d.completions[l.id] = c.agent
  BY <1>2, <1>5 DEF CountsMatch
<1>8. /\ e \in Database /\ e.completions = d.completions /\ g \in Database
      /\ RevokedBy(g, e, l.id, d.completions[l.id])
  BY <1>5, <1>7, ApplyUpheldChallenge
<1>9. /\ d.scores \in [Agents -> Counters] /\ d.receipts \in [Completions -> Receipt]
      /\ g.receipts = d.receipts /\ g.scores = BumpedScores(d.scores, d.completions[l.id], Disputed)
  BY DEF Database
<1>10. RowsTell(d, c, l.id)
  BY <1>2 DEF CountsMatch, RowsTell
<1> HIDE DEF e, v, l, c, f, g
<1>11. /\ e.receipts = [d.receipts EXCEPT ![l.id] = [agent |-> Nobody, counterparty |-> Nobody]]
       /\ c.counterparty = Nobody => e.scores = g.scores
       /\ c.counterparty # Nobody => e.scores = BumpedScores(g.scores, c.agent, Revoked)
  BY <1>5, <1>7, <1>8, <1>9, <1>10 DEF RevokedBy, RowsTell
<1>12. ASSUME NEW a \in Agents
       PROVE  CountersMove(d.scores[a], e.scores[a], c, f, a)
  <2> DEFINE m == d.scores[a]
             n == g.scores[a]
             s == e.scores[a]
  <2>1. m \in Counters
    BY <1>9
  <2>2. /\ m.completions \in Nat /\ m.confirmed \in Nat /\ m.disputes \in Nat
    BY <2>1 DEF Counters
  <2>3. g.scores \in [Agents -> Counters]
    BY <1>8 DEF Database
  <2>4. CASE c.agent # a
    <3>1. n = m
      BY <1>7, <1>9, <2>4 DEF BumpedScores
    <3>2. s = m
      BY <1>11, <2>3, <2>4, <3>1 DEF BumpedScores
    <3> HIDE DEF m, s
    <3> QED BY <1>3, <1>6, <2>1, <2>2, <2>4, <3>2 DEF CountersMove, One, m, s
  <2>5. CASE c.agent = a
    <3>1. n = Bumped(m, Disputed)
      BY <1>7, <1>9, <2>5 DEF BumpedScores
    <3>2. /\ n.completions = m.completions /\ n.confirmed = m.confirmed
          /\ n.disputes = m.disputes + 1 /\ n \in Counters
      BY <2>1, <3>1, BumpedFields
    <3>3. CASE c.counterparty = Nobody
      <4>1. s = n
        BY <1>11, <3>3
      <4> HIDE DEF m, n, s
      <4> QED BY <1>3, <1>5, <1>6, <2>1, <2>2, <2>5, <3>2, <3>3, <4>1
              DEF CountersMove, One, m, s
    <3>4. CASE c.counterparty # Nobody
      <4>1. s = Bumped(n, Revoked)
        BY <1>11, <2>3, <2>5, <3>4 DEF BumpedScores
      <4>2. n.confirmed >= 1
        BY <1>2, <2>5, <3>2, <3>4, ReceiptIsCounted DEF c
      <4> HIDE DEF m, n, s
      <4>3. /\ s.completions = n.completions /\ s.confirmed = n.confirmed - 1
            /\ s.disputes = n.disputes
        BY <3>2, <4>1, <4>2, BumpedFields
      <4> QED BY <1>3, <1>5, <1>6, <2>1, <2>2, <2>5, <3>2, <3>4, <4>3
              DEF CountersMove, One, m, s
    <3> QED BY <3>3, <3>4
  <2> QED BY <2>4, <2>5
<1>13. /\ \A i \in Completions \ {l.id} : e.receipts[i] = d.receipts[i]
       /\ e.receipts[l.id].counterparty = Nobody
  BY <1>2, <1>9, <1>11
<1>14. RowsTell(e, f, l.id)
  BY <1>6, <1>7, <1>8, <1>13 DEF RowsTell
<1>15. MoveTogether(d, e, w, v, l.id)
  BY <1>3, <1>8, <1>12, <1>13, <1>14 DEF MoveTogether, c, f
<1>16. CountsMatch(e, v)
  BY <1>2, <1>3, <1>8, <1>15, CountsStep
<1> QED BY <1>16 DEF e, v, l

\* The other logs are about nothing that is counted.
LEMMA CountOtherLog ==
  ASSUME NEW d \in Database, NEW b \in Block, NEW ts \in Nat, NEW w \in World, b.log # NoLog,
         Emits(w, b.log), Sound(w), CountsMatch(d, w),
         b.log.kind \notin {"SelfAttested", "ReceiptAttested", "ReceiptRevoked"},
         ~(b.log.kind = "ChallengeResolved" /\ b.log.upheld)
  PROVE  /\ CountsMatch(applyLog(d, b, ts), StateAfter(w, b.log, b.number))
         /\ KeepsReputation(d, applyLog(d, b, ts))
<1> DEFINE e == applyLog(d, b, ts)
           v == StateAfter(w, b.log, b.number)
           l == b.log
<1>1. l \in Log /\ b.number \in Nat
  BY DEF Block
<1>2. KeepsReputation(d, e)
  <2>1. CASE l.kind \in {"ChallengeSubmitted", "ChallengeCancelled", "OwnerActed", "ChallengeResolved"}
    <3>1. e = recordAlert(d, b)
      BY <2>1, ApplyQuietLog
    <3>2. l.kind \in AlertKinds
      BY <2>1 DEF AlertKinds
    <3> QED BY <3>1, <3>2, RecordAlertKeeps
  <2>2. CASE l.kind \in CapabilityKinds
    BY <2>2, ApplyCapabilityLog
  <2>3. CASE l.kind = "AgentRegistered"
    BY <2>3, ApplyAgentRegistered
  <2>4. l.kind \in {"ChallengeSubmitted", "ChallengeCancelled", "OwnerActed", "ChallengeResolved",
                    "AgentRegistered"} \cup CapabilityKinds
    BY <1>1, LogFields DEF CompletionKinds
  <2> QED BY <2>1, <2>2, <2>3, <2>4
<1>3. v \in World
  BY <1>1, AfterType
<1>5. CASE l.kind \notin CompletionKinds
  <2>1. \A i \in Completions : v.completions[i] = w.completions[i]
    BY <1>1, <1>5, AfterTables
  <2> HIDE DEF v, e
  <2>2. v.completions = w.completions
    BY <1>3, <2>1 DEF World
  <2>3. CountsMatch(e, v)
    BY <1>2, <2>2, CountsNeedLittle DEF KeepsReputation
  <2> QED BY <1>2, <2>3 DEF e, v
<1>6. CASE l.kind \in CompletionKinds
  <2> DEFINE c == w.completions[l.id]
             f == v.completions[l.id]
  <2>1. l.id \in Completions /\ l.kind \in {"ChallengeSubmitted", "ChallengeResolved", "ChallengeCancelled"}
    BY <1>1, <1>6, LogFields DEF CompletionKinds
  <2>2. /\ \A i \in Completions \ {l.id} : v.completions[i] = w.completions[i]
        /\ f = CompletionAfter(c, l) /\ c \in Completion
    BY <1>1, <1>6, <2>1, AfterTables DEF World
  <2>3. f.agent = c.agent /\ f.counterparty = c.counterparty /\ f.disputed = c.disputed
    <3> HIDE DEF f
    <3>1. CASE l.kind = "ChallengeSubmitted"
      <4>1. f = [c EXCEPT !.challenged = TRUE, !.pending = TRUE]
        BY <2>2, <3>1 DEF CompletionAfter
      <4> QED BY <2>2, <4>1 DEF Completion
    <3>2. CASE l.kind = "ChallengeCancelled"
      <4>1. f = [c EXCEPT !.pending = FALSE]
        BY <2>2, <3>2 DEF CompletionAfter
      <4> QED BY <2>2, <4>1 DEF Completion
    <3>3. CASE l.kind = "ChallengeResolved"
      <4>1. l.upheld = FALSE
        BY <1>1, <3>3, LogFields
      <4>2. c.pending
        BY <1>6, <3>3 DEF Emits
      <4>3. c.disputed = FALSE
        BY <2>1, <2>2, <4>2 DEF Sound, Completion
      <4>4. f = [c EXCEPT !.pending = FALSE, !.disputed = FALSE, !.counterparty = c.counterparty]
        BY <2>2, <3>3, <4>1 DEF CompletionAfter
      <4> QED BY <2>2, <4>3, <4>4 DEF Completion
    <3> QED BY <2>1, <3>1, <3>2, <3>3
  <2>4. \A i \in Completions :
           /\ v.completions[i].agent = w.completions[i].agent
           /\ v.completions[i].counterparty = w.completions[i].counterparty
           /\ v.completions[i].disputed = w.completions[i].disputed
    BY <2>2, <2>3
  <2> HIDE DEF v, e
  <2>5. \A a \in Agents : CompletionsOf(v, a) = CompletionsOf(w, a)
    BY <2>4 DEF CompletionsOf
  <2>6. \A a \in Agents : ConfirmedOf(v, a) = ConfirmedOf(w, a) /\ DisputedOf(v, a) = DisputedOf(w, a)
    BY <2>4 DEF CompletionsOf, ConfirmedOf, DisputedOf
  <2>7. ASSUME NEW a \in Agents PROVE CountersOf(v, a) = CountersOf(w, a)
    <3>1. /\ CompletionsOf(v, a) = CompletionsOf(w, a) /\ ConfirmedOf(v, a) = ConfirmedOf(w, a)
          /\ DisputedOf(v, a) = DisputedOf(w, a)
      BY <2>5, <2>6
    <3> QED BY <3>1, Zenon DEF CountersOf
  <2>8. CountsMatch(e, v)
    BY <1>2, <2>4, <2>7 DEF CountsMatch, KeepsReputation
  <2> QED BY <1>2, <2>8 DEF e, v
<1> QED BY <1>5, <1>6

LEMMA CountsAfterLog ==
  ASSUME NEW d \in Database, NEW b \in Block, NEW ts \in Nat, NEW w \in World, b.log # NoLog,
         Emits(w, b.log), Sound(w), CountsMatch(d, w),
         b.log.kind = "SelfAttested" => d.completions[b.log.id] \in {Nobody, b.log.agent}
  PROVE  CountsMatch(applyLog(d, b, ts), StateAfter(w, b.log, b.number))
<1>1. CASE b.log.kind = "SelfAttested"
  BY <1>1, CountSelfAttested
<1>2. CASE b.log.kind = "ReceiptAttested"
  BY <1>2, CountReceiptAttested
<1>3. CASE b.log.kind = "ReceiptRevoked"
  BY <1>3, CountReceiptRevoked
<1>4. CASE b.log.kind = "ChallengeResolved" /\ b.log.upheld
  BY <1>4, CountUpheldChallenge
<1> QED BY <1>1, <1>2, <1>3, <1>4, CountOtherLog

\* Whatever log is applied, and to whichever tables, this is what it does to the counters
\* but for the receipts.
LEMMA ScoresGrow ==
  ASSUME NEW d \in Database, NEW b \in Block, NEW ts \in Nat, b.log # NoLog, NEW a \in Agents
  PROVE  LET l == b.log
             m == d.scores[a]
             s == applyLog(d, b, ts).scores[a]
         IN  /\ s.completions = m.completions + One(l.kind = "SelfAttested" /\ l.agent = a)
             /\ s.disputes = m.disputes + One(/\ l.kind = "ChallengeResolved" /\ l.upheld
                                              /\ d.completions[l.id] = a)
             /\ s.lastActivity = IF l.kind \in {"SelfAttested", "ReceiptAttested"} /\ l.agent = a
                                 THEN GreaterOf(m.lastActivity, ts) ELSE m.lastActivity
<1> DEFINE l == b.log
           e == applyLog(d, b, ts)
           m == d.scores[a]
           s == e.scores[a]
           Same == /\ s.completions = m.completions /\ s.disputes = m.disputes
                   /\ s.lastActivity = m.lastActivity
<1>1. l \in Log
  BY DEF Block
<1>2. d.scores \in [Agents -> Counters] /\ m \in Counters
  BY DEF Database
<1>3. m.completions \in Nat /\ m.disputes \in Nat /\ a # Nobody
  BY <1>2, EventLogAssumption DEF Counters
<1>4. CASE l.kind = "SelfAttested"
  <2>1. e.scores = BumpedScores(d.scores, l.agent, Completed(ts))
    BY <1>4, ApplySelfAttested
  <2> HIDE DEF e, m
  <2>2. s = IF l.agent = a THEN Bumped(m, Completed(ts)) ELSE m
    BY <1>2, <2>1 DEF BumpedScores, m
  <2> HIDE DEF s
  <2>3. l.agent = a => /\ s.completions = m.completions + 1 /\ s.disputes = m.disputes
                       /\ s.lastActivity = GreaterOf(m.lastActivity, ts)
    BY <1>2, <2>2, BumpedFields
  <2> QED BY <1>3, <1>4, <2>2, <2>3 DEF One, e, m, s
<1>5. CASE l.kind = "ReceiptAttested"
  <2>1. e.scores = BumpedScores(d.scores, l.agent, Confirmed(ts))
    BY <1>5, ApplyReceiptAttested
  <2> HIDE DEF e, m
  <2>2. s = IF l.agent = a THEN Bumped(m, Confirmed(ts)) ELSE m
    BY <1>2, <2>1 DEF BumpedScores, m
  <2> HIDE DEF s
  <2>3. l.agent = a => /\ s.completions = m.completions /\ s.disputes = m.disputes
                       /\ s.lastActivity = GreaterOf(m.lastActivity, ts)
    BY <1>2, <2>2, BumpedFields
  <2> QED BY <1>3, <1>5, <2>2, <2>3 DEF One, e, m, s
<1>6. CASE l.kind = "ReceiptRevoked"
  <2> DEFINE o == d.receipts[l.id].agent
  <2>1. e.scores = d.scores \/ e.scores = BumpedScores(d.scores, o, Revoked)
    BY <1>6, ApplyReceiptRevoked DEF RevokedBy
  <2> HIDE DEF e, m, o
  <2>2. s = m \/ s = Bumped(m, Revoked)
    BY <1>2, <2>1 DEF BumpedScores, m
  <2> HIDE DEF s
  <2>3. Same
    BY <1>2, <2>2, BumpedFields
  <2> QED BY <1>3, <1>6, <2>3 DEF One, e, m, s
<1>7. CASE l.kind = "ChallengeResolved" /\ l.upheld /\ d.completions[l.id] # Nobody
  <2> DEFINE o == d.completions[l.id]
             g == [d EXCEPT !.scores = BumpedScores(d.scores, o, Disputed)]
             n == g.scores[a]
  <2>1. RevokedBy(g, e, l.id, o)
    BY <1>7, ApplyUpheldChallenge
  <2>2. e.scores = g.scores \/ e.scores = BumpedScores(g.scores, o, Revoked)
    BY <2>1 DEF RevokedBy
  <2>3. g.scores = BumpedScores(d.scores, o, Disputed)
    BY DEF Database
  <2> HIDE DEF e, g, m, o
  <2>4. n = IF o = a THEN Bumped(m, Disputed) ELSE m
    BY <1>2, <2>3 DEF BumpedScores, m
  <2>5. s = n \/ s = Bumped(n, Revoked)
    BY <1>2, <2>2, <2>3 DEF BumpedScores
  <2> HIDE DEF n, s
  <2>6. /\ n \in Counters /\ n.completions = m.completions /\ n.lastActivity = m.lastActivity
        /\ n.disputes = m.disputes + One(o = a)
    BY <1>2, <1>3, <2>4, BumpedFields DEF One
  <2>7. /\ s.completions = n.completions /\ s.lastActivity = n.lastActivity
        /\ s.disputes = n.disputes
    BY <2>5, <2>6, BumpedFields
  <2>8. (l.kind = "ChallengeResolved" /\ l.upheld /\ d.completions[l.id] = a) <=> o = a
    BY <1>7 DEF o
  <2> QED BY <1>3, <1>7, <2>6, <2>7, <2>8 DEF One, e, m, s
<1>8. CASE /\ l.kind \notin {"SelfAttested", "ReceiptAttested", "ReceiptRevoked"}
           /\ ~(l.kind = "ChallengeResolved" /\ l.upheld /\ d.completions[l.id] # Nobody)
  <2>1. CASE l.kind \in {"ChallengeSubmitted", "ChallengeCancelled", "OwnerActed",
                         "ChallengeResolved"}
    <3>1. e = recordAlert(d, b) /\ l.kind \in AlertKinds
      BY <1>8, <2>1, ApplyQuietLog DEF AlertKinds
    <3> QED BY <1>3, <1>8, <3>1, RecordAlertKeeps DEF KeepsReputation, One
  <2>2. CASE l.kind \in CapabilityKinds \cup {"AgentRegistered"}
    <3>1. e.scores = d.scores
      BY <2>2, ApplyCapabilityLog, ApplyAgentRegistered DEF KeepsReputation
    <3> QED BY <1>3, <1>8, <3>1 DEF One
  <2> QED BY <1>1, <1>8, <2>1, <2>2, LogFields DEF CompletionKinds
<1> QED BY <1>4, <1>5, <1>6, <1>7, <1>8

-----------------------------------------------------------------------------
(* The time of the last activity, and what is left of the counters if logs are counted twice *)

\* The activity of an agent is that of state w, whichever time it is given if the node does
\* not have every block.
ActivityMatches(d, w, every) ==
    \A a \in Agents :
        /\ w.lastActivity[a] = 0 => d.scores[a].lastActivity = 0
        /\ every => d.scores[a].lastActivity = w.lastActivity[a]

LEMMA ActivityAfterLog ==
  ASSUME NEW d \in Database, NEW b \in Block, NEW ts \in Nat, NEW w \in World, b.log # NoLog,
         \A a \in Agents : w.lastActivity[a] <= b.number, b.number # 0,
         NEW every, every => ts = b.number, ActivityMatches(d, w, every)
  PROVE  ActivityMatches(applyLog(d, b, ts), StateAfter(w, b.log, b.number), every)
<1> DEFINE l == b.log
           e == applyLog(d, b, ts)
           v == StateAfter(w, l, b.number)
<1> SUFFICES ASSUME NEW a \in Agents
             PROVE  /\ v.lastActivity[a] = 0 => e.scores[a].lastActivity = 0
                    /\ every => e.scores[a].lastActivity = v.lastActivity[a]
  BY DEF ActivityMatches
<1>1. l \in Log /\ b.number \in Nat /\ w.lastActivity[a] \in Nat
  BY DEF Block, World
<1>2. v.lastActivity[a] = IF l.kind \in {"SelfAttested", "ReceiptAttested"} /\ l.agent = a
                          THEN b.number ELSE w.lastActivity[a]
  BY <1>1, AfterTables
<1>3. e.scores[a].lastActivity =
         IF l.kind \in {"SelfAttested", "ReceiptAttested"} /\ l.agent = a
         THEN GreaterOf(d.scores[a].lastActivity, ts) ELSE d.scores[a].lastActivity
  BY ScoresGrow
<1>4. /\ w.lastActivity[a] = 0 => d.scores[a].lastActivity = 0
      /\ every => d.scores[a].lastActivity = w.lastActivity[a]
  BY DEF ActivityMatches
<1> HIDE DEF e, v, l
<1> QED BY <1>1, <1>2, <1>3, <1>4 DEF GreaterOf

\* The tables have seen at least what led to state w.
AtLeast(d, w) ==
    /\ \A a \in Agents :
          /\ d.scores[a].completions >= Cardinality(CompletionsOf(w, a))
          /\ d.scores[a].disputes >= Cardinality(DisputedOf(w, a))
          /\ d.scores[a].lastActivity >= w.lastActivity[a]
    /\ \A i \in Completions :
          w.completions[i].agent # Nobody => d.completions[i] = w.completions[i].agent

\* Tables that have seen more have still seen that.
Outgrows(e, d) ==
    /\ \A a \in Agents : /\ e.scores[a].completions >= d.scores[a].completions
                         /\ e.scores[a].disputes >= d.scores[a].disputes
                         /\ e.scores[a].lastActivity >= d.scores[a].lastActivity
    /\ \A i \in Completions : d.completions[i] # Nobody => e.completions[i] = d.completions[i]

LEMMA CardinalitiesOf ==
  ASSUME NEW w, NEW a
  PROVE  Cardinality(CompletionsOf(w, a)) \in Nat /\ Cardinality(DisputedOf(w, a)) \in Nat
<1>1. CompletionsOf(w, a) \subseteq Completions /\ DisputedOf(w, a) \subseteq Completions
  BY DEF CompletionsOf, DisputedOf
<1> QED BY <1>1, CompletionsFinite, FS_Subset, FS_CardinalityType

LEMMA AtLeastStays ==
  ASSUME NEW d \in Database, NEW e \in Database, NEW v \in World, NEW w \in World,
         AtLeast(d, v), Outgrows(e, d),
         w.completions = v.completions, w.lastActivity = v.lastActivity
  PROVE  AtLeast(e, w)
<1>1. ASSUME NEW a \in Agents
      PROVE  /\ e.scores[a].completions >= Cardinality(CompletionsOf(w, a))
             /\ e.scores[a].disputes >= Cardinality(DisputedOf(w, a))
             /\ e.scores[a].lastActivity >= w.lastActivity[a]
  <2>1. CompletionsOf(w, a) = CompletionsOf(v, a) /\ DisputedOf(w, a) = DisputedOf(v, a)
    BY DEF CompletionsOf, DisputedOf
  <2>2. d.scores[a] \in Counters /\ e.scores[a] \in Counters /\ v.lastActivity[a] \in Nat
    BY DEF Database, World
  <2>3. Cardinality(CompletionsOf(v, a)) \in Nat /\ Cardinality(DisputedOf(v, a)) \in Nat
    BY CardinalitiesOf
  <2> QED BY <2>1, <2>2, <2>3 DEF AtLeast, Outgrows, Counters
<1>2. ASSUME NEW i \in Completions, w.completions[i].agent # Nobody
      PROVE  e.completions[i] = w.completions[i].agent
  BY <1>2 DEF AtLeast, Outgrows
<1> QED BY <1>1, <1>2 DEF AtLeast

\* Only an attestation writes a completion, and only where there is none.
LEMMA CompletionsAfterLog ==
  ASSUME NEW d \in Database, NEW b \in Block, NEW ts \in Nat, b.log # NoLog
  PROVE  applyLog(d, b, ts).completions =
            IF b.log.kind = "SelfAttested" /\ d.completions[b.log.id] = Nobody
            THEN [d.completions EXCEPT ![b.log.id] = b.log.agent] ELSE d.completions
<1> DEFINE l == b.log
           e == applyLog(d, b, ts)
<1>1. l \in Log
  BY DEF Block
<1>2. CASE l.kind = "SelfAttested"
  BY <1>2, ApplySelfAttested
<1>3. CASE l.kind # "SelfAttested"
  <2>1. CASE l.kind = "ReceiptAttested"
    BY <2>1, ApplyReceiptAttested
  <2>2. CASE l.kind = "ReceiptRevoked"
    BY <2>2, ApplyReceiptRevoked
  <2>3. CASE l.kind = "ChallengeResolved" /\ l.upheld /\ d.completions[l.id] # Nobody
    BY <2>3, ApplyUpheldChallenge
  <2>4. CASE \/ l.kind \in {"ChallengeSubmitted", "ChallengeCancelled", "OwnerActed"}
             \/ l.kind = "ChallengeResolved" /\ ~(l.upheld /\ d.completions[l.id] # Nobody)
    <3>1. e = recordAlert(d, b) /\ l.kind \in AlertKinds
      BY <2>4, ApplyQuietLog DEF AlertKinds
    <3>2. e.completions = d.completions
      BY <3>1, RecordAlertKeeps DEF KeepsReputation
    <3> QED BY <1>3, <3>2
  <2>5. CASE l.kind \in CapabilityKinds
    <3>1. e.completions = d.completions
      BY <2>5, ApplyCapabilityLog DEF KeepsReputation
    <3> QED BY <1>3, <3>1
  <2>6. CASE l.kind = "AgentRegistered"
    <3>1. e.completions = d.completions
      BY <2>6, ApplyAgentRegistered DEF KeepsReputation
    <3> QED BY <1>3, <3>1
  <2> QED BY <1>1, <1>3, <2>1, <2>2, <2>3, <2>4, <2>5, <2>6, LogFields DEF CompletionKinds
<1> QED BY <1>2, <1>3

\* Tables only grow while logs are applied.
LEMMA LogsOutgrow ==
  ASSUME NEW d \in Database, NEW b \in Block, NEW ts \in Nat, b.log # NoLog
  PROVE  Outgrows(applyLog(d, b, ts), d)
<1> DEFINE e == applyLog(d, b, ts)
<1>1. b.log \in Log /\ d.completions \in [Completions -> Agents \cup {Nobody}]
  BY DEF Block, Database
<1>2. ASSUME NEW a \in Agents
      PROVE  /\ e.scores[a].completions >= d.scores[a].completions
             /\ e.scores[a].disputes >= d.scores[a].disputes
             /\ e.scores[a].lastActivity >= d.scores[a].lastActivity
  <2>1. d.scores[a] \in Counters
    BY DEF Database
  <2>2. LET l == b.log
            m == d.scores[a]
        IN  /\ e.scores[a].completions =
                  m.completions + One(l.kind = "SelfAttested" /\ l.agent = a)
            /\ e.scores[a].disputes =
                  m.disputes + One(/\ l.kind = "ChallengeResolved" /\ l.upheld
                                   /\ d.completions[l.id] = a)
            /\ e.scores[a].lastActivity =
                  IF l.kind \in {"SelfAttested", "ReceiptAttested"} /\ l.agent = a
                  THEN GreaterOf(m.lastActivity, ts) ELSE m.lastActivity
    BY ScoresGrow
  <2> HIDE DEF e
  <2> QED BY <2>1, <2>2 DEF Counters, One, GreaterOf
<1>3. ASSUME NEW i \in Completions, d.completions[i] # Nobody
      PROVE  e.completions[i] = d.completions[i]
  <2>1. e.completions = IF b.log.kind = "SelfAttested" /\ d.completions[b.log.id] = Nobody
                        THEN [d.completions EXCEPT ![b.log.id] = b.log.agent] ELSE d.completions
    BY CompletionsAfterLog
  <2> HIDE DEF e
  <2> QED BY <1>1, <1>3, <2>1
<1> HIDE DEF e
<1> QED BY <1>2, <1>3 DEF Outgrows, e

\* Tables that have seen what led to a state have seen what led to the next one, once its
\* log is applied.
LEMMA AtLeastAfterLog ==
  ASSUME NEW d \in Database, NEW b \in Block, NEW ts \in Nat, NEW w \in World, b.log # NoLog,
         Emits(w, b.log), Sound(w), AtLeast(d, w), ts >= b.number,
         b.log.kind = "SelfAttested" => d.completions[b.log.id] \in {Nobody, b.log.agent}
  PROVE  AtLeast(applyLog(d, b, ts), StateAfter(w, b.log, b.number))
<1> DEFINE l == b.log
           e == applyLog(d, b, ts)
           v == StateAfter(w, l, b.number)
           c == w.completions[l.id]
           f == v.completions[l.id]
<1>1. l \in Log /\ b.number \in Nat /\ v \in World
  <2>1. l \in Log /\ b.number \in Nat
    BY DEF Block
  <2> QED BY <2>1, AfterType
<1>2. /\ \A i \in Completions : v.completions[i] = IF l.kind \in CompletionKinds /\ l.id = i
                                                    THEN CompletionAfter(w.completions[i], l)
                                                    ELSE w.completions[i]
      /\ \A a \in Agents :
            v.lastActivity[a] = IF l.kind \in {"SelfAttested", "ReceiptAttested"} /\ l.agent = a
                                THEN b.number ELSE w.lastActivity[a]
  BY <1>1, AfterTables
<1>3. l.kind \in CompletionKinds => l.id \in Completions /\ c \in Completion /\ f \in Completion
  BY <1>1, LogFields DEF World
<1>4. Outgrows(e, d)
  BY LogsOutgrow
<1>5. e.completions = IF l.kind = "SelfAttested" /\ d.completions[l.id] = Nobody
                      THEN [d.completions EXCEPT ![l.id] = l.agent] ELSE d.completions
  BY CompletionsAfterLog
<1>6. \A a \in Agents :
         LET m == d.scores[a]
             s == e.scores[a]
         IN  /\ s.completions = m.completions + One(l.kind = "SelfAttested" /\ l.agent = a)
             /\ s.disputes = m.disputes + One(/\ l.kind = "ChallengeResolved" /\ l.upheld
                                              /\ d.completions[l.id] = a)
             /\ s.lastActivity = IF l.kind \in {"SelfAttested", "ReceiptAttested"} /\ l.agent = a
                                 THEN GreaterOf(m.lastActivity, ts) ELSE m.lastActivity
  BY ScoresGrow
<1>7. /\ d.completions \in [Completions -> Agents \cup {Nobody}]
      /\ d.scores \in [Agents -> Counters] /\ w.lastActivity \in [Agents -> Nat]
  BY DEF Database, World
<1> HIDE DEF e, v
<1>8. l.kind \in CompletionKinds =>
         /\ f.agent = IF l.kind = "SelfAttested" THEN l.agent ELSE c.agent
         /\ f.disputed = IF l.kind = "ChallengeResolved" THEN l.upheld ELSE c.disputed
         /\ l.kind # "SelfAttested" => c.agent # Nobody
         /\ l.kind = "SelfAttested" => c.agent = Nobody /\ ~c.disputed
  <2> SUFFICES ASSUME l.kind \in CompletionKinds
               PROVE  /\ f.agent = IF l.kind = "SelfAttested" THEN l.agent ELSE c.agent
                      /\ f.disputed = IF l.kind = "ChallengeResolved" THEN l.upheld ELSE c.disputed
                      /\ l.kind # "SelfAttested" => c.agent # Nobody
                      /\ l.kind = "SelfAttested" => c.agent = Nobody /\ ~c.disputed
    OBVIOUS
  <2>1. f = CompletionAfter(c, l) /\ c \in Completion /\ l.id \in Completions
    BY <1>2, <1>3
  <2>2. /\ l.kind # "SelfAttested" => c.agent # Nobody
        /\ l.kind = "SelfAttested" => c.agent = Nobody /\ ~c.disputed
    BY <2>1, EventLogAssumption DEF Emits, Sound, CompletionKinds
  <2> HIDE DEF f, c
  <2>3. /\ f.agent = IF l.kind = "SelfAttested" THEN l.agent ELSE c.agent
        /\ f.disputed = IF l.kind = "ChallengeResolved" THEN l.upheld ELSE c.disputed
    BY <2>1 DEF CompletionAfter, Completion, CompletionKinds
  <2> QED BY <2>2, <2>3
<1>9. ASSUME NEW a \in Agents
      PROVE  /\ e.scores[a].completions >= Cardinality(CompletionsOf(v, a))
             /\ e.scores[a].disputes >= Cardinality(DisputedOf(v, a))
             /\ e.scores[a].lastActivity >= v.lastActivity[a]
  <2>1. /\ d.scores[a].completions \in Nat /\ d.scores[a].disputes \in Nat
        /\ d.scores[a].lastActivity \in Nat /\ w.lastActivity[a] \in Nat
    BY <1>7 DEF Counters
  <2>2. /\ d.scores[a].completions >= Cardinality(CompletionsOf(w, a))
        /\ d.scores[a].disputes >= Cardinality(DisputedOf(w, a))
        /\ d.scores[a].lastActivity >= w.lastActivity[a]
    BY DEF AtLeast
  <2>3. /\ Cardinality(CompletionsOf(w, a)) \in Nat /\ Cardinality(DisputedOf(w, a)) \in Nat
        /\ Cardinality(CompletionsOf(v, a)) \in Nat /\ Cardinality(DisputedOf(v, a)) \in Nat
    BY CardinalitiesOf
  <2>4. e.scores[a].lastActivity >= v.lastActivity[a]
    <3>1. v.lastActivity[a] = IF l.kind \in {"SelfAttested", "ReceiptAttested"} /\ l.agent = a
                              THEN b.number ELSE w.lastActivity[a]
      BY <1>2
    <3>2. e.scores[a].lastActivity =
             IF l.kind \in {"SelfAttested", "ReceiptAttested"} /\ l.agent = a
             THEN GreaterOf(d.scores[a].lastActivity, ts) ELSE d.scores[a].lastActivity
      BY <1>6, Zenon
    <3> HIDE DEF l
    <3> QED BY <1>1, <2>1, <2>2, <3>1, <3>2 DEF GreaterOf
  <2>5. CASE l.kind \notin CompletionKinds
    <3>1. \A i \in Completions : v.completions[i] = w.completions[i]
      BY <1>2, <2>5
    <3>2. CompletionsOf(v, a) = CompletionsOf(w, a) /\ DisputedOf(v, a) = DisputedOf(w, a)
      BY <3>1 DEF CompletionsOf, DisputedOf
    <3>3. /\ e.scores[a].completions >= d.scores[a].completions
          /\ e.scores[a].disputes >= d.scores[a].disputes
      BY <1>4 DEF Outgrows
    <3>4. e.scores[a].completions \in Nat /\ e.scores[a].disputes \in Nat
      BY <1>6, <2>1 DEF One
    <3> QED BY <2>1, <2>2, <2>3, <2>4, <3>2, <3>3, <3>4
  <2>6. CASE l.kind \in CompletionKinds
    <3>1. \A i \in Completions \ {l.id} : v.completions[i] = w.completions[i]
      BY <1>2
    <3>2. /\ Cardinality(CompletionsOf(v, a)) =
                Cardinality(CompletionsOf(w, a)) + One(f.agent = a) - One(c.agent = a)
          /\ Cardinality(DisputedOf(v, a)) =
                Cardinality(DisputedOf(w, a)) + One(f.agent = a /\ f.disputed)
                                              - One(c.agent = a /\ c.disputed)
      BY <1>1, <1>3, <2>6, <3>1, CountersAfter DEF CountersOf
    <3>3. l.kind = "ChallengeResolved" => l.id \in Completions /\ l.upheld \in BOOLEAN
      BY <1>1, <2>6, LogFields
    <3>4. l.kind # "SelfAttested" => d.completions[l.id] = c.agent
      BY <1>3, <1>8, <2>6 DEF AtLeast
    <3>5. a # Nobody
      BY EventLogAssumption
    <3>6. /\ One(f.agent = a) - One(c.agent = a) <= One(l.kind = "SelfAttested" /\ l.agent = a)
          /\ One(f.agent = a /\ f.disputed) - One(c.agent = a /\ c.disputed) <=
                One(l.kind = "ChallengeResolved" /\ l.upheld /\ d.completions[l.id] = a)
      <4>1. CASE l.kind = "SelfAttested"
        BY <1>3, <1>8, <2>6, <3>5, <4>1 DEF One
      <4>2. CASE l.kind # "SelfAttested"
        BY <1>3, <1>8, <2>6, <3>3, <3>4, <3>5, <4>2 DEF One
      <4> QED BY <4>1, <4>2
    <3> HIDE DEF c, f, l
    <3> QED BY <1>6, <2>1, <2>2, <2>3, <2>4, <3>2, <3>6 DEF One
  <2> QED BY <2>5, <2>6
<1>10. ASSUME NEW i \in Completions, v.completions[i].agent # Nobody
       PROVE  e.completions[i] = v.completions[i].agent
  <2>1. CASE l.kind = "SelfAttested" /\ l.id = i
    <3>1. v.completions[i].agent = l.agent
      BY <1>8, <2>1 DEF CompletionKinds
    <3>2. d.completions[i] \in {Nobody, l.agent}
      BY <2>1
    <3> QED BY <1>5, <1>7, <2>1, <3>1, <3>2
  <2>2. CASE ~(l.kind = "SelfAttested" /\ l.id = i)
    <3>1. v.completions[i].agent = w.completions[i].agent
      BY <1>2, <1>8, <2>2
    <3>2. d.completions[i] = w.completions[i].agent /\ d.completions[i] # Nobody
      BY <1>10, <3>1 DEF AtLeast
    <3>3. e.completions[i] = d.completions[i]
      BY <1>4, <3>2 DEF Outgrows
    <3> QED BY <3>1, <3>2, <3>3
  <2> QED BY <2>1, <2>2
<1> QED BY <1>9, <1>10 DEF AtLeast, e, v

-----------------------------------------------------------------------------
(* The scores of a lone poll *)

NoCrash == "crash" \notin scenario.faults
EveryBlock == "null" \notin scenario.faults

AppliedBlocks == {n \in 1..Len(chain) : chain[n].hash \in Applied}

LEMMA IndexedIs ==
  TypeOK =>
    /\ AppliedBlocks \in SUBSET (1..Len(chain)) /\ Len(chain) \in Nat
    /\ IndexedTo = LastOf(AppliedBlocks) /\ IndexedTo \in 0..Len(chain)
    /\ IndexedTo = 0 \/ IndexedTo \in AppliedBlocks
    /\ \A n \in AppliedBlocks : n <= IndexedTo
    /\ Indexed = StateAt(chain, IndexedTo) /\ Indexed \in World
<1> SUFFICES ASSUME TypeOK
             PROVE  /\ AppliedBlocks \in SUBSET (1..Len(chain)) /\ Len(chain) \in Nat
                    /\ IndexedTo = LastOf(AppliedBlocks) /\ IndexedTo \in 0..Len(chain)
                    /\ IndexedTo = 0 \/ IndexedTo \in AppliedBlocks
                    /\ \A n \in AppliedBlocks : n <= IndexedTo
                    /\ Indexed = StateAt(chain, IndexedTo) /\ Indexed \in World
  OBVIOUS
<1>1. AppliedBlocks \in SUBSET (1..Len(chain)) /\ Len(chain) \in Nat
  BY BlockFacts DEF AppliedBlocks
<1>2. IndexedTo = LastOf(AppliedBlocks)
  BY DEF IndexedTo, LastOf, AppliedBlocks
<1>3. /\ IndexedTo \in 0..Len(chain) /\ (IndexedTo = 0 \/ IndexedTo \in AppliedBlocks)
      /\ \A n \in AppliedBlocks : n <= IndexedTo
  BY <1>1, <1>2, LastOfFacts
<1>4. Indexed = StateAt(chain, IndexedTo)
  BY DEF Indexed
<1> QED BY <1>1, <1>2, <1>3, <1>4, BlockFacts

LEMMA IndexedNext ==
  (TypeOK =>
    /\ AppliedBlocks \in SUBSET (1..Len(chain)) /\ Len(chain) \in Nat
    /\ IndexedTo = LastOf(AppliedBlocks) /\ IndexedTo \in 0..Len(chain)
    /\ IndexedTo = 0 \/ IndexedTo \in AppliedBlocks
    /\ \A n \in AppliedBlocks : n <= IndexedTo
    /\ Indexed = StateAt(chain, IndexedTo) /\ Indexed \in World)'
BY IndexedIs, PTL

\* Whatever is owed before an applied block is applied.
PrefixOK ==
    \A n \in AppliedBlocks : \A m \in 1..n : Owes(chain[m].log) => m \in AppliedBlocks

\* Retention forgets what a poll has behind it, so a log about to be applied never was.
FreshOK(p) ==
    LET q == polls[p]
    IN  /\ \A m \in db.forgotten : m.block <= db.lastBlock
        /\ q.pc \in {"logs", "stamp", "enrich", "mark", "hash"} =>
              \A m \in db.forgotten : m.block <= q.from
        /\ q.pc \in {"stamp", "enrich"} => chain[At(q)].hash \notin Applied

\* A completion of the database is one that the contract has by the settled block: it
\* outlives a rebuild.
RowsKnown(d, w) ==
    \A i \in Completions :
        d.completions[i] # Nobody => w.completions[i].agent = d.completions[i]

KnownOK == RowsKnown(db, StateAt(chain, settled))

\* What was counted up to the last applied block stays counted, if not once more.
Lags == \A m \in 0..IndexedTo : AtLeast(db, StateAt(chain, m))

ScoreOK ==
    PrefixOK /\ CountsMatch(db, Indexed) /\ ActivityMatches(db, Indexed, EveryBlock)

\* What is known of a poll that no other is under way with.
LoneOK == \A p \in Polls : Lone(p) => CursorOK(p) /\ FreshOK(p)

\* The chain moves above what is settled.
MovesOn ==
    /\ \A n \in 1..Len(chain) : n <= settled => n <= Len(chain') /\ chain'[n] = chain[n]
    /\ settled <= settled' /\ scenario' = scenario

\* What is applied is settled.
LEMMA IndexSettled ==
  ASSUME Base, NoReorg, MarksOK
  PROVE  /\ settled \in Nat /\ Len(chain) \in Nat /\ settled <= Len(chain)
         /\ \A h \in Applied : \E n \in 1..settled : h = chain[n].hash
         /\ \A n \in AppliedBlocks : n \in 1..settled
         /\ IndexedTo \in 0..settled
<1>1. /\ TypeOK /\ ChainOK /\ DepthOK /\ settled \in Nat /\ Len(chain) \in Nat
      /\ settled <= Len(chain)
  BY BlockFacts DEF Base, TypeOK, DepthOK, NoReorg
<1>2. \A h \in Applied : \E n \in 1..settled : h = chain[n].hash
  <2> SUFFICES ASSUME NEW h \in Applied PROVE \E n \in 1..settled : h = chain[n].hash
    OBVIOUS
  <2>1. PICK n \in 1..Len(chain) : n <= settled /\ h = chain[n].hash
    BY CanonicalMarks
  <2>2. n \in 1..settled
    BY <1>1, <2>1
  <2> QED BY <2>1, <2>2
<1>3. \A n \in AppliedBlocks : n \in 1..settled
  <2> SUFFICES ASSUME NEW n \in AppliedBlocks PROVE n \in 1..settled
    OBVIOUS
  <2>1. n \in 1..Len(chain) /\ chain[n].hash \in Applied
    BY DEF AppliedBlocks
  <2>2. PICK m \in 1..settled : chain[n].hash = chain[m].hash
    BY <1>2, <2>1
  <2>3. m \in 1..Len(chain)
    BY <1>1
  <2>4. m = n
    BY <1>1, <2>1, <2>2, <2>3 DEF ChainOK
  <2> QED BY <2>4
<1>4. IndexedTo \in 0..settled
  BY <1>1, <1>3, IndexedIs
<1> QED BY <1>1, <1>2, <1>3, <1>4

\* The last applied block comes no later when the chain moves on, whatever is taken back.
LEMMA IndexFalls ==
  ASSUME Base, Base', NoReorg, MarksOK, MovesOn, Applied' \in SUBSET Applied
  PROVE  /\ \A n \in 1..settled : /\ n \in 1..Len(chain) /\ n \in 1..Len(chain')
                                  /\ chain'[n] = chain[n]
         /\ \A n \in 0..settled : StateAt(chain', n) = StateAt(chain, n)
         /\ AppliedBlocks' \in SUBSET AppliedBlocks
         /\ IndexedTo' \in 0..IndexedTo
<1>1. /\ settled \in Nat /\ Len(chain) \in Nat /\ settled <= Len(chain)
      /\ \A h \in Applied : \E n \in 1..settled : h = chain[n].hash
      /\ IndexedTo \in 0..settled
  BY IndexSettled
<1>2. TypeOK' /\ ChainOK' /\ Len(chain') \in Nat
  BY IndexedNext DEF Base
<1>3. \A n \in 1..settled : /\ n \in 1..Len(chain) /\ n \in 1..Len(chain')
                            /\ chain'[n] = chain[n]
  BY <1>1, <1>2 DEF MovesOn
<1>4. \A n \in 0..settled : StateAt(chain', n) = StateAt(chain, n)
  <2> SUFFICES ASSUME NEW n \in 0..settled PROVE StateAt(chain', n) = StateAt(chain, n)
    OBVIOUS
  <2>1. n # 0 => n \in 1..settled
    BY <1>1
  <2> QED BY <1>3, <2>1 DEF StateAt
<1>5. AppliedBlocks' \in SUBSET AppliedBlocks
  <2> SUFFICES ASSUME NEW n \in AppliedBlocks' PROVE n \in AppliedBlocks
    OBVIOUS
  <2>1. n \in 1..Len(chain') /\ chain'[n].hash \in Applied'
    BY DEF AppliedBlocks
  <2>2. PICK m \in 1..settled : chain'[n].hash = chain[m].hash
    BY <1>1, <2>1
  <2>3. m = n
    BY <1>2, <1>3, <2>1, <2>2 DEF ChainOK
  <2> QED BY <1>3, <2>1, <2>2, <2>3 DEF AppliedBlocks
<1>6. IndexedTo' \in 0..IndexedTo
  <2>1. /\ IndexedTo' \in Nat /\ (IndexedTo' = 0 \/ IndexedTo' \in AppliedBlocks')
    BY <1>2, IndexedNext
  <2>2. \A n \in AppliedBlocks : n <= IndexedTo
    BY IndexedIs DEF Base
  <2> QED BY <1>1, <1>5, <2>1, <2>2
<1> QED BY <1>3, <1>4, <1>5, <1>6

LEMMA SameIndex ==
  ASSUME Base, Base', NoReorg, MarksOK, MovesOn, Applied' = Applied
  PROVE  /\ AppliedBlocks' = AppliedBlocks /\ \A n \in AppliedBlocks : n <= settled
         /\ IndexedTo' = IndexedTo /\ IndexedTo <= settled /\ settled <= Len(chain)
         /\ Indexed' = Indexed
         /\ StateAt(chain', settled) = StateAt(chain, settled)
         /\ PrefixOK => PrefixOK'
<1>1. /\ TypeOK /\ TypeOK' /\ settled \in Nat /\ Len(chain) \in Nat /\ settled <= Len(chain)
      /\ IndexedTo \in 0..settled /\ \A n \in AppliedBlocks : n \in 1..settled
  BY IndexSettled DEF Base
<1>2. /\ \A n \in 1..settled : /\ n \in 1..Len(chain) /\ n \in 1..Len(chain')
                               /\ chain'[n] = chain[n]
      /\ \A n \in 0..settled : StateAt(chain', n) = StateAt(chain, n)
      /\ AppliedBlocks' \in SUBSET AppliedBlocks
  BY IndexFalls
<1>3. AppliedBlocks' = AppliedBlocks
  <2>1. \A n \in 1..settled : n \in AppliedBlocks => n \in AppliedBlocks'
    BY <1>2 DEF AppliedBlocks
  <2> QED BY <1>1, <1>2, <2>1
<1>4. IndexedTo' = IndexedTo
  BY <1>1, <1>3, IndexedIs, IndexedNext
<1>5. Indexed' = Indexed
  BY <1>1, <1>2, <1>4, IndexedIs, IndexedNext
<1>6. settled \in 0..settled
  BY <1>1
<1>7. PrefixOK => PrefixOK'
  <2>1. ASSUME NEW n \in AppliedBlocks, NEW m \in 1..n PROVE chain'[m] = chain[m]
    <3>1. n \in 1..settled
      BY <1>1
    <3>2. m \in 1..settled
      BY <1>1, <3>1
    <3> QED BY <1>2, <3>2
  <2> QED BY <1>3, <2>1 DEF PrefixOK
<1> QED BY <1>1, <1>2, <1>3, <1>4, <1>5, <1>6, <1>7

\* A row that the contract knows it knows for good.
LEMMA RowsStayKnown ==
  ASSUME Base, Base', NoReorg, MarksOK, MovesOn, Applied' \in SUBSET Applied, KnownOK,
         db'.completions = db.completions
  PROVE  KnownOK'
<1>1. StateAt(chain', settled) = StateAt(chain, settled)
  <2>1. settled \in 0..settled
    BY IndexSettled
  <2> QED BY <2>1, IndexFalls
<1>2. Later(StateAt(chain', settled), StateAt(chain', settled'))
  <2>1. /\ ChainOK' /\ settled \in Nat /\ settled' \in Nat /\ Len(chain') \in Nat
        /\ settled <= settled' /\ settled' <= Len(chain')
    BY IndexedNext DEF Base, TypeOK, DepthOK, NoReorg, MovesOn
  <2>2. settled' \in 0..Len(chain') /\ settled \in 0..settled'
    BY <2>1
  <2> QED BY <2>1, <2>2 DEF ChainOK
<1> QED BY <1>1, <1>2 DEF KnownOK, RowsKnown, Later

LEMMA FreshTurn ==
  ASSUME Base, NEW p \in Polls, NEW safeHead, NEW from, NEW d \in Database,
         Turns(p, safeHead, from, d),
         \A m \in d.forgotten : m.block <= d.lastBlock,
         polls'[p].pc = "logs" => \A m \in d.forgotten : m.block <= from
  PROVE  FreshOK(p)'
<1> DEFINE r == polls'[p]
<1>1. /\ r.pc \in {"idle", "logs"} /\ db'.lastBlock = d.lastBlock
      /\ \A m \in db'.forgotten : m \in d.forgotten \/ m.block < d.lastBlock
  BY TurnEffect DEF Base
<1>2. r.pc = "logs" => r.from = from /\ db' = d
  BY DEF Turns, NoPoll
<1>3. db' \in Database /\ d.lastBlock \in Nat
  BY TurnEffect DEF Base, Database
<1>4. \A m \in db'.forgotten : m.block <= db'.lastBlock
  <2>1. \A m \in db'.forgotten : m.block \in Nat
    BY <1>3 DEF Database, Marker
  <2> QED BY <1>1, <1>3, <2>1
<1> HIDE DEF r
<1> QED BY <1>1, <1>2, <1>4 DEF FreshOK, r

LEMMA FreshGo ==
  ASSUME Base, NoReorg, MarksOK, NEW p \in Polls, Alone(p), FreshOK(p), Poll(p),
         polls[p].pc \in {"logs", "enrich", "mark"},
         NEW last \in Nat, NEW d \in Database, Goes(p, d, last + 1),
         d.lastBlock = db.lastBlock, d.forgotten = db.forgotten
  PROVE  FreshOK(p)'
<1> DEFINE r == polls'[p]
           q == polls[p]
<1>1. /\ Marks(db') = Marks(d) /\ r.pc \in {"hash", "stamp"} /\ db'.forgotten = d.forgotten
      /\ db'.lastBlock = IF r.pc = "hash" THEN q.to ELSE d.lastBlock
  BY GoEffect DEF Base
<1>2. /\ chain' = chain /\ r.from = q.from /\ r.to = q.to
      /\ \A o \in Polls \ {p} : polls'[o].pc # "mark"
  BY DEF Alone, Goes
<1>3. q.from \in Nat /\ q.to \in Nat /\ q.from < q.to
  BY Reach
<1>4. \A m \in db.forgotten : m.block \in Nat /\ m.block <= q.from /\ m.block <= db.lastBlock
  BY DEF FreshOK, Base, TypeOK, Database, Marker
<1>5. \A m \in db'.forgotten : m.block <= db'.lastBlock /\ m.block <= r.from
  <2> HIDE DEF q, r
  <2> QED BY <1>1, <1>2, <1>3, <1>4
<1>6. r.pc = "stamp" => chain'[At(r)].hash \notin Applied'
  <2> SUFFICES ASSUME r.pc = "stamp", chain'[At(r)].hash \in Applied' PROVE FALSE
    OBVIOUS
  <2>1. Base'
    BY PollKeepsBase
  <2>2. PICK m \in Marks(db') : chain[At(r)].hash = m.hash
    <3>1. \A o \in Polls : polls'[o].pc # "mark"
      BY <1>1, <1>2
    <3> QED BY <1>2, <2>1, <3>1, AppliedNext DEF Base
  <2>3. ~Skipped(d, At(r))
    BY DEF Goes
  <2>4. m \in db.forgotten
    BY <1>1, <2>2, <2>3 DEF Marks, Skipped, alreadyIndexed
  <2>5. m.block \in 1..Len(chain) /\ m.hash = chain[m.block].hash
    BY <2>4 DEF MarksOK, Marks
  <2>6. At(r) \in (q.from + 1)..q.to /\ At(r) \in 1..Len(chain)
    <3>1. At(r) \in (r.from + 1)..r.to /\ q.to <= Len(chain) /\ Len(chain) \in Nat
      BY Reach, BlockFacts DEF Goes, Window, Base
    <3> HIDE DEF q, r
    <3> QED BY <1>2, <1>3, <3>1
  <2>7. m.block = At(r)
    BY <2>2, <2>5, <2>6 DEF Base, ChainOK
  <2>8. m.block <= q.from /\ m.block \in Nat
    BY <1>4, <2>4
  <2> HIDE DEF q, r
  <2> QED BY <1>3, <2>6, <2>7, <2>8
<1> HIDE DEF q, r
<1> QED BY <1>1, <1>5, <1>6 DEF FreshOK, r

LEMMA FreshPoll ==
  ASSUME Base, NoReorg, MarksOK, NEW p \in Polls, CursorOK(p), FreshOK(p), Poll(p)
  PROVE  FreshOK(p)'
<1> DEFINE q == polls[p]
           r == polls'[p]
<1>1. /\ PollStep(p) /\ Alone(p) /\ TypeOK /\ ShapeOK /\ db \in Database /\ q \in PollState
      /\ chain' = chain /\ Len(chain) \in Nat
  BY PollKeepsBase, BlockFacts DEF Base, TypeOK, Alone
<1>2. q.from \in Nat /\ q.to \in Nat /\ q.cursor \in Nat
  BY Reach
<1>3. \A m \in db.forgotten : m.block <= db.lastBlock
  BY DEF FreshOK
<1>4. CASE Starts(p) \/ GivesUp(p)
  <2>1. db' = db /\ r.pc \in {"check", "idle"}
    BY <1>4 DEF Starts, GivesUp, NoPoll
  <2> HIDE DEF r
  <2> QED BY <1>3, <2>1 DEF FreshOK, r
<1>5. CASE Waits(p)
  <2>1. db' = db /\ q.pc = "stamp" /\ \E ts : r = [q EXCEPT !.pc = "enrich", !.ts = ts]
    BY <1>5 DEF Waits
  <2>2. /\ r.pc = "enrich" /\ At(r) = At(q) /\ r.from = q.from
    BY <1>1, <2>1 DEF PollState, At
  <2>3. Applied' = Applied
    <3>1. polls[p].pc # "mark" /\ polls'[p].pc # "mark"
      BY <2>1, <2>2
    <3>2. \A o \in Polls : polls[o].pc # "mark" /\ polls'[o].pc # "mark"
      BY <1>1, <3>1 DEF Alone
    <3> QED BY <2>1, <3>2 DEF Applied
  <2> HIDE DEF r
  <2> QED BY <1>1, <2>1, <2>2, <2>3 DEF FreshOK, q, r
<1>6. CASE Applies(p)
  <2>1. /\ q.pc \in {"stamp", "enrich"} /\ db' = applyLog(db, chain[At(q)], r.ts)
        /\ r = [q EXCEPT !.pc = "mark", !.ts = r.ts] /\ r.ts \in Nat
    BY <1>6, AppliesFacts DEF Applies
  <2>2. chain[At(q)] \in Block /\ chain[At(q)].log # NoLog
    BY <1>1, <2>1, WindowFacts
  <2>3. KeepsMarks(db, db')
    BY <1>1, <2>1, <2>2, ApplyLog
  <2>4. r.pc = "mark" /\ r.from = q.from
    BY <1>1, <2>1 DEF PollState
  <2> HIDE DEF r
  <2> QED BY <2>1, <2>3, <2>4 DEF FreshOK, KeepsMarks, q, r
<1>7. CASE StartsAfresh(p)
  <2>1. Turns(p, Len(chain) - CONFIRMATIONS, 0, db) /\ db.lastBlock = 0
    BY <1>7 DEF StartsAfresh
  <2> QED BY <1>1, <1>3, <2>1, FreshTurn
<1>8. CASE Resumes(p)
  <2>1. q.pc = "check" /\ Turns(p, q.safeHead, q.cursor, db)
    BY <1>8 DEF Resumes
  <2>2. q.cursor = db.lastBlock
    BY <2>1 DEF CursorOK
  <2> QED BY <1>1, <1>3, <2>1, <2>2, FreshTurn
<1>9. CASE Rebuilds(p)
  <2> DEFINE d == resetIndexerDerived(db, q.cursor)
  <2>1. Turns(p, q.safeHead, 0, d)
    BY <1>9 DEF Rebuilds
  <2>2. d \in Database /\ d.forgotten = {}
    BY <1>1, <1>2, ResetIndexerDerived
  <2> HIDE DEF d
  <2> QED BY <2>1, <2>2, FreshTurn
<1>10. CASE Closes(p)
  <2>1. q.pc = "hash"
    BY <1>10 DEF Closes
  <2>2. PICK answer \in HashAnswers(q.to) : Turns(p, q.safeHead, q.to, [db EXCEPT !.lastHash = answer])
    BY <1>10 DEF Closes
  <2> DEFINE d == [db EXCEPT !.lastHash = answer]
  <2>3. db.lastBlock = q.to
    BY <2>1 DEF CursorOK
  <2>4. answer \in Nat
    <3>1. HashAt(chain, q.to) \in Nat
      BY BlockFacts DEF HashAt, Base
    <3> QED BY <2>2, <3>1 DEF HashAnswers
  <2>5. d \in Database /\ d.lastBlock = db.lastBlock /\ d.forgotten = db.forgotten
    BY <1>1, <2>4 DEF Database
  <2>6. Turns(p, q.safeHead, q.to, d)
    BY <2>2
  <2> HIDE DEF d
  <2> QED BY <1>3, <2>3, <2>5, <2>6, FreshTurn
<1>11. CASE Asks(p)
  <2>1. q.pc = "logs" /\ Goes(p, db, q.from + 1)
    BY <1>11 DEF Asks
  <2> QED BY <1>1, <1>2, <2>1, FreshGo
<1>12. CASE PassesOver(p)
  <2>1. q.pc = "enrich" /\ Goes(p, db, At(q) + 1)
    BY <1>12 DEF PassesOver
  <2>2. At(q) \in Nat
    BY <1>1, <2>1, Reach
  <2> QED BY <1>1, <2>1, <2>2, FreshGo
<1>13. CASE Finishes(p)
  <2> DEFINE d == markIndexed(db, chain[At(q)])
  <2>1. q.pc = "mark" /\ Goes(p, d, At(q) + 1)
    BY <1>13 DEF Finishes
  <2>2. At(q) \in Nat /\ chain[At(q)] \in Block
    BY <1>1, <2>1, Reach, WindowFacts
  <2>3. d \in Database /\ d.lastBlock = db.lastBlock /\ d.forgotten = db.forgotten
    BY <1>1, <2>2, MarkIndexed
  <2> HIDE DEF d
  <2> QED BY <1>1, <2>1, <2>2, <2>3, FreshGo
<1> QED BY <1>1, <1>4, <1>5, <1>6, <1>7, <1>8, <1>9, <1>10, <1>11, <1>12, <1>13 DEF PollStep

\* A log is applied after all that is owed before it, and only a registration can come
\* after what follows it.
LEMMA AppliesIndex ==
  ASSUME Base, Base', MarksOK, NEW p \in Polls, CursorOK(p), FreshOK(p), PrefixOK,
         Applies(p), Alone(p), Applied' = Applied \cup {chain[At(polls[p])].hash}
  PROVE  LET n == At(polls[p])
             l == chain[n].log
             w == StateAt(chain, n - 1)
         IN  /\ n \in 1..Len(chain) /\ n <= settled /\ l # NoLog
             /\ PrefixOK'
             /\ Emits(w, l) /\ Sound(w) /\ w \in World /\ \A a \in Agents : w.lastActivity[a] <= n
             /\ chain[n].state = StateAfter(w, l, n) /\ chain[n].number = n
             /\ Owes(l) => Undisturbed(Indexed, w) /\ Indexed' = StateAfter(w, l, n)
             /\ ~Owes(l) => Undisturbed(Indexed, Indexed')
<1> DEFINE n == At(polls[p])
           l == chain[n].log
           w == StateAt(chain, n - 1)
<1>1. /\ TypeOK /\ ChainOK /\ ShapeOK /\ TypeOK' /\ chain' = chain /\ Len(chain) \in Nat
      /\ polls[p].pc \in {"stamp", "enrich"} /\ settled \in Nat
  BY BlockFacts DEF Base, Applies, Alone, TypeOK
<1>2. /\ n \in 1..Len(chain) /\ l # NoLog /\ n <= settled
      /\ Covers(chain, db, n - 1) /\ n \notin AppliedBlocks
  <2>1. n \in 1..Len(chain) /\ l # NoLog
    BY <1>1, WindowFacts
  <2>2. Covers(chain, db, n - 1)
    BY <1>1 DEF CursorOK
  <2>3. n \in (polls[p].from + 1)..polls[p].to /\ polls[p].to <= settled /\ polls[p].to \in Nat
        /\ polls[p].from \in Nat
    BY <1>1, Reach
  <2>4. n \notin AppliedBlocks
    BY <1>1 DEF FreshOK, AppliedBlocks
  <2> HIDE DEF n
  <2> QED BY <1>1, <2>1, <2>2, <2>3, <2>4
<1> HIDE DEF n
<1>3. PICK j \in Nat : j = n - 1 /\ j \in 0..Len(chain) /\ n \in Nat /\ n # 0
  BY <1>1, <1>2
<1>4. /\ Emits(w, l) /\ Sound(w) /\ w \in World /\ \A a \in Agents : w.lastActivity[a] <= n
      /\ chain[n].state = StateAfter(w, l, n) /\ chain[n].number = n
  <2>1. /\ Emits(w, l) /\ chain[n].state = StateAfter(w, l, n) /\ chain[n].number = n
    BY <1>1, <1>2 DEF ChainOK
  <2>2. Sound(StateAt(chain, j)) /\ StateAt(chain, j) \in World
        /\ \A a \in Agents : StateAt(chain, j).lastActivity[a] <= j
    BY <1>1, <1>3, BlockFacts DEF ChainOK
  <2>3. \A a \in Agents : StateAt(chain, j).lastActivity[a] \in Nat
    BY <2>2 DEF World
  <2>4. \A a \in Agents : StateAt(chain, j).lastActivity[a] <= n
    BY <1>3, <2>2, <2>3
  <2> QED BY <1>3, <2>1, <2>2, <2>4
<1>5. AppliedBlocks' = AppliedBlocks \cup {n}
  <2>1. \A k \in 1..Len(chain) : chain[k].hash = chain[n].hash => k = n
    BY <1>1, <1>2 DEF ChainOK
  <2> QED BY <1>1, <1>2, <2>1 DEF AppliedBlocks, n
<1>6. ASSUME NEW m \in 1..Len(chain), m < n, Owes(chain[m].log) PROVE m \in AppliedBlocks
  <2>1. m <= n - 1
    BY <1>1, <1>2, <1>6
  <2>2. Marked(db, chain[m])
    BY <1>2, <1>6, <2>1 DEF Covers
  <2> QED BY <1>1, <2>2, AppliedIs DEF Marked, AppliedBlocks
<1>7. PrefixOK'
  <2> SUFFICES ASSUME NEW k \in AppliedBlocks \cup {n}, NEW m \in 1..k, Owes(chain[m].log)
               PROVE  m \in AppliedBlocks \cup {n}
    BY <1>1, <1>5 DEF PrefixOK
  <2>1. CASE k \in AppliedBlocks
    BY <2>1 DEF PrefixOK
  <2>2. CASE k = n
    <3>1. m = n \/ (m < n /\ m \in 1..Len(chain))
      BY <1>1, <1>2, <2>2
    <3> QED BY <1>6, <3>1
  <2> QED BY <2>1, <2>2
<1>8. /\ IndexedTo \in 0..Len(chain) /\ (IndexedTo = 0 \/ IndexedTo \in AppliedBlocks)
      /\ Indexed = StateAt(chain, IndexedTo)
      /\ \A k \in AppliedBlocks : k \in 1..Len(chain) /\ k <= IndexedTo
      /\ IndexedTo' = LastOf(AppliedBlocks \cup {n}) /\ Indexed' = StateAt(chain, IndexedTo')
      /\ AppliedBlocks \cup {n} \in SUBSET (1..Len(chain))
  BY <1>1, <1>2, <1>5, IndexedIs, IndexedNext
<1>9. \A k \in {0} \cup AppliedBlocks \cup {n} :
         (\A m \in AppliedBlocks \cup {n} : m <= k) => k = IndexedTo'
  BY <1>1, <1>8, LastOfFacts
<1>10. \A m \in 1..Len(chain) : m > IndexedTo /\ m < n => ~Owes(chain[m].log)
  <2> SUFFICES ASSUME NEW m \in 1..Len(chain), m > IndexedTo, m < n, Owes(chain[m].log)
               PROVE  FALSE
    OBVIOUS
  <2>1. m \in AppliedBlocks
    BY <1>6
  <2> QED BY <1>8, <2>1
<1>11. n > IndexedTo => IndexedTo' = n /\ Indexed' = chain[n].state
  <2> SUFFICES ASSUME n > IndexedTo PROVE IndexedTo' = n /\ Indexed' = chain[n].state
    OBVIOUS
  <2>1. \A m \in AppliedBlocks \cup {n} : m <= n
    BY <1>2, <1>8
  <2>2. IndexedTo' = n
    BY <1>9, <2>1
  <2> QED BY <1>3, <1>8, <2>2 DEF StateAt
<1>12. CASE Owes(l)
  <2>1. \A k \in AppliedBlocks : k < n
    <3> SUFFICES ASSUME NEW k \in AppliedBlocks, k >= n PROVE FALSE
      BY <1>2, <1>8
    <3>1. n \in 1..k
      BY <1>2, <1>8
    <3> QED BY <1>2, <1>12, <3>1 DEF PrefixOK
  <2>2. n > IndexedTo /\ IndexedTo <= j
    BY <1>2, <1>3, <1>8, <2>1
  <2>3. Undisturbed(StateAt(chain, IndexedTo), StateAt(chain, j))
    <3>1. IndexedTo \in 0..Len(chain) /\ j \in IndexedTo..Len(chain)
      BY <1>3, <1>8, <2>2
    <3>2. \A m \in (IndexedTo + 1)..j : m \in 1..Len(chain) /\ m > IndexedTo /\ m < n
      BY <1>3, <1>8, <2>2
    <3> QED BY <1>1, <1>10, <3>1, <3>2, UndisturbedBetween
  <2>4. Undisturbed(Indexed, w)
    BY <1>3, <1>8, <2>3
  <2> QED BY <1>2, <1>4, <1>7, <1>11, <1>12, <2>2, <2>4 DEF n
<1>13. CASE ~Owes(l)
  <2>1. CASE n > IndexedTo
    <3>1. IndexedTo \in 0..Len(chain) /\ n \in IndexedTo..Len(chain)
      BY <1>2, <1>8, <2>1
    <3>2. \A m \in (IndexedTo + 1)..n : m \in 1..Len(chain) /\ m > IndexedTo /\ (m < n \/ m = n)
      BY <1>2, <1>8, <2>1
    <3>3. Undisturbed(StateAt(chain, IndexedTo), StateAt(chain, n))
      BY <1>1, <1>10, <1>13, <3>1, <3>2, UndisturbedBetween
    <3>4. StateAt(chain, n) = chain[n].state
      BY <1>3 DEF StateAt
    <3>5. Undisturbed(Indexed, Indexed')
      BY <1>8, <1>11, <2>1, <3>3, <3>4
    <3> QED BY <1>2, <1>4, <1>7, <1>13, <3>5 DEF n
  <2>2. CASE ~(n > IndexedTo)
    <3>1. \A m \in AppliedBlocks \cup {n} : m <= IndexedTo
      BY <1>2, <1>8, <2>2
    <3>2. IndexedTo' = IndexedTo
      BY <1>8, <1>9, <3>1
    <3>3. Indexed' = Indexed
      BY <1>8, <3>2
    <3>4. Undisturbed(Indexed, Indexed')
      BY <3>3 DEF Undisturbed
    <3> QED BY <1>2, <1>4, <1>7, <1>13, <3>4 DEF n
  <2> QED BY <2>1, <2>2
<1> QED BY <1>12, <1>13

\* The last applied block does not fall when a log is applied, and between it and a log
\* that comes after it nothing is left but registrations.
LEMMA IndexReaches ==
  ASSUME Base, Base', NoReorg, MarksOK, NEW p \in Polls, CursorOK(p), Applies(p), Alone(p),
         Applied' = Applied \cup {chain[At(polls[p])].hash}
  PROVE  LET n == At(polls[p])
         IN  /\ settled \in Nat /\ Len(chain) \in Nat /\ settled <= Len(chain)
             /\ n \in 1..settled /\ IndexedTo \in 0..settled /\ chain[n].log # NoLog
             /\ IndexedTo' = IF n > IndexedTo THEN n ELSE IndexedTo
             /\ \A m \in IndexedTo..(n - 1) :
                   Undisturbed(StateAt(chain, m), StateAt(chain, n - 1))
<1> DEFINE n == At(polls[p])
<1>1. /\ TypeOK /\ ChainOK /\ ShapeOK /\ TypeOK' /\ chain' = chain
      /\ polls[p].pc \in {"stamp", "enrich"}
  BY DEF Base, Applies, Alone
<1>2. /\ settled \in Nat /\ Len(chain) \in Nat /\ settled <= Len(chain)
      /\ IndexedTo \in 0..settled /\ \A k \in AppliedBlocks : k \in 1..settled /\ k <= IndexedTo
      /\ IndexedTo = 0 \/ IndexedTo \in AppliedBlocks
  BY <1>1, IndexSettled, IndexedIs
<1>3. n \in 1..settled /\ chain[n].log # NoLog
  <2>1. /\ n \in (polls[p].from + 1)..polls[p].to /\ polls[p].to <= settled
        /\ polls[p].to \in Nat /\ polls[p].from \in Nat
    BY <1>1, Reach
  <2>2. chain[n].log # NoLog
    BY <1>1, WindowFacts
  <2> HIDE DEF n
  <2> QED BY <1>2, <2>1, <2>2
<1>4. Covers(chain, db, n - 1)
  BY <1>1 DEF CursorOK
<1> HIDE DEF n
<1>5. AppliedBlocks' = AppliedBlocks \cup {n}
  <2>1. n \in 1..Len(chain)
    BY <1>2, <1>3
  <2>2. \A k \in 1..Len(chain) : chain[k].hash = chain[n].hash => k = n
    BY <1>1, <2>1 DEF ChainOK
  <2> QED BY <1>1, <2>1, <2>2 DEF AppliedBlocks, n
<1>6. IndexedTo' = IF n > IndexedTo THEN n ELSE IndexedTo
  <2>1. /\ IndexedTo' \in Nat /\ (IndexedTo' = 0 \/ IndexedTo' \in AppliedBlocks')
        /\ \A k \in AppliedBlocks' : k <= IndexedTo'
    BY <1>1, IndexedNext
  <2>2. n <= IndexedTo' /\ IndexedTo <= IndexedTo'
    BY <1>2, <1>5, <2>1
  <2>3. IndexedTo' = n \/ IndexedTo' <= IndexedTo
    BY <1>2, <1>5, <2>1
  <2> QED BY <1>2, <1>3, <2>1, <2>2, <2>3
<1>7. ASSUME NEW k \in 1..Len(chain), k > IndexedTo, k < n PROVE ~Owes(chain[k].log)
  <2> SUFFICES ASSUME Owes(chain[k].log) PROVE FALSE
    OBVIOUS
  <2>1. k <= n - 1
    BY <1>2, <1>3, <1>7
  <2>2. Marked(db, chain[k])
    BY <1>4, <2>1 DEF Covers
  <2>3. k \in AppliedBlocks
    BY <1>1, <2>2, AppliedIs DEF Marked, AppliedBlocks
  <2> QED BY <1>2, <1>7, <2>3
<1>8. ASSUME NEW m \in IndexedTo..(n - 1)
      PROVE  Undisturbed(StateAt(chain, m), StateAt(chain, n - 1))
  <2>1. m \in 0..Len(chain) /\ n - 1 \in m..Len(chain)
    BY <1>2, <1>3
  <2>2. \A k \in (m + 1)..(n - 1) : k \in 1..Len(chain) /\ k > IndexedTo /\ k < n
    BY <1>2, <1>3
  <2> QED BY <1>1, <1>7, <2>1, <2>2, UndisturbedBetween
<1> QED BY <1>2, <1>3, <1>6, <1>8 DEF n

\* An attestation of a settled block is one that the contract knows for good.
LEMMA AttestationStands ==
  ASSUME Base, NoReorg, KnownOK, NEW n \in 1..settled, settled <= Len(chain),
         chain[n].log.kind = "SelfAttested"
  PROVE  LET l == chain[n].log
         IN  /\ l.id \in Completions /\ l.agent \in Agents /\ l.agent # Nobody
             /\ StateAt(chain, settled).completions[l.id].agent = l.agent
             /\ db.completions[l.id] \in {Nobody, l.agent}
<1> DEFINE b == chain[n]
           l == b.log
           s == StateAt(chain, settled)
<1>1. /\ TypeOK /\ ChainOK /\ settled \in Nat /\ Len(chain) \in Nat
      /\ n \in 1..Len(chain) /\ n \in Nat /\ n # 0
  BY BlockFacts DEF Base, TypeOK
<1>2. PICK j \in Nat : j = n - 1 /\ j \in 0..Len(chain)
  BY <1>1
<1> DEFINE w == StateAt(chain, j)
<1>3. b \in Block /\ l \in Log /\ w \in World /\ b.state = StateAfter(w, l, n)
  BY <1>1, <1>2, BlockFacts DEF ChainOK
<1>4. l.id \in Completions /\ l.agent \in Agents /\ l.kind \in CompletionKinds
  BY <1>3, LogFields DEF CompletionKinds
<1>5. l.agent # Nobody
  BY <1>4, EventLogAssumption
<1>6. b.state.completions[l.id].agent = l.agent
  <2>1. b.state.completions[l.id] = CompletionAfter(w.completions[l.id], l)
    BY <1>1, <1>3, <1>4, AfterTables
  <2>2. w.completions[l.id] \in Completion
    BY <1>3, <1>4 DEF World
  <2>3. CompletionAfter(w.completions[l.id], l) = [w.completions[l.id] EXCEPT !.agent = l.agent]
    BY DEF CompletionAfter
  <2> QED BY <2>1, <2>2, <2>3 DEF Completion
<1>7. s.completions[l.id].agent = l.agent
  <2>1. n \in 0..settled /\ settled \in 0..Len(chain)
    BY <1>1
  <2>2. Later(StateAt(chain, n), s)
    BY <1>1, <2>1 DEF ChainOK
  <2>3. StateAt(chain, n) = b.state
    BY <1>1 DEF StateAt
  <2> QED BY <1>4, <1>5, <1>6, <2>2, <2>3 DEF Later
<1>8. db.completions[l.id] \in {Nobody, l.agent}
  BY <1>4, <1>7 DEF KnownOK, RowsKnown
<1> QED BY <1>4, <1>5, <1>7, <1>8

LEMMA LagApplies ==
  ASSUME Base, Base', NoReorg, MarksOK, NEW p \in Polls, CursorOK(p), KnownOK, Lags,
         Applies(p), Poll(p), Alone(p), Applied' = Applied \cup {chain[At(polls[p])].hash}
  PROVE  KnownOK' /\ Lags'
<1>1. PICK n : n = At(polls[p])
  OBVIOUS
<1>2. PICK ts : ts = polls'[p].ts
  OBVIOUS
<1> DEFINE b == chain[n]
           l == b.log
           w == StateAt(chain, n - 1)
           s == StateAt(chain, settled)
<1>3. /\ settled \in Nat /\ Len(chain) \in Nat /\ settled <= Len(chain)
      /\ n \in 1..settled /\ IndexedTo \in 0..settled /\ l # NoLog
      /\ IndexedTo' = IF n > IndexedTo THEN n ELSE IndexedTo
      /\ \A m \in IndexedTo..(n - 1) : Undisturbed(StateAt(chain, m), w)
      /\ chain' = chain /\ settled' = settled
  BY <1>1, IndexReaches DEF Alone
<1>4. /\ n \in 1..Len(chain) /\ n - 1 \in 0..Len(chain) /\ n \in Nat
      /\ TypeOK /\ ChainOK /\ db \in Database /\ db' \in Database
  BY <1>3 DEF Base, TypeOK
<1>5. /\ b \in Block /\ l \in Log /\ w \in World /\ Emits(w, l) /\ Sound(w)
      /\ b.state = StateAfter(w, l, n) /\ b.number = n
  BY <1>4, BlockFacts DEF ChainOK
<1>6. db' = applyLog(db, b, ts) /\ ts \in Nat /\ ts >= n
  BY <1>1, <1>2, AppliesFacts DEF Applies, Stamps
<1>7. l.kind = "SelfAttested" =>
         /\ l.id \in Completions /\ s.completions[l.id].agent = l.agent
         /\ db.completions[l.id] \in {Nobody, l.agent}
  BY <1>3, AttestationStands
<1> HIDE DEF b, l, w, s
<1>8. KnownOK'
  <2>1. db'.completions = IF l.kind = "SelfAttested" /\ db.completions[l.id] = Nobody
                          THEN [db.completions EXCEPT ![l.id] = l.agent] ELSE db.completions
    BY <1>3, <1>4, <1>5, <1>6, CompletionsAfterLog DEF l
  <2>2. RowsKnown(db, s)
    BY DEF KnownOK, s
  <2>3. CASE l.kind = "SelfAttested" /\ db.completions[l.id] = Nobody
    <3>1. \A i \in Completions : db'.completions[i] = IF i = l.id THEN l.agent ELSE db.completions[i]
      BY <1>4, <1>7, <2>1, <2>3 DEF Database
    <3> QED BY <1>3, <1>7, <2>2, <2>3, <3>1 DEF KnownOK, RowsKnown, s
  <2>4. CASE ~(l.kind = "SelfAttested" /\ db.completions[l.id] = Nobody)
    BY <1>3, <2>1, <2>2, <2>4 DEF KnownOK, RowsKnown, s
  <2> QED BY <2>3, <2>4
<1>9. Outgrows(db', db)
  BY <1>3, <1>4, <1>5, <1>6, LogsOutgrow DEF l
<1>10. \A m \in 0..settled : StateAt(chain, m) \in World
  BY <1>3, <1>4, BlockFacts
<1>11. \A m \in 0..IndexedTo : AtLeast(db, StateAt(chain, m))
  BY DEF Lags
<1>12. ASSUME NEW m \in 0..IndexedTo PROVE AtLeast(db', StateAt(chain, m))
  <2>1. StateAt(chain, m) \in World /\ AtLeast(db, StateAt(chain, m))
    BY <1>3, <1>10, <1>11
  <2> QED BY <1>4, <1>9, <2>1, AtLeastStays
<1>13. CASE n > IndexedTo
  <2>1. IndexedTo \in IndexedTo..(n - 1) /\ IndexedTo \in 0..IndexedTo
    BY <1>3, <1>13
  <2>2. AtLeast(db, StateAt(chain, IndexedTo)) /\ StateAt(chain, IndexedTo) \in World
        /\ Undisturbed(StateAt(chain, IndexedTo), w)
    BY <1>3, <1>10, <1>11, <2>1
  <2>3. ASSUME NEW m \in IndexedTo..(n - 1) PROVE AtLeast(db', StateAt(chain, m))
    <3>1. Undisturbed(StateAt(chain, m), w) /\ m \in 0..settled
      BY <1>3, <2>3
    <3>2. /\ StateAt(chain, m).completions = StateAt(chain, IndexedTo).completions
          /\ StateAt(chain, m).lastActivity = StateAt(chain, IndexedTo).lastActivity
      BY <2>2, <3>1 DEF Undisturbed
    <3> QED BY <1>4, <1>9, <1>10, <2>2, <3>1, <3>2, AtLeastStays
  <2>4. AtLeast(db', StateAt(chain, n))
    <3>1. AtLeast(db, w)
      <4>1. Outgrows(db, db)
        <5>1. \A a \in Agents : db.scores[a] \in Counters
          BY <1>4 DEF Database
        <5> QED BY <5>1 DEF Outgrows, Counters
      <4> QED BY <1>4, <1>5, <2>2, <4>1, AtLeastStays DEF Undisturbed
    <3>2. AtLeast(applyLog(db, b, ts), StateAfter(w, b.log, b.number))
      BY <1>3, <1>4, <1>5, <1>6, <1>7, <3>1, AtLeastAfterLog DEF l
    <3>3. StateAt(chain, n) = b.state
      BY <1>4 DEF StateAt, b
    <3> QED BY <1>5, <1>6, <3>2, <3>3 DEF l
  <2>5. \A m \in 0..IndexedTo' : m \in 0..IndexedTo \/ m \in IndexedTo..(n - 1) \/ m = n
    BY <1>3, <1>13
  <2> QED BY <1>3, <1>8, <1>12, <2>3, <2>4, <2>5 DEF Lags
<1>14. CASE ~(n > IndexedTo)
  BY <1>3, <1>8, <1>12, <1>14 DEF Lags
<1> QED BY <1>13, <1>14

\* Steps that apply nothing leave the counters what they were.
LEMMA LagStands ==
  ASSUME Base, Base', NoReorg, MarksOK, MovesOn, Applied' \in SUBSET Applied, KnownOK, Lags,
         KeepsReputation(db, db')
  PROVE  KnownOK' /\ Lags'
<1>1. db'.scores = db.scores /\ db'.completions = db.completions
  BY DEF KeepsReputation
<1>2. KnownOK'
  BY <1>1, RowsStayKnown
<1>3. ASSUME NEW m \in 0..IndexedTo' PROVE AtLeast(db', StateAt(chain', m))
  <2>1. IndexedTo' \in 0..IndexedTo /\ IndexedTo \in 0..settled /\ settled \in Nat
    BY IndexFalls, IndexSettled
  <2>2. m \in 0..IndexedTo /\ m \in 0..settled
    BY <2>1
  <2>3. StateAt(chain', m) = StateAt(chain, m)
    BY <2>2, IndexFalls
  <2> QED BY <1>1, <2>2, <2>3 DEF Lags, AtLeast
<1> QED BY <1>2, <1>3 DEF Lags

LEMMA LagRebuilds ==
  ASSUME Base, Base', NEW p \in Polls, KnownOK, Alone(p),
         KeepsTables(resetIndexerDerived(db, polls[p].cursor), db'), Applied' = {}
  PROVE  KnownOK' /\ Lags'
<1>1. polls[p].cursor \in Nat /\ db \in Database /\ chain' = chain /\ settled' = settled
  BY Reach DEF Base, TypeOK, Alone
<1>2. db'.scores = EmptyDb.scores /\ db'.completions = db.completions
  BY <1>1, ResetIndexerDerived DEF KeepsTables, KeepsReputation
<1>3. IndexedTo' = 0
  <2>1. AppliedBlocks' = {}
    BY DEF AppliedBlocks
  <2> QED BY <2>1, IndexedNext DEF Base
<1>4. AtLeast(db', Genesis)
  <2>1. \A i \in Completions : Genesis.completions[i].agent = Nobody
    BY DEF Genesis
  <2>2. ASSUME NEW a \in Agents
        PROVE  /\ EmptyDb.scores[a].completions = 0 /\ EmptyDb.scores[a].disputes = 0
               /\ EmptyDb.scores[a].lastActivity = 0 /\ Genesis.lastActivity[a] = 0
               /\ Cardinality(CompletionsOf(Genesis, a)) = 0
               /\ Cardinality(DisputedOf(Genesis, a)) = 0
    <3>1. CompletionsOf(Genesis, a) = {} /\ DisputedOf(Genesis, a) = {}
      BY <2>1, EventLogAssumption DEF CompletionsOf, DisputedOf
    <3> QED BY <3>1, GenesisFacts, FS_EmptySet DEF EmptyDb
  <2> QED BY <1>2, <2>1, <2>2 DEF AtLeast
<1>5. \A m \in 0..IndexedTo' : StateAt(chain', m) = Genesis
  BY <1>3 DEF StateAt
<1>6. KnownOK'
  BY <1>1, <1>2 DEF KnownOK, RowsKnown
<1> QED BY <1>4, <1>5, <1>6 DEF Lags

LEMMA LagInit == Init => KnownOK /\ Lags
<1> SUFFICES ASSUME Init PROVE KnownOK /\ Lags
  OBVIOUS
<1>1. Base /\ db = EmptyDb /\ 1..Len(chain) = {}
  BY BaseInit DEF Init
<1>2. IndexedTo = 0
  <2>1. AppliedBlocks = {}
    BY <1>1 DEF AppliedBlocks
  <2> QED BY <1>1, <2>1, IndexedIs DEF Base
<1>3. KnownOK
  BY <1>1 DEF KnownOK, RowsKnown, EmptyDb
<1>4. AtLeast(EmptyDb, Genesis)
  <2>1. \A i \in Completions : Genesis.completions[i].agent = Nobody
    BY DEF Genesis
  <2>2. ASSUME NEW a \in Agents
        PROVE  /\ EmptyDb.scores[a].completions = 0 /\ EmptyDb.scores[a].disputes = 0
               /\ EmptyDb.scores[a].lastActivity = 0 /\ Genesis.lastActivity[a] = 0
               /\ Cardinality(CompletionsOf(Genesis, a)) = 0
               /\ Cardinality(DisputedOf(Genesis, a)) = 0
    <3>1. CompletionsOf(Genesis, a) = {} /\ DisputedOf(Genesis, a) = {}
      BY <2>1, EventLogAssumption DEF CompletionsOf, DisputedOf
    <3> QED BY <3>1, GenesisFacts, FS_EmptySet DEF EmptyDb
  <2> QED BY <2>1, <2>2 DEF AtLeast
<1>5. \A m \in 0..IndexedTo : StateAt(chain, m) = Genesis
  BY <1>2 DEF StateAt
<1> QED BY <1>1, <1>3, <1>4, <1>5 DEF Lags

LEMMA ScoreApplies ==
  ASSUME Base, Base', NoReorg, MarksOK, NEW p \in Polls, CursorOK(p), FreshOK(p), KnownOK, ScoreOK,
         Applies(p), Poll(p), Alone(p), Applied' = Applied \cup {chain[At(polls[p])].hash}
  PROVE  ScoreOK'
<1> DEFINE n == At(polls[p])
           b == chain[n]
           l == b.log
           w == StateAt(chain, n - 1)
<1>1. PICK ts : ts = polls'[p].ts
  OBVIOUS
<1>2. PrefixOK /\ CountsMatch(db, Indexed) /\ ActivityMatches(db, Indexed, EveryBlock)
  BY DEF ScoreOK
<1>3. /\ n \in 1..Len(chain) /\ n <= settled /\ l # NoLog
      /\ PrefixOK'
      /\ Emits(w, l) /\ Sound(w) /\ w \in World /\ \A a \in Agents : w.lastActivity[a] <= n
      /\ b.state = StateAfter(w, l, n) /\ b.number = n
      /\ Owes(l) => Undisturbed(Indexed, w) /\ Indexed' = StateAfter(w, l, n)
      /\ ~Owes(l) => Undisturbed(Indexed, Indexed')
  BY <1>2, AppliesIndex
<1>4. /\ db' = applyLog(db, b, ts) /\ ts \in Nat /\ (EveryBlock => ts = n)
      /\ db \in Database /\ b \in Block /\ l \in Log
  BY <1>1, <1>3, AppliesFacts, BlockFacts DEF Applies, Base, TypeOK, Stamps, EveryBlock
<1>5. l.kind = "SelfAttested" => db.completions[l.id] \in {Nobody, l.agent}
  <2>1. n \in 1..settled /\ settled <= Len(chain)
    <3>1. settled \in Nat /\ settled <= Len(chain) /\ Len(chain) \in Nat
      BY IndexSettled
    <3> HIDE DEF n
    <3> QED BY <1>3, <3>1
  <2> QED BY <2>1, AttestationStands
<1>6. EveryBlock' <=> EveryBlock
  BY DEF EveryBlock, Alone
<1> HIDE DEF b, l, w
<1>7. CASE Owes(l)
  <2>1. /\ w.completions = Indexed.completions /\ w.lastActivity = Indexed.lastActivity
        /\ Indexed' = StateAfter(w, b.log, b.number)
    BY <1>3, <1>7 DEF Undisturbed, l
  <2>2. CountsMatch(db, w)
    BY <1>2, <2>1, CountsNeedLittle
  <2>3. CountsMatch(applyLog(db, b, ts), StateAfter(w, b.log, b.number))
    BY <1>3, <1>4, <1>5, <2>2, CountsAfterLog DEF l
  <2>4. ActivityMatches(db, w, EveryBlock)
    BY <1>2, <2>1 DEF ActivityMatches
  <2>5. b.number # 0 /\ b.log # NoLog /\ \A a \in Agents : w.lastActivity[a] <= b.number
    BY <1>3 DEF l
  <2>6. EveryBlock => ts = b.number
    BY <1>3, <1>4
  <2>7. ActivityMatches(applyLog(db, b, ts), StateAfter(w, b.log, b.number), EveryBlock)
    <3> DEFINE every == EveryBlock
    <3>1. every => ts = b.number
      BY <2>6
    <3>2. ActivityMatches(db, w, every)
      BY <2>4
    <3> HIDE DEF every
    <3>3. ActivityMatches(applyLog(db, b, ts), StateAfter(w, b.log, b.number), every)
      BY <1>3, <1>4, <2>5, <3>1, <3>2, ActivityAfterLog
    <3> QED BY <3>3 DEF every
  <2> QED BY <1>3, <1>4, <1>6, <2>1, <2>3, <2>7 DEF ScoreOK, ActivityMatches
<1>8. CASE ~Owes(l)
  <2>1. l.kind = "CapabilityRegistered"
    BY <1>3, <1>8 DEF Owes
  <2>2. KeepsReputation(db, db')
    BY <1>4, <2>1, ApplyCapabilityLog DEF CapabilityKinds, l
  <2>3. /\ db'.scores = db.scores /\ db'.receipts = db.receipts
        /\ db'.completions = db.completions
    BY <2>2 DEF KeepsReputation
  <2>4. /\ Indexed'.completions = Indexed.completions
        /\ Indexed'.lastActivity = Indexed.lastActivity
    BY <1>3, <1>8 DEF Undisturbed
  <2>5. CountsMatch(db', Indexed')
    BY <1>2, <2>3, <2>4, CountsNeedLittle
  <2> QED BY <1>2, <1>3, <1>6, <2>3, <2>4, <2>5 DEF ScoreOK, ActivityMatches
<1> QED BY <1>7, <1>8

\* Steps that apply nothing leave the scores exact.
LEMMA ScoreKept ==
  ASSUME Base, Base', NoReorg, MarksOK, MovesOn, Applied' = Applied, ScoreOK,
         KeepsReputation(db, db')
  PROVE  ScoreOK'
<1>1. PrefixOK /\ CountsMatch(db, Indexed) /\ ActivityMatches(db, Indexed, EveryBlock)
  BY DEF ScoreOK
<1>2. PrefixOK' /\ Indexed' = Indexed
  BY <1>1, SameIndex
<1>3. /\ db'.scores = db.scores /\ db'.receipts = db.receipts
      /\ db'.completions = db.completions
  BY DEF KeepsReputation
<1>4. CountsMatch(db', Indexed')
  BY <1>1, <1>2, <1>3, CountsNeedLittle
<1>5. EveryBlock' <=> EveryBlock
  BY DEF EveryBlock, MovesOn
<1> QED BY <1>1, <1>2, <1>3, <1>4, <1>5 DEF ScoreOK, ActivityMatches

LEMMA GenesisCounts ==
  ASSUME NEW d, d.scores = EmptyDb.scores, d.receipts = EmptyDb.receipts, NEW every
  PROVE  CountsMatch(d, Genesis) /\ ActivityMatches(d, Genesis, every)
<1>1. \A i \in Completions : /\ Genesis.completions[i].agent = Nobody
                             /\ Genesis.completions[i].counterparty = Nobody
                             /\ Genesis.completions[i].disputed = FALSE
                             /\ EmptyDb.receipts[i].counterparty = Nobody
  BY DEF Genesis, EmptyDb
<1>2. ASSUME NEW a \in Agents
      PROVE  /\ SameCounts(d.scores[a], CountersOf(Genesis, a))
             /\ d.scores[a].lastActivity = 0 /\ Genesis.lastActivity[a] = 0
  <2>1. a # Nobody
    BY EventLogAssumption
  <2>2. CompletionsOf(Genesis, a) = {}
    BY <1>1, <2>1 DEF CompletionsOf
  <2>3. ConfirmedOf(Genesis, a) = {} /\ DisputedOf(Genesis, a) = {}
    BY <2>2 DEF ConfirmedOf, DisputedOf
  <2>4. Cardinality({}) = 0
    BY FS_EmptySet
  <2>5. Genesis.lastActivity[a] = 0
    BY GenesisFacts
  <2>6. EmptyDb.scores[a] = [completions |-> 0, confirmed |-> 0, disputes |-> 0, lastActivity |-> 0]
    BY DEF EmptyDb
  <2> QED BY <2>2, <2>3, <2>4, <2>5, <2>6 DEF CountersOf, SameCounts
<1>3. \A i \in Completions : d.receipts[i].counterparty = Nobody
  BY <1>1
<1> QED BY <1>1, <1>2, <1>3 DEF CountsMatch, ActivityMatches

LEMMA ScoreRebuilds ==
  ASSUME Base, Base', NEW p \in Polls, Alone(p),
         KeepsTables(resetIndexerDerived(db, polls[p].cursor), db'), Applied' = {}
  PROVE  ScoreOK'
<1>1. polls[p].cursor \in Nat /\ db \in Database
  BY Reach DEF Base, TypeOK
<1>2. db'.scores = EmptyDb.scores /\ db'.receipts = EmptyDb.receipts
  BY <1>1, ResetIndexerDerived DEF KeepsTables, KeepsReputation
<1>3. AppliedBlocks' = {}
  BY DEF AppliedBlocks
<1>4. Indexed' = Genesis
  BY <1>3, IndexedNext DEF Base, StateAt
<1>5. CountsMatch(db', Indexed') /\ ActivityMatches(db', Indexed', EveryBlock')
  BY <1>2, <1>4, GenesisCounts
<1>6. PrefixOK'
  BY <1>3 DEF PrefixOK
<1> QED BY <1>5, <1>6 DEF ScoreOK

LEMMA ScoreInit == Init => ScoreOK /\ LoneOK
<1> SUFFICES ASSUME Init PROVE ScoreOK /\ LoneOK
  OBVIOUS
<1>1. /\ Base /\ db = EmptyDb /\ 1..Len(chain) = {}
      /\ \A p \in Polls : polls[p].pc = "idle"
  BY BaseInit DEF Init, NoPoll
<1>2. AppliedBlocks = {}
  BY <1>1 DEF AppliedBlocks
<1>3. Indexed = Genesis
  BY <1>1, <1>2, IndexedIs DEF Base, StateAt
<1>4. CountsMatch(db, Indexed) /\ ActivityMatches(db, Indexed, EveryBlock)
  BY <1>1, <1>3, GenesisCounts
<1>5. db.forgotten = {}
  BY <1>1 DEF EmptyDb
<1>6. \A p \in Polls : CursorOK(p) /\ FreshOK(p)
  BY <1>1, <1>5, CursorInit DEF FreshOK
<1> QED BY <1>2, <1>4, <1>6 DEF ScoreOK, PrefixOK, LoneOK

\* The steps that are no poll's.
Elsewhere ==
    \/ Mine \/ (\E keep \in 0..MaxMined : Reorganise(keep)) \/ startIndexer \/ restart
    \/ UNCHANGED vars

LEMMA LonePolls ==
  ASSUME Base, AtMostOne, [Next]_vars, [StartsAlone]_vars
  PROVE  Elsewhere \/ \E p \in Polls : Lone(p) /\ Poll(p)
<1> SUFFICES ASSUME NEW p \in Polls, Poll(p), ~UNCHANGED vars PROVE Lone(p)
  BY DEF Next, Elsewhere
<1>1. StartsAlone
  OBVIOUS
<1>2. CASE polls[p].pc = "idle"
  <2>1. startPoll(p)
    BY <1>2 DEF Poll, checkHash, getLogs, blockTs, failPoll, enrich, skipLog, markLog, storeHash
  <2> QED BY <1>1, <2>1 DEF StartsAlone, Lone
<1>3. CASE polls[p].pc # "idle"
  BY <1>3 DEF AtMostOne, Lone
<1> QED BY <1>2, <1>3

\* The chain moves and the process is lost above what is settled.
LEMMA MovesOnElsewhere ==
  ASSUME Base, NoReorg, Elsewhere
  PROVE  /\ MovesOn /\ db' = db
         /\ Applied' \in SUBSET Applied /\ (NoCrash => Applied' = Applied)
         /\ (polls' = polls \/ polls' = [p \in Polls |-> NoPoll])
<1>1. /\ TypeOK /\ ChainOK /\ DepthOK /\ settled \in Nat /\ Len(chain) \in Nat
      /\ settled <= Len(chain)
  BY BlockFacts DEF Base, TypeOK, DepthOK, NoReorg
<1>2. CASE Mine
  <2>1. /\ Len(chain') = Len(chain) + 1 /\ \A n \in 1..Len(chain) : chain'[n] = chain[n]
    BY <1>1, <1>2, MineStep
  <2>2. db' = db /\ polls' = polls /\ settled <= settled' /\ scenario' = scenario
    BY <1>1, <1>2, IndexerAssumption DEF Mine
  <2>3. Applied' = Applied
    BY <2>2 DEF Applied
  <2>4. \A n \in 1..Len(chain) : n <= settled => n <= Len(chain') /\ chain'[n] = chain[n]
    BY <1>1, <2>1
  <2> QED BY <2>2, <2>3, <2>4 DEF MovesOn
<1>3. CASE \E keep \in 0..MaxMined : Reorganise(keep)
  <2>1. PICK keep \in 0..MaxMined : Reorganise(keep)
    BY <1>3
  <2>2. /\ Len(chain') = keep /\ \A n \in 1..keep : chain'[n] = chain[n]
        /\ keep >= settled
    BY <1>1, <2>1, ReorganiseStep DEF NoReorg
  <2>3. db' = db /\ polls' = polls /\ settled' = settled /\ scenario' = scenario
    BY <2>1 DEF Reorganise
  <2>4. Applied' = Applied
    BY <2>3 DEF Applied
  <2>5. \A n \in 1..Len(chain) : n <= settled => n <= Len(chain') /\ chain'[n] = chain[n]
    BY <1>1, <2>2
  <2>6. settled <= settled'
    BY <1>1, <2>3
  <2> QED BY <2>3, <2>4, <2>5, <2>6 DEF MovesOn
<1>4. CASE restart
  <2>1. /\ chain' = chain /\ db' = db /\ settled' = settled /\ scenario' = scenario
        /\ polls' = [p \in Polls |-> NoPoll]
        /\ NoCrash => indexer = "failed" \/ \A p \in Polls : polls[p].pc # "mark"
    BY <1>4 DEF restart, NoCrash
  <2>2. \A p \in Polls : polls'[p].pc # "mark" /\ (NoCrash => polls[p].pc # "mark")
    BY <2>1 DEF NoPoll, Base, StartOK
  <2>3. Applied' \in SUBSET Applied /\ (NoCrash => Applied' = Applied)
    BY <2>1, <2>2 DEF Applied
  <2>4. settled <= settled' /\ \A n \in 1..Len(chain) : n <= settled => n <= Len(chain') /\ chain'[n] = chain[n]
    BY <1>1, <2>1
  <2> QED BY <2>1, <2>3, <2>4 DEF MovesOn
<1>5. CASE startIndexer \/ UNCHANGED vars
  <2>1. /\ chain' = chain /\ db' = db /\ settled' = settled /\ scenario' = scenario
        /\ polls' = polls
    BY <1>5 DEF startIndexer, vars
  <2>2. Applied' = Applied
    BY <2>1 DEF Applied
  <2>3. settled <= settled' /\ \A n \in 1..Len(chain) : n <= settled => n <= Len(chain') /\ chain'[n] = chain[n]
    BY <1>1, <2>1
  <2> QED BY <2>1, <2>2, <2>3 DEF MovesOn
<1> QED BY <1>2, <1>3, <1>4, <1>5 DEF Elsewhere

LEMMA FreshKept ==
  ASSUME Base, MovesOn, Applied' \in SUBSET Applied, db' = db, NEW p \in Polls, FreshOK(p),
         polls' = polls \/ polls' = [o \in Polls |-> NoPoll]
  PROVE  FreshOK(p)'
<1>1. CASE polls' = polls
  <2>1. polls[p].pc \in {"stamp", "enrich"} =>
           chain'[At(polls[p])] = chain[At(polls[p])]
    <3> SUFFICES ASSUME polls[p].pc \in {"stamp", "enrich"}
                 PROVE  chain'[At(polls[p])] = chain[At(polls[p])]
      OBVIOUS
    <3>1. /\ polls[p].to <= settled /\ polls[p].from \in Nat /\ polls[p].to \in Nat
          /\ At(polls[p]) \in (polls[p].from + 1)..polls[p].to
          /\ At(polls[p]) \in 1..Len(chain) /\ settled \in Nat /\ Len(chain) \in Nat
      BY Reach, BlockFacts DEF Base, TypeOK
    <3>2. At(polls[p]) <= settled
      BY <3>1
    <3> QED BY <3>1, <3>2 DEF MovesOn
  <2> QED BY <1>1, <2>1 DEF FreshOK
<1>2. CASE polls' = [o \in Polls |-> NoPoll]
  <2>1. polls'[p].pc = "idle"
    BY <1>2 DEF NoPoll
  <2> QED BY <2>1 DEF FreshOK
<1> QED BY <1>1, <1>2

LEMMA FreshPassesOn ==
  ASSUME NEW o \in Polls, NEW p \in Polls, polls'[p].pc = "idle", FreshOK(o)'
  PROVE  FreshOK(p)'
BY DEF FreshOK

LEMMA LoneKept ==
  ASSUME Base, NoReorg, MarksOK, AtMostOne, OneGuardLost, LoneOK, [Next]_vars, [StartsAlone]_vars
  PROVE  LoneOK'
<1> SUFFICES ASSUME NEW p \in Polls, Lone(p)' PROVE CursorOK(p)' /\ FreshOK(p)'
  BY DEF LoneOK
<1>1. CursorOK(p)'
  BY CursorStep DEF LoneOK
<1>2. CASE Lone(p) /\ (\/ Mine \/ (\E keep \in 0..MaxMined : Reorganise(keep)) \/ startIndexer
                      \/ UNCHANGED vars)
  <2>1. FreshOK(p) /\ Elsewhere
    BY <1>2 DEF LoneOK, Elsewhere
  <2>2. FreshOK(p)'
    BY <2>1, MovesOnElsewhere, FreshKept
  <2> QED BY <1>1, <2>2
<1>3. CASE Lone(p) /\ Poll(p)
  BY <1>1, <1>3, FreshPoll DEF LoneOK
<1>4. CASE \E o \in Polls : Lone(o) /\ Poll(o) /\ polls'[o].pc = "idle" /\ polls'[p].pc = "idle"
  BY <1>1, <1>4, FreshPoll, FreshPassesOn DEF LoneOK
<1>5. CASE restart /\ \E o \in Polls : Lone(o)
  <2>1. PICK o \in Polls : FreshOK(o)
    BY <1>5 DEF LoneOK
  <2>2. FreshOK(o)'
    BY <1>5, <2>1, MovesOnElsewhere, FreshKept DEF Elsewhere
  <2>3. polls'[p].pc = "idle"
    BY <1>5 DEF restart, NoPoll
  <2> QED BY <1>1, <2>2, <2>3, FreshPassesOn
<1> QED BY <1>2, <1>3, <1>4, <1>5, LoneCases

LEMMA LagStep ==
  ASSUME Base, NoReorg, MarksOK, AtMostOne, LoneOK, KnownOK, Lags, [Next]_vars, [StartsAlone]_vars
  PROVE  KnownOK' /\ Lags'
<1>1. Base'
  BY BaseStep
<1>2. CASE Elsewhere
  <2>1. MovesOn /\ db' = db /\ Applied' \in SUBSET Applied
    BY <1>2, MovesOnElsewhere
  <2> QED BY <1>1, <2>1, LagStands DEF KeepsReputation
<1>3. ASSUME NEW p \in Polls, Lone(p), Poll(p) PROVE KnownOK' /\ Lags'
  <2>1. Alone(p) /\ CursorOK(p)
    BY <1>3, PollKeepsBase DEF LoneOK
  <2>2. MovesOn
    BY <2>1, BlockFacts DEF MovesOn, Alone, Base, TypeOK
  <2>3. CASE KeepsTables(db, db') /\ Applied' = Applied
    BY <1>1, <2>2, <2>3, LagStands DEF KeepsTables
  <2>4. CASE KeepsTables(resetIndexerDerived(db, polls[p].cursor), db') /\ Applied' = {}
    BY <1>1, <2>1, <2>4, LagRebuilds
  <2>5. CASE Applies(p) /\ Applied' = Applied \cup {chain[At(polls[p])].hash}
    BY <1>1, <1>3, <2>1, <2>5, LagApplies
  <2> QED BY <1>3, <2>3, <2>4, <2>5, PollEffects
<1> QED BY <1>2, <1>3, LonePolls

LEMMA ScoreStep ==
  ASSUME Base, NoReorg, NoCrash, MarksOK, AtMostOne, LoneOK, KnownOK, ScoreOK,
         [Next]_vars, [StartsAlone]_vars
  PROVE  ScoreOK'
<1>1. Base'
  BY BaseStep
<1>2. CASE Elsewhere
  <2>1. MovesOn /\ db' = db /\ Applied' = Applied
    BY <1>2, MovesOnElsewhere
  <2> QED BY <1>1, <2>1, ScoreKept DEF KeepsReputation
<1>3. ASSUME NEW p \in Polls, Lone(p), Poll(p) PROVE ScoreOK'
  <2>1. Alone(p) /\ CursorOK(p) /\ FreshOK(p)
    BY <1>3, PollKeepsBase DEF LoneOK
  <2>2. MovesOn
    BY <2>1, BlockFacts DEF MovesOn, Alone, Base, TypeOK
  <2>3. CASE KeepsTables(db, db') /\ Applied' = Applied
    BY <1>1, <2>2, <2>3, ScoreKept DEF KeepsTables
  <2>4. CASE KeepsTables(resetIndexerDerived(db, polls[p].cursor), db') /\ Applied' = {}
    BY <1>1, <2>1, <2>4, ScoreRebuilds
  <2>5. CASE Applies(p) /\ Applied' = Applied \cup {chain[At(polls[p])].hash}
    BY <1>1, <1>3, <2>1, <2>5, ScoreApplies
  <2> QED BY <1>3, <2>3, <2>4, <2>5, PollEffects
<1> QED BY <1>2, <1>3, LonePolls

\* The counters as the property of the index names them.
LEMMA CountersTell ==
  ASSUME Base, KnownOK, Lags, NoCrash => ScoreOK
  PROVE  ScoresMatchChain
<1>1. db \in Database /\ Indexed \in World /\ Indexed = StateAt(chain, IndexedTo) /\ IndexedTo \in Nat
  BY IndexedIs DEF Base, TypeOK
<1>2. AtLeast(db, Indexed)
  <2>1. IndexedTo \in 0..IndexedTo
    BY <1>1
  <2> QED BY <1>1, <2>1 DEF Lags
<1>3. ASSUME NEW a \in Agents
      PROVE  /\ db.scores[a].completions >= Cardinality(CompletionsOf(Indexed, a))
             /\ db.scores[a].lastActivity >= Indexed.lastActivity[a]
             /\ db.scores[a].disputes >= Cardinality(DisputedOf(Indexed, a))
  BY <1>2 DEF AtLeast
<1>4. ASSUME Without({"crash"}), NEW a \in Agents
      PROVE  /\ db.scores[a].completions = Cardinality(CompletionsOf(Indexed, a))
             /\ db.scores[a].confirmed = Cardinality(ConfirmedOf(Indexed, a))
             /\ db.scores[a].disputes = Cardinality(DisputedOf(Indexed, a))
  <2>1. CountsMatch(db, Indexed)
    BY <1>4 DEF NoCrash, Without, ScoreOK
  <2> QED BY <2>1 DEF CountsMatch, SameCounts, CountersOf
<1>5. ASSUME Without({"crash", "null"}), NEW a \in Agents
      PROVE  db.scores[a].lastActivity = Indexed.lastActivity[a]
  <2>1. EveryBlock /\ ActivityMatches(db, Indexed, EveryBlock)
    BY <1>5 DEF NoCrash, Without, ScoreOK, EveryBlock
  <2> QED BY <2>1 DEF ActivityMatches
<1> QED BY <1>3, <1>4, <1>5, Zenon DEF ScoresMatchChain

\* Polls that do not overlap, no settled block replaced, and one guard of a rebuild lost:
\* whichever calls fail, whichever blocks the node does not have, however often and at which
\* point ever processes are lost, no log is missing from the counters.  Unless a process
\* dies between applying a log and marking it none is counted twice either, and the counters
\* bumped log by log are what a count over the contract's completions gives.
THEOREM ScoresAreExact == Spec /\ [][StartsAlone]_vars => [](NoReorg => ScoresMatchChain)
<1> DEFINE Tame == NoReorg /\ OneGuardLost
           Inv == /\ Base /\ AtMostOne
                  /\ Tame => /\ MarksOK /\ AlertsOK /\ LoneOK /\ KnownOK /\ Lags
                             /\ NoCrash => ScoreOK
<1>1. Init => Inv
  BY BaseInit, LoneInit, AlertsInit, LagInit, ScoreInit
<1>2. Inv /\ [Next]_vars /\ [StartsAlone]_vars => Inv'
  <2> SUFFICES ASSUME Inv, [Next]_vars, [StartsAlone]_vars PROVE Inv'
    OBVIOUS
  <2>1. (Tame' <=> Tame) /\ (NoCrash' <=> NoCrash)
    BY ScenarioStep DEF OneGuardLost, HashesFail, ProcessesDie, NoReorg, NoCrash
  <2>2. Base' /\ AtMostOne'
    BY BaseStep, LoneStep
  <2>3. Tame => MarksOK' /\ AlertsOK'
    BY AlertsStep
  <2>4. Tame => LoneOK' /\ KnownOK' /\ Lags'
    BY LoneKept, LagStep
  <2>5. Tame /\ NoCrash => ScoreOK'
    BY ScoreStep
  <2> QED BY <2>1, <2>2, <2>3, <2>4, <2>5
<1>3. Inv => (NoReorg => ScoresMatchChain)
  <2> SUFFICES ASSUME Inv, NoReorg PROVE ScoresMatchChain
    OBVIOUS
  <2>1. CASE OneGuardLost
    BY <2>1, CountersTell
  <2>2. CASE ~OneGuardLost
    BY <2>2, GuardsAre DEF ScoresMatchChain
  <2> QED BY <2>1, <2>2
<1> QED BY <1>1, <1>2, <1>3, PTL DEF Spec

-----------------------------------------------------------------------------
(* The counterparties of the index and those of the contract's completions *)

PairsMatch(d, w) ==
    \A a \in Agents :
        /\ \A r \in Parties : d.confirmations[a][r] = Cardinality(PairOf(w, a, r))
        /\ d.distinct[a] = Cardinality(PartnersOf(w, a))

LEMMA PairsFinite ==
  ASSUME NEW w, NEW a
  PROVE  /\ IsFiniteSet(PartnersOf(w, a)) /\ Cardinality(PartnersOf(w, a)) \in Nat
         /\ \A r : /\ Cardinality(PairOf(w, a, r)) \in Nat
                   /\ PairOf(w, a, r) \in SUBSET Completions
                   /\ Cardinality(PairOf(w, a, r)) = 0 <=> PairOf(w, a, r) = {}
<1> DEFINE f == [i \in Completions |-> w.completions[i].counterparty]
           T == {f[i] : i \in Completions}
<1>1. IsFiniteSet(T)
  <2>1. f \in Surjection(Completions, T)
    BY DEF Surjection
  <2> HIDE DEF f, T
  <2> QED BY <2>1, CompletionsFinite, FS_Surjection
<1>2. PartnersOf(w, a) \in SUBSET T
  <2> SUFFICES ASSUME NEW r \in PartnersOf(w, a) PROVE r \in T
    OBVIOUS
  <2>1. PICK i \in Completions : w.completions[i].counterparty = r
    BY DEF PartnersOf, PairOf, CompletionsOf
  <2>2. f[i] = r
    BY <2>1
  <2> QED BY <2>2
<1> HIDE DEF T
<1>3. IsFiniteSet(PartnersOf(w, a))
  BY <1>1, <1>2, FS_Subset
<1>4. ASSUME NEW r
      PROVE  /\ Cardinality(PairOf(w, a, r)) \in Nat
             /\ PairOf(w, a, r) \in SUBSET Completions
             /\ Cardinality(PairOf(w, a, r)) = 0 <=> PairOf(w, a, r) = {}
  <2>1. PairOf(w, a, r) \in SUBSET Completions
    BY DEF PairOf, CompletionsOf
  <2>2. IsFiniteSet(PairOf(w, a, r))
    BY <2>1, CompletionsFinite, FS_Subset
  <2> QED BY <2>1, <2>2, FS_CardinalityType, FS_EmptySet
<1> QED BY <1>3, <1>4, FS_CardinalityType

\* A completion that has no counterparty before and after counts for nobody.
LEMMA PairsKept ==
  ASSUME NEW d, NEW e, NEW w, NEW v, PairsMatch(d, w),
         \A i \in Completions :
            /\ v.completions[i].counterparty = w.completions[i].counterparty
            /\ w.completions[i].counterparty # Nobody =>
                  v.completions[i].agent = w.completions[i].agent,
         e.confirmations = d.confirmations, e.distinct = d.distinct
  PROVE  PairsMatch(e, v)
<1>1. \A a \in Agents : \A r \in Parties : PairOf(v, a, r) = PairOf(w, a, r)
  BY EventLogAssumption DEF PairOf, CompletionsOf
<1>2. ASSUME NEW a \in Agents PROVE PartnersOf(v, a) = PartnersOf(w, a)
  BY <1>1 DEF PartnersOf
<1>3. ASSUME NEW a \in Agents
      PROVE  /\ \A r \in Parties : e.confirmations[a][r] = Cardinality(PairOf(v, a, r))
             /\ e.distinct[a] = Cardinality(PartnersOf(v, a))
  <2>1. /\ \A r \in Parties : d.confirmations[a][r] = Cardinality(PairOf(w, a, r))
        /\ d.distinct[a] = Cardinality(PartnersOf(w, a))
    BY Zenon DEF PairsMatch
  <2> QED BY <1>1, <1>2, <2>1, Zenon
<1> QED BY <1>3, Zenon DEF PairsMatch

\* The completion with an id gets counterparty r, or loses it, and the tables with it.
ReceiptMoves(d, e, w, v, id, a, r, delta) ==
    /\ \A i \in Completions \ {id} : v.completions[i] = w.completions[i]
    /\ w.completions[id].agent = a /\ v.completions[id].agent = a
    /\ \/ /\ delta = 1
          /\ w.completions[id].counterparty = Nobody /\ v.completions[id].counterparty = r
       \/ /\ delta = -1
          /\ w.completions[id].counterparty = r /\ v.completions[id].counterparty = Nobody
    /\ e.confirmations = ConfirmationsAfter(d, a, r, delta)
    /\ e.distinct = DistinctsAfter(d, a, r, delta)

LEMMA PairsMove ==
  ASSUME NEW d \in Database, NEW e, NEW w, NEW v, NEW id \in Completions,
         NEW a \in Agents, NEW r \in Parties, NEW delta \in {1, -1},
         PairsMatch(d, w), ReceiptMoves(d, e, w, v, id, a, r, delta)
  PROVE  PairsMatch(e, v)
<1>1. r # Nobody
  BY EventLogAssumption
<1>2. ASSUME NEW o \in Agents, NEW s \in Parties, o # a \/ s # r
      PROVE  PairOf(v, o, s) = PairOf(w, o, s)
  BY <1>2, EventLogAssumption DEF PairOf, CompletionsOf, ReceiptMoves
<1>3. PairOf(v, a, r) \ {id} = PairOf(w, a, r) \ {id}
  BY DEF PairOf, CompletionsOf, ReceiptMoves
<1>4. /\ id \in PairOf(v, a, r) <=> delta = 1
      /\ id \in PairOf(w, a, r) <=> delta = -1
  BY <1>1 DEF PairOf, CompletionsOf, ReceiptMoves
<1> DEFINE cur == Cardinality(PairOf(w, a, r))
           next == Cardinality(PairOf(v, a, r))
<1>5. next = cur + delta /\ cur \in Nat /\ next \in Nat
  <2>1. PairOf(v, a, r) \in SUBSET Completions /\ PairOf(w, a, r) \in SUBSET Completions
        /\ cur \in Nat /\ next \in Nat
    BY PairsFinite
  <2>2. next = cur + (IF id \in PairOf(v, a, r) THEN 1 ELSE 0) - (IF id \in PairOf(w, a, r) THEN 1 ELSE 0)
    BY <1>3, <2>1, CompletionsFinite, CountChange
  <2> HIDE DEF cur, next
  <2> QED BY <1>4, <2>1, <2>2
<1>6. /\ d.confirmations \in [Agents -> [Parties -> Nat]] /\ d.distinct \in [Agents -> Nat]
      /\ d.confirmations[a][r] = cur
      /\ \A o \in Agents : /\ \A s \in Parties : d.confirmations[o][s] = Cardinality(PairOf(w, o, s))
                           /\ d.distinct[o] = Cardinality(PartnersOf(w, o))
  BY DEF Database, PairsMatch
<1>7. (cur = 0 <=> PairOf(w, a, r) = {}) /\ (next = 0 <=> PairOf(v, a, r) = {})
  BY PairsFinite
<1>8. PartnersOf(v, a) = IF next = 0 THEN PartnersOf(w, a) \ {r} ELSE PartnersOf(w, a) \cup {r}
  <2>1. \A s \in Parties : s \in PartnersOf(v, a) <=> PairOf(v, a, s) # {}
    BY DEF PartnersOf
  <2>2. \A s \in Parties : s \in PartnersOf(w, a) <=> PairOf(w, a, s) # {}
    BY DEF PartnersOf
  <2>3. \A s \in Parties \ {r} : s \in PartnersOf(v, a) <=> s \in PartnersOf(w, a)
    BY <1>2, <2>1, <2>2
  <2>4. r \in PartnersOf(v, a) <=> next # 0
    BY <1>7, <2>1
  <2>5. PartnersOf(v, a) \subseteq Parties /\ PartnersOf(w, a) \subseteq Parties
    BY DEF PartnersOf
  <2> HIDE DEF next
  <2> QED BY <2>3, <2>4, <2>5
<1>9. r \in PartnersOf(w, a) <=> cur # 0
  BY <1>7 DEF PartnersOf
<1> HIDE DEF cur, next
<1>10. Cardinality(PartnersOf(v, a)) = DistinctAfter(Cardinality(PartnersOf(w, a)), cur, next)
  <2> DEFINE P == PartnersOf(w, a)
             n == Cardinality(P)
  <2>1. IsFiniteSet(P) /\ n \in Nat /\ (n = 0 <=> P = {})
    BY PairsFinite, FS_EmptySet
  <2>2. Cardinality(P \ {r}) = IF r \in P THEN n - 1 ELSE n
    BY <2>1, FS_RemoveElement, Zenon
  <2>3. Cardinality(P \cup {r}) = IF r \in P THEN n ELSE n + 1
    BY <2>1, FS_AddElement, Zenon
  <2>4. CASE next = 0
    <3>1. cur > 0 /\ next <= 0
      BY <1>5, <2>4
    <3>2. DistinctAfter(n, cur, next) = AtLeastZero(n - 1)
      BY <3>1 DEF DistinctAfter
    <3>3. r \in P
      BY <1>5, <1>9, <3>1
    <3>4. n # 0
      BY <2>1, <3>3
    <3>5. Cardinality(PartnersOf(v, a)) = n - 1
      BY <1>8, <2>2, <2>4, <3>3
    <3> HIDE DEF n
    <3> QED BY <2>1, <3>2, <3>4, <3>5 DEF AtLeastZero, n
  <2>5. CASE next # 0 /\ cur = 0
    <3>1. next > 0 /\ ~(cur > 0)
      BY <1>5, <2>5
    <3>2. DistinctAfter(n, cur, next) = n + 1
      BY <2>5, <3>1 DEF DistinctAfter
    <3> QED BY <1>8, <1>9, <2>3, <2>5, <3>2
  <2>6. CASE next # 0 /\ cur # 0
    <3>1. next > 0 /\ ~(next <= 0)
      BY <1>5, <2>6
    <3>2. DistinctAfter(n, cur, next) = n
      BY <2>6, <3>1 DEF DistinctAfter
    <3> QED BY <1>8, <1>9, <2>3, <2>6, <3>2
  <2> QED BY <2>4, <2>5, <2>6
<1>11. \A o \in Agents : o # a => PartnersOf(v, o) = PartnersOf(w, o)
  BY <1>2 DEF PartnersOf
<1>12. ASSUME NEW o \in Agents, NEW s \in Parties
       PROVE  e.confirmations[o][s] = Cardinality(PairOf(v, o, s))
  <2>1. e.confirmations =
           [d.confirmations EXCEPT ![a] = [d.confirmations[a] EXCEPT ![r] = AtLeastZero(cur + delta)]]
    BY <1>6 DEF ReceiptMoves, ConfirmationsAfter
  <2>2. AtLeastZero(cur + delta) = next
    BY <1>5 DEF AtLeastZero
  <2>3. CASE o = a /\ s = r
    <3>1. e.confirmations[a][r] = next
      BY <1>6, <2>1, <2>2
    <3> QED BY <2>3, <3>1 DEF next
  <2>4. CASE o # a \/ s # r
    <3>1. e.confirmations[o][s] = d.confirmations[o][s]
      BY <1>6, <2>1, <2>4
    <3> QED BY <1>2, <1>6, <2>4, <3>1
  <2> QED BY <2>3, <2>4
<1>13. ASSUME NEW o \in Agents PROVE e.distinct[o] = Cardinality(PartnersOf(v, o))
  <2>1. e.distinct = [d.distinct EXCEPT ![a] = DistinctAfter(d.distinct[a], cur, next)]
    BY <1>5, <1>6 DEF ReceiptMoves, DistinctsAfter
  <2>2. CASE o = a
    BY <1>6, <1>10, <2>1, <2>2
  <2>3. CASE o # a
    BY <1>6, <1>11, <2>1, <2>3
  <2> QED BY <2>2, <2>3
<1> QED BY <1>12, <1>13, Zenon DEF PairsMatch

\* The counterparties follow a log as the contract's completions do.
LEMMA PairsAfterLog ==
  ASSUME NEW d \in Database, NEW b \in Block, NEW w \in World, NEW ts \in Nat, b.log # NoLog,
         Emits(w, b.log), Sound(w), CountsMatch(d, w), PairsMatch(d, w)
  PROVE  PairsMatch(applyLog(d, b, ts), StateAfter(w, b.log, b.number))
<1> DEFINE e == applyLog(d, b, ts)
           v == StateAfter(w, b.log, b.number)
           l == b.log
           c == w.completions[l.id]
           f == v.completions[l.id]
<1>1. l \in Log /\ b.number \in Nat
  BY DEF Block
<1>2. \A i \in Completions : v.completions[i] = IF l.kind \in CompletionKinds /\ l.id = i
                                                 THEN CompletionAfter(w.completions[i], l)
                                                 ELSE w.completions[i]
  BY <1>1, AfterTables
<1>3. l.kind \in CompletionKinds => l.id \in Completions /\ c \in Completion
  BY <1>1, LogFields DEF World
<1> HIDE DEF e, v
<1>4. CASE l.kind = "SelfAttested"
  <2>1. l.id \in Completions /\ c \in Completion /\ l.kind \in CompletionKinds
    BY <1>3, <1>4 DEF CompletionKinds
  <2>2. c.agent = Nobody /\ c.counterparty = Nobody
    BY <1>4, <2>1 DEF Emits, Sound
  <2>3. f = [c EXCEPT !.agent = l.agent]
    BY <1>2, <1>4, <2>1 DEF CompletionAfter
  <2>4. f.counterparty = Nobody
    BY <2>1, <2>2, <2>3 DEF Completion
  <2>5. e.confirmations = d.confirmations /\ e.distinct = d.distinct
    BY <1>4, ApplySelfAttested DEF e
  <2>6. \A i \in Completions :
           /\ v.completions[i].counterparty = w.completions[i].counterparty
           /\ w.completions[i].counterparty # Nobody =>
                 v.completions[i].agent = w.completions[i].agent
    BY <1>2, <2>2, <2>4
  <2> QED BY <2>5, <2>6, PairsKept DEF e, v
<1>5. CASE l.kind = "ReceiptAttested"
  <2>1. /\ l.id \in Completions /\ c \in Completion /\ l.kind \in CompletionKinds
        /\ l.agent \in Agents /\ l.counterparty \in Parties
    BY <1>1, <1>3, <1>5, LogFields DEF CompletionKinds
  <2>2. c.agent = l.agent /\ c.counterparty = Nobody
    BY <1>5, <2>1 DEF Emits
  <2>3. f = [c EXCEPT !.counterparty = l.counterparty]
    BY <1>2, <1>5, <2>1 DEF CompletionAfter
  <2>4. f.counterparty = l.counterparty /\ f.agent = l.agent
    BY <2>1, <2>2, <2>3 DEF Completion
  <2>5. /\ e.confirmations = ConfirmationsAfter(d, l.agent, l.counterparty, 1)
        /\ e.distinct = DistinctsAfter(d, l.agent, l.counterparty, 1)
    BY <1>5, ApplyReceiptAttested DEF e
  <2>6. ReceiptMoves(d, e, w, v, l.id, l.agent, l.counterparty, 1)
    BY <1>2, <2>2, <2>4, <2>5 DEF ReceiptMoves
  <2> QED BY <2>1, <2>6, PairsMove DEF e, v
<1>6. CASE l.kind = "ReceiptRevoked" \/ (l.kind = "ChallengeResolved" /\ l.upheld)
  <2>1. l.id \in Completions /\ c \in Completion /\ l.kind \in CompletionKinds
    BY <1>3, <1>6 DEF CompletionKinds
  <2>2. c.agent # Nobody
    BY <1>6, <2>1 DEF Emits
  <2>3. \/ f = [c EXCEPT !.counterparty = Nobody]
        \/ f = [c EXCEPT !.pending = FALSE, !.disputed = TRUE, !.counterparty = Nobody]
    <3>1. f = CompletionAfter(c, l)
      BY <1>2, <2>1
    <3> HIDE DEF f, c
    <3>2. CASE l.kind = "ReceiptRevoked"
      BY <3>1, <3>2 DEF CompletionAfter
    <3>3. CASE l.kind = "ChallengeResolved" /\ l.upheld
      <4>1. l.upheld = TRUE
        BY <1>1, <3>3, LogFields
      <4> QED BY <3>1, <3>3, <4>1 DEF CompletionAfter
    <3> QED BY <1>6, <3>2, <3>3
  <2>4. f.counterparty = Nobody /\ f.agent = c.agent
    BY <2>1, <2>3 DEF Completion
  <2>5. RowsTell(d, c, l.id)
    BY <2>1 DEF CountsMatch, RowsTell
  <2>6. c.counterparty = Nobody =>
           e.confirmations = d.confirmations /\ e.distinct = d.distinct
    <3>1. CASE l.kind = "ReceiptRevoked"
      BY <2>5, <3>1, ApplyReceiptRevoked DEF RevokedBy, RowsTell, e
    <3>2. CASE l.kind = "ChallengeResolved" /\ l.upheld
      <4> DEFINE S == BumpedScores(d.scores, d.completions[l.id], Disputed)
                 g == [d EXCEPT !.scores = S]
      <4>1. RevokedBy(g, e, l.id, d.completions[l.id])
        BY <2>2, <2>5, <3>2, ApplyUpheldChallenge DEF RowsTell, e
      <4>2. /\ g.receipts = d.receipts /\ g.confirmations = d.confirmations
            /\ g.distinct = d.distinct
        BY DEF Database
      <4> HIDE DEF g
      <4> QED BY <2>5, <4>1, <4>2 DEF RevokedBy, RowsTell
    <3> QED BY <1>6, <3>1, <3>2
  <2>7. c.counterparty # Nobody =>
           /\ c.agent \in Agents /\ c.counterparty \in Parties
           /\ e.confirmations = ConfirmationsAfter(d, c.agent, c.counterparty, -1)
           /\ e.distinct = DistinctsAfter(d, c.agent, c.counterparty, -1)
    <3>1. CASE l.kind = "ReceiptRevoked"
      <4>1. RevokedBy(d, e, l.id, d.receipts[l.id].agent)
        BY <3>1, ApplyReceiptRevoked DEF e
      <4> QED BY <2>2, <2>5, <4>1 DEF RevokedBy, RowsTell
    <3>2. CASE l.kind = "ChallengeResolved" /\ l.upheld
      <4> DEFINE S == BumpedScores(d.scores, d.completions[l.id], Disputed)
                 g == [d EXCEPT !.scores = S]
      <4>1. RevokedBy(g, e, l.id, d.completions[l.id])
        BY <2>2, <2>5, <3>2, ApplyUpheldChallenge DEF RowsTell, e
      <4>2. /\ g.receipts = d.receipts /\ g.confirmations = d.confirmations
            /\ g.distinct = d.distinct
        BY DEF Database
      <4> HIDE DEF g
      <4>3. c.counterparty # Nobody =>
               /\ c.agent \in Agents /\ c.counterparty \in Parties
               /\ e.confirmations = ConfirmationsAfter(g, c.agent, c.counterparty, -1)
               /\ e.distinct = DistinctsAfter(g, c.agent, c.counterparty, -1)
        BY <2>2, <2>5, <4>1, <4>2 DEF RevokedBy, RowsTell
      <4>4. /\ ConfirmationsAfter(g, c.agent, c.counterparty, -1) =
                  ConfirmationsAfter(d, c.agent, c.counterparty, -1)
            /\ DistinctsAfter(g, c.agent, c.counterparty, -1) =
                  DistinctsAfter(d, c.agent, c.counterparty, -1)
        BY <4>2 DEF ConfirmationsAfter, DistinctsAfter
      <4> QED BY <4>3, <4>4
    <3> QED BY <1>6, <3>1, <3>2
  <2>8. CASE c.counterparty = Nobody
    <3>1. \A i \in Completions :
             /\ v.completions[i].counterparty = w.completions[i].counterparty
             /\ w.completions[i].counterparty # Nobody =>
                   v.completions[i].agent = w.completions[i].agent
      BY <1>2, <2>4, <2>8
    <3> QED BY <2>6, <2>8, <3>1, PairsKept DEF e, v
  <2>9. CASE c.counterparty # Nobody
    <3>1. ReceiptMoves(d, e, w, v, l.id, c.agent, c.counterparty, -1)
      BY <1>2, <2>4, <2>7, <2>9 DEF ReceiptMoves
    <3> QED BY <2>1, <2>7, <2>9, <3>1, PairsMove DEF e, v
  <2> QED BY <2>8, <2>9
<1>7. CASE /\ l.kind \notin {"SelfAttested", "ReceiptAttested", "ReceiptRevoked"}
           /\ ~(l.kind = "ChallengeResolved" /\ l.upheld)
  <2>1. e.confirmations = d.confirmations /\ e.distinct = d.distinct
    BY <1>7, CountOtherLog DEF KeepsReputation, e
  <2>2. ASSUME l.kind \in CompletionKinds
        PROVE  f.agent = c.agent /\ f.counterparty = c.counterparty
    <3>1. f = CompletionAfter(c, l) /\ c \in Completion
      BY <1>2, <1>3, <2>2
    <3> HIDE DEF f, c
    <3>2. CASE l.kind = "ChallengeSubmitted"
      <4>1. f = [c EXCEPT !.challenged = TRUE, !.pending = TRUE]
        BY <3>1, <3>2 DEF CompletionAfter
      <4> QED BY <3>1, <4>1 DEF Completion
    <3>3. CASE l.kind = "ChallengeCancelled"
      <4>1. f = [c EXCEPT !.pending = FALSE]
        BY <3>1, <3>3 DEF CompletionAfter
      <4> QED BY <3>1, <4>1 DEF Completion
    <3>4. CASE l.kind = "ChallengeResolved"
      <4>1. l.upheld = FALSE
        BY <1>1, <1>7, <3>4, LogFields
      <4>2. f = [c EXCEPT !.pending = FALSE, !.disputed = FALSE, !.counterparty = c.counterparty]
        BY <3>1, <3>4, <4>1 DEF CompletionAfter
      <4> QED BY <3>1, <4>2 DEF Completion
    <3> QED BY <1>7, <2>2, <3>2, <3>3, <3>4 DEF CompletionKinds
  <2>3. \A i \in Completions :
           /\ v.completions[i].counterparty = w.completions[i].counterparty
           /\ w.completions[i].counterparty # Nobody =>
                 v.completions[i].agent = w.completions[i].agent
    BY <1>2, <2>2
  <2> QED BY <2>1, <2>3, PairsKept DEF e, v
<1> QED BY <1>4, <1>5, <1>6, <1>7

-----------------------------------------------------------------------------
(* What discovery lists *)

\* A row is of a capability that is in the registry, of the same creator, and certified
\* only if the capability is.
RowTrue(row, k) ==
    /\ row.creator = Nobody => ~row.certified
    /\ row.creator # Nobody => k.registered /\ k.live /\ k.creator = row.creator
    /\ row.certified => k.certified

\* Each row and each profile is that of some block no older than the last applied one: a
\* lost process and a rebuild take markers back and leave what was written.
RowsStand ==
    \A i \in Capabilities : \E n \in IndexedTo..settled :
        RowTrue(db.capabilities[i], StateAt(chain, n).capabilities[i])

ProfilesStand ==
    \A a \in Agents : \E n \in IndexedTo..settled :
        db.identity[a] = StateAt(chain, n).agentMetadataCID[a]

\* Whatever is owed before a marked block is marked.
MarksInOrder ==
    \A m \in Marks(db) : \A n \in 1..m.block : Owes(chain[n].log) => Marked(db, chain[n])

ListingOK == MarksInOrder /\ RowsStand /\ ProfilesStand

LEMMA TablesAfterLog ==
  ASSUME NEW d \in Database, NEW b \in Block, NEW ts \in Nat, b.log # NoLog
  PROVE  LET e == applyLog(d, b, ts)
             l == b.log
         IN  /\ \A i \in Capabilities :
                   e.capabilities[i] = IF l.kind \in CapabilityKinds /\ l.id = i
                                       THEN IndexedAfter(d.capabilities[i], l)
                                       ELSE d.capabilities[i]
             /\ \A a \in Agents :
                   e.identity[a] = IF l.kind = "AgentRegistered" /\ l.agent = a
                                   THEN l.cid ELSE d.identity[a]
<1> DEFINE e == applyLog(d, b, ts)
           l == b.log
<1>1. l \in Log
  BY DEF Block
<1>2. /\ d.capabilities \in [Capabilities -> IndexedCapability]
      /\ d.identity \in [Agents -> Profiles \cup {Nobody}]
  BY DEF Database
<1>3. CASE l.kind \in CapabilityKinds
  <2>1. l.id \in Capabilities /\ l.kind # "AgentRegistered"
    BY <1>1, <1>3, LogFields DEF CapabilityKinds
  <2>2. /\ e.capabilities =
              [d.capabilities EXCEPT ![l.id] = IndexedAfter(d.capabilities[l.id], l)]
        /\ e.identity = d.identity
    BY <1>3, ApplyCapabilityLog
  <2> HIDE DEF e, l
  <2>3. \A i \in Capabilities : e.capabilities[i] = IF l.id = i
                                                    THEN IndexedAfter(d.capabilities[i], l)
                                                    ELSE d.capabilities[i]
    BY <1>2, <2>2
  <2> QED BY <1>3, <2>1, <2>2, <2>3 DEF e, l
<1>4. CASE l.kind \notin CapabilityKinds
  <2>1. e.capabilities = d.capabilities
    <3>1. CASE l.kind = "AgentRegistered"
      BY <3>1, ApplyAgentRegistered DEF e
    <3>2. CASE l.kind = "SelfAttested"
      BY <3>2, ApplySelfAttested DEF e
    <3>3. CASE l.kind = "ReceiptAttested"
      BY <3>3, ApplyReceiptAttested DEF e
    <3>4. CASE l.kind = "ReceiptRevoked"
      BY <3>4, ApplyReceiptRevoked DEF e
    <3>5. CASE l.kind = "ChallengeResolved" /\ l.upheld /\ d.completions[l.id] # Nobody
      BY <3>5, ApplyUpheldChallenge DEF e
    <3>6. CASE \/ l.kind \in {"ChallengeSubmitted", "ChallengeCancelled", "OwnerActed"}
               \/ l.kind = "ChallengeResolved" /\ ~(l.upheld /\ d.completions[l.id] # Nobody)
      <4>1. e = recordAlert(d, b) /\ l.kind \in AlertKinds
        BY <3>6, ApplyQuietLog DEF AlertKinds
      <4> QED BY <4>1, RecordAlertKeeps
    <3> QED BY <1>1, <1>4, <3>1, <3>2, <3>3, <3>4, <3>5, <3>6, LogFields DEF CompletionKinds
  <2>2. e.identity = IF l.kind = "AgentRegistered" THEN [d.identity EXCEPT ![l.agent] = l.cid]
                     ELSE d.identity
    <3>1. CASE l.kind = "AgentRegistered"
      BY <3>1, ApplyAgentRegistered DEF e
    <3>2. CASE l.kind = "SelfAttested"
      BY <3>2, ApplySelfAttested DEF e
    <3>3. CASE l.kind = "ReceiptAttested"
      BY <3>3, ApplyReceiptAttested DEF e
    <3>4. CASE l.kind = "ReceiptRevoked"
      BY <3>4, ApplyReceiptRevoked DEF e
    <3>5. CASE l.kind = "ChallengeResolved" /\ l.upheld /\ d.completions[l.id] # Nobody
      BY <3>5, ApplyUpheldChallenge DEF e
    <3>6. CASE \/ l.kind \in {"ChallengeSubmitted", "ChallengeCancelled", "OwnerActed"}
               \/ l.kind = "ChallengeResolved" /\ ~(l.upheld /\ d.completions[l.id] # Nobody)
      <4>1. e = recordAlert(d, b) /\ l.kind \in AlertKinds /\ l.kind # "AgentRegistered"
        BY <3>6, ApplyQuietLog DEF AlertKinds
      <4> QED BY <4>1, RecordAlertKeeps
    <3> QED BY <1>1, <1>4, <3>1, <3>2, <3>3, <3>4, <3>5, <3>6, LogFields DEF CompletionKinds
  <2> HIDE DEF e, l
  <2>3. \A a \in Agents : e.identity[a] = IF l.kind = "AgentRegistered" /\ l.agent = a
                                          THEN l.cid ELSE d.identity[a]
    BY <1>2, <2>2
  <2> QED BY <1>4, <2>1, <2>3 DEF e, l
<1> QED BY <1>3, <1>4

\* A log keeps a row true of the state that it leads to.
LEMMA RowAfterLog ==
  ASSUME NEW row \in IndexedCapability, NEW k \in Capability, NEW l \in Log,
         l.kind \in CapabilityKinds, l.kind = "CapabilityRegistered" => ~k.registered,
         RowTrue(row, k)
  PROVE  RowTrue(IndexedAfter(row, l), CapabilityAfter(k, l))
<1>1. CASE l.kind = "CapabilityRegistered"
  <2>1. l.creator \in Agents /\ l.creator # Nobody
    BY <1>1, LogFields, EventLogAssumption
  <2>2. ~row.certified
    BY <1>1 DEF RowTrue, IndexedCapability
  <2> QED BY <1>1, <2>1, <2>2
          DEF RowTrue, IndexedAfter, CapabilityAfter, IndexedCapability, Capability
<1>2. CASE l.kind = "CapabilityCertified"
  BY <1>2 DEF RowTrue, IndexedAfter, CapabilityAfter, IndexedCapability, Capability
<1>3. CASE l.kind = "CapabilitySlashed"
  BY <1>3 DEF RowTrue, IndexedAfter, CapabilityAfter, IndexedCapability, Capability
<1>4. CASE l.kind = "BondWithdrawn"
  BY <1>4 DEF RowTrue, IndexedAfter
<1> QED BY <1>1, <1>2, <1>3, <1>4 DEF CapabilityKinds

\* And a log that is applied again keeps it true of the later state m it was true of.
LEMMA RowAfterOldLog ==
  ASSUME NEW row \in IndexedCapability, NEW h \in Capability, NEW m \in Capability,
         NEW l \in Log, l.kind \in CapabilityKinds,
         l.kind # "CapabilityRegistered" => h.registered,
         l.kind = "CapabilityRegistered" => row.creator # Nobody,
         LET k == CapabilityAfter(h, l)
         IN  k.registered => m.creator = k.creator /\ (k.certified => m.certified),
         RowTrue(row, m)
  PROVE  RowTrue(IndexedAfter(row, l), m)
<1>1. CASE l.kind = "CapabilityRegistered"
  <2>1. CapabilityAfter(h, l).registered /\ CapabilityAfter(h, l).creator = l.creator
    BY <1>1 DEF CapabilityAfter, Capability
  <2>2. m.creator = l.creator /\ row.creator = m.creator
    BY <1>1, <2>1 DEF RowTrue
  <2>3. IndexedAfter(row, l) = row
    BY <1>1, <2>2 DEF IndexedAfter, IndexedCapability
  <2> QED BY <2>3
<1>2. CASE l.kind = "CapabilityCertified"
  <2>1. CapabilityAfter(h, l).registered /\ CapabilityAfter(h, l).certified
    BY <1>2 DEF CapabilityAfter, Capability
  <2> QED BY <1>2, <2>1 DEF RowTrue, IndexedAfter, IndexedCapability
<1>3. CASE l.kind = "CapabilitySlashed"
  BY <1>3 DEF RowTrue, IndexedAfter, IndexedCapability
<1>4. CASE l.kind = "BondWithdrawn"
  BY <1>4 DEF RowTrue, IndexedAfter
<1> QED BY <1>1, <1>2, <1>3, <1>4 DEF CapabilityKinds

\* A registration that is applied is one of a capability that is still in the registry.
LEMMA RegistrationIsLive ==
  ASSUME Base, Base', NEW p \in Polls, Applies(p), Alone(p),
         Applied' = Applied \cup {chain[At(polls[p])].hash},
         chain[At(polls[p])].log.kind = "CapabilityRegistered"
  PROVE  LET l == chain[At(polls[p])].log
             k == Indexed'.capabilities[l.id]
         IN  l.id \in Capabilities /\ k.registered /\ k.live /\ k.creator = l.creator
<1> DEFINE n == At(polls[p])
           l == chain[n].log
           w == StateAt(chain, n - 1)
           k == chain[n].state.capabilities[l.id]
           m == Indexed'.capabilities[l.id]
           head == StateAt(chain, Len(chain)).capabilities[l.id]
<1>1. /\ TypeOK /\ ChainOK /\ ShapeOK /\ TypeOK' /\ chain' = chain /\ Len(chain) \in Nat
      /\ polls[p].pc \in {"stamp", "enrich"}
  BY BlockFacts DEF Base, Applies, Alone
<1>2. n \in 1..Len(chain)
  BY <1>1, WindowFacts
<1>3. l \in Log /\ l.id \in Capabilities /\ l.kind \in CapabilityKinds
  BY <1>1, <1>2, BlockFacts, LogFields DEF CapabilityKinds
<1>4. PICK j \in Nat : j = n - 1 /\ j \in 0..Len(chain)
  BY <1>1, <1>2
<1>5. w \in World /\ chain[n].state = StateAfter(w, l, n) /\ n \in Nat
  BY <1>1, <1>2, <1>4, BlockFacts DEF ChainOK
<1>6. k.registered /\ k.creator = l.creator
  <2>1. k = CapabilityAfter(w.capabilities[l.id], l)
    BY <1>3, <1>5, AfterTables
  <2>2. w.capabilities[l.id] \in Capability
    BY <1>3, <1>5 DEF World
  <2>3. k = [w.capabilities[l.id] EXCEPT !.registered = TRUE, !.live = TRUE, !.creator = l.creator]
    BY <2>1 DEF CapabilityAfter
  <2> HIDE DEF k, w
  <2> QED BY <2>2, <2>3 DEF Capability
<1>7. /\ IndexedTo' \in 0..Len(chain) /\ Indexed' = StateAt(chain, IndexedTo')
      /\ n <= IndexedTo'
  <2>1. n \in AppliedBlocks'
    BY <1>1, <1>2 DEF AppliedBlocks
  <2> QED BY <1>1, <2>1, IndexedNext
<1>8. Later(chain[n].state, Indexed')
  <2>1. StateAt(chain, n) = chain[n].state /\ n \in 0..IndexedTo'
    BY <1>1, <1>2, <1>7 DEF StateAt
  <2> QED BY <1>1, <1>7, <2>1 DEF ChainOK
<1>9. Later(Indexed', StateAt(chain, Len(chain)))
  <2>1. Len(chain) \in 0..Len(chain)
    BY <1>1
  <2> QED BY <1>1, <1>7, <2>1 DEF ChainOK
<1>10. head.live
  <2>1. Enrichable(chain[n])
    BY DEF Applies, NeedsCall
  <2> QED BY <2>1 DEF Enrichable
<1> HIDE DEF k, w, n, l, head, m
<1>11. m.registered /\ m.creator = k.creator
  BY <1>3, <1>6, <1>8 DEF Later, k, m
<1>12. m.live
  BY <1>3, <1>9, <1>10, <1>11 DEF Later, head, m
<1> QED BY <1>3, <1>6, <1>11, <1>12 DEF m, l, n

LEMMA RowsApply ==
  ASSUME Base, Base', NoReorg, MarksOK, NEW p \in Polls, CursorOK(p), RowsStand,
         Applies(p), Poll(p), Alone(p), Applied' = Applied \cup {chain[At(polls[p])].hash}
  PROVE  RowsStand'
<1> SUFFICES ASSUME NEW i \in Capabilities
             PROVE  \E m \in IndexedTo'..settled' :
                       RowTrue(db'.capabilities[i], StateAt(chain', m).capabilities[i])
  BY DEF RowsStand
<1>1. PICK n : n = At(polls[p])
  OBVIOUS
<1>2. /\ settled \in Nat /\ Len(chain) \in Nat /\ settled <= Len(chain)
      /\ n \in 1..settled /\ IndexedTo \in 0..settled /\ chain[n].log # NoLog
      /\ IndexedTo' = IF n > IndexedTo THEN n ELSE IndexedTo
      /\ \A m \in IndexedTo..(n - 1) : Undisturbed(StateAt(chain, m), StateAt(chain, n - 1))
      /\ chain' = chain /\ settled' = settled
  BY <1>1, IndexReaches DEF Alone
<1>3. /\ n \in 1..Len(chain) /\ n - 1 \in 0..Len(chain) /\ n \in Nat
      /\ TypeOK /\ ChainOK /\ db \in Database
  BY <1>2 DEF Base, TypeOK
<1> DEFINE l == chain[n].log
           w == StateAt(chain, n - 1)
           row == db.capabilities[i]
           h == w.capabilities[i]
           k == StateAt(chain, n).capabilities[i]
<1>4. /\ chain[n] \in Block /\ l \in Log /\ w \in World
      /\ Emits(w, l) /\ chain[n].state = StateAfter(w, l, n)
  BY <1>3, BlockFacts DEF ChainOK
<1>5. db'.capabilities[i] = IF l.kind \in CapabilityKinds /\ l.id = i
                            THEN IndexedAfter(row, l) ELSE row
  <2>1. PICK ts \in Nat : db' = applyLog(db, chain[n], ts)
    BY <1>1, AppliesFacts DEF Applies
  <2> QED BY <1>2, <1>3, <1>4, <2>1, TablesAfterLog
<1>6. k = IF l.kind \in CapabilityKinds /\ l.id = i THEN CapabilityAfter(h, l) ELSE h
  <2>1. StateAt(chain, n) = StateAfter(w, l, n)
    BY <1>3, <1>4 DEF StateAt
  <2> HIDE DEF w, l
  <2> QED BY <1>3, <1>4, <2>1, AfterTables
<1>7. row \in IndexedCapability /\ h \in Capability /\ k \in Capability
  <2>1. StateAt(chain, n) \in World
    BY <1>3, BlockFacts
  <2> QED BY <1>3, <1>4, <2>1 DEF Database, World
<1>8. PICK m \in IndexedTo..settled : RowTrue(row, StateAt(chain, m).capabilities[i])
  BY DEF RowsStand
<1>9. CASE m < n
  <2>1. n \in IndexedTo'..settled /\ m \in IndexedTo..(n - 1)
    BY <1>2, <1>9
  <2>2. RowTrue(row, h)
    <3>1. Undisturbed(StateAt(chain, m), w)
      BY <1>2, <2>1
    <3> QED BY <1>7, <1>8, <3>1 DEF Undisturbed, RowTrue
  <2>3. CASE l.kind \in CapabilityKinds /\ l.id = i
    <3>1. l.kind = "CapabilityRegistered" => ~h.registered
      BY <1>4, <2>3 DEF Emits
    <3> HIDE DEF l, h, row
    <3>2. RowTrue(IndexedAfter(row, l), CapabilityAfter(h, l))
      BY <1>4, <1>7, <2>2, <2>3, <3>1, RowAfterLog
    <3> QED BY <1>2, <1>5, <1>6, <2>1, <2>3, <3>2
  <2>4. CASE ~(l.kind \in CapabilityKinds /\ l.id = i)
    BY <1>2, <1>5, <1>6, <2>1, <2>2, <2>4
  <2> QED BY <2>3, <2>4
<1>10. CASE ~(m < n)
  <2>1. m \in IndexedTo'..settled /\ m \in 0..Len(chain) /\ n \in 0..m
    BY <1>2, <1>10
  <2>2. CASE ~(l.kind \in CapabilityKinds /\ l.id = i)
    BY <1>2, <1>5, <1>8, <2>1, <2>2
  <2>3. CASE l.kind = "CapabilityRegistered" /\ l.id = i /\ row.creator = Nobody
    <3>1. LET c == Indexed'.capabilities[l.id]
          IN  l.id \in Capabilities /\ c.registered /\ c.live /\ c.creator = l.creator
      BY <1>1, <2>3, RegistrationIsLive
    <3>2. Indexed' = StateAt(chain, IndexedTo')
      BY <1>2 DEF Indexed
    <3>3. IndexedTo' \in IndexedTo'..settled
      BY <1>2
    <3>4. ~row.certified
      BY <1>8, <2>3 DEF RowTrue
    <3>5. db'.capabilities[i] = [row EXCEPT !.creator = l.creator]
      BY <1>5, <2>3 DEF CapabilityKinds, IndexedAfter
    <3>6. l.creator # Nobody
      BY <1>4, <2>3, LogFields, EventLogAssumption
    <3> HIDE DEF row, l
    <3>7. db'.capabilities[i].creator = l.creator /\ ~db'.capabilities[i].certified
      BY <1>7, <3>4, <3>5 DEF IndexedCapability
    <3>8. RowTrue(db'.capabilities[i], StateAt(chain, IndexedTo').capabilities[i])
      BY <2>3, <3>1, <3>2, <3>6, <3>7 DEF RowTrue
    <3> QED BY <1>2, <3>3, <3>8
  <2>4. CASE /\ l.kind \in CapabilityKinds /\ l.id = i
             /\ ~(l.kind = "CapabilityRegistered" /\ row.creator = Nobody)
    <3> DEFINE c == StateAt(chain, m).capabilities[i]
    <3>1. c \in Capability
      <4>1. StateAt(chain, m) \in World
        BY <1>3, <2>1, BlockFacts
      <4> QED BY <4>1 DEF World
    <3>2. k.registered => c.creator = k.creator /\ (k.certified => c.certified)
      <4>1. Later(StateAt(chain, n), StateAt(chain, m))
        BY <1>3, <2>1 DEF ChainOK
      <4> QED BY <4>1 DEF Later
    <3>3. l.kind # "CapabilityRegistered" => h.registered
      BY <1>4, <2>4 DEF Emits
    <3>4. k = CapabilityAfter(h, l)
      BY <1>6, <2>4
    <3>5. RowTrue(row, c)
      BY <1>8
    <3> HIDE DEF l, h, k, row, c
    <3>6. RowTrue(IndexedAfter(row, l), c)
      BY <1>4, <1>7, <2>4, <3>1, <3>2, <3>3, <3>4, <3>5, RowAfterOldLog
    <3> QED BY <1>2, <1>5, <2>1, <2>4, <3>6 DEF c
  <2> QED BY <2>2, <2>3, <2>4
<1> QED BY <1>9, <1>10

LEMMA ProfilesApply ==
  ASSUME Base, Base', NoReorg, MarksOK, NEW p \in Polls, CursorOK(p), FreshOK(p), MarksInOrder,
         ProfilesStand, Applies(p), Poll(p), Alone(p),
         Applied' = Applied \cup {chain[At(polls[p])].hash}
  PROVE  ProfilesStand'
<1> SUFFICES ASSUME NEW a \in Agents
             PROVE  \E m \in IndexedTo'..settled' :
                       db'.identity[a] = StateAt(chain', m).agentMetadataCID[a]
  BY DEF ProfilesStand
<1>1. PICK n : n = At(polls[p])
  OBVIOUS
<1>2. /\ settled \in Nat /\ Len(chain) \in Nat /\ settled <= Len(chain)
      /\ n \in 1..settled /\ IndexedTo \in 0..settled /\ chain[n].log # NoLog
      /\ IndexedTo' = IF n > IndexedTo THEN n ELSE IndexedTo
      /\ \A m \in IndexedTo..(n - 1) : Undisturbed(StateAt(chain, m), StateAt(chain, n - 1))
      /\ chain' = chain /\ settled' = settled
  BY <1>1, IndexReaches DEF Alone
<1>3. /\ n \in 1..Len(chain) /\ n - 1 \in 0..Len(chain) /\ n \in Nat
      /\ TypeOK /\ ShapeOK /\ ChainOK /\ db \in Database /\ polls[p].pc \in {"stamp", "enrich"}
  BY <1>2 DEF Base, TypeOK, Applies
<1> DEFINE l == chain[n].log
           w == StateAt(chain, n - 1)
<1>4. /\ chain[n] \in Block /\ l \in Log /\ w \in World /\ chain[n].state = StateAfter(w, l, n)
  BY <1>3, BlockFacts DEF ChainOK
<1>5. db'.identity[a] = IF l.kind = "AgentRegistered" /\ l.agent = a
                        THEN l.cid ELSE db.identity[a]
  <2>1. PICK ts \in Nat : db' = applyLog(db, chain[n], ts)
    BY <1>1, AppliesFacts DEF Applies
  <2> QED BY <1>2, <1>3, <1>4, <2>1, TablesAfterLog
<1>6. StateAt(chain, n).agentMetadataCID[a] = IF l.kind = "AgentRegistered" /\ l.agent = a
                                              THEN l.cid ELSE w.agentMetadataCID[a]
  <2>1. StateAt(chain, n) = StateAfter(w, l, n)
    BY <1>3, <1>4 DEF StateAt
  <2> HIDE DEF w, l
  <2> QED BY <1>3, <1>4, <2>1, AfterTables
<1>7. CASE l.kind = "AgentRegistered" /\ l.agent = a
  <2>1. n > IndexedTo
    <3> SUFFICES ASSUME IndexedTo >= n PROVE FALSE
      BY <1>2
    <3>1. IndexedTo \in 1..Len(chain) /\ IndexedTo \in AppliedBlocks
      BY <1>2, <1>3, IndexedIs
    <3>2. \A o \in Polls : polls[o].pc # "mark"
      BY <1>3 DEF Alone
    <3>3. PICK m \in Marks(db) : m.hash = chain[IndexedTo].hash
      BY <1>3, <3>1, <3>2, AppliedIs DEF AppliedBlocks
    <3>4. m.block = IndexedTo
      BY <1>3, <3>1, <3>3 DEF MarksOK, ChainOK
    <3>5. Owes(l)
      BY <1>2, <1>7 DEF Owes
    <3>6. Marked(db, chain[n])
      BY <1>2, <3>4, <3>5 DEF MarksInOrder
    <3>7. chain[n].hash \in Applied
      BY <1>3, <3>6, AppliedIs DEF Marked
    <3> QED BY <1>1, <1>3, <3>7 DEF FreshOK
  <2>2. n \in IndexedTo'..settled
    BY <1>2, <2>1
  <2> QED BY <1>2, <1>5, <1>6, <1>7, <2>2
<1>8. CASE ~(l.kind = "AgentRegistered" /\ l.agent = a)
  <2>1. PICK m \in IndexedTo..settled : db.identity[a] = StateAt(chain, m).agentMetadataCID[a]
    BY DEF ProfilesStand
  <2>2. CASE m < n
    <3>1. n \in IndexedTo'..settled /\ m \in IndexedTo..(n - 1)
      BY <1>2, <2>2
    <3>2. StateAt(chain, m).agentMetadataCID = w.agentMetadataCID
      BY <1>2, <3>1 DEF Undisturbed
    <3> QED BY <1>2, <1>5, <1>6, <1>8, <2>1, <3>1, <3>2
  <2>3. CASE ~(m < n)
    <3>1. m \in IndexedTo'..settled
      BY <1>2, <2>3
    <3> QED BY <1>2, <1>5, <1>8, <2>1, <3>1
  <2> QED BY <2>2, <2>3
<1> QED BY <1>7, <1>8

\* What was written stands while the chain moves on and markers are taken back.
LEMMA ListingStands ==
  ASSUME Base, Base', NoReorg, MarksOK, MovesOn, Applied' \in SUBSET Applied,
         db'.capabilities = db.capabilities, db'.identity = db.identity
  PROVE  (RowsStand => RowsStand') /\ (ProfilesStand => ProfilesStand')
<1>1. ASSUME NEW n \in IndexedTo..settled
      PROVE  n \in IndexedTo'..settled' /\ StateAt(chain', n) = StateAt(chain, n)
  <2>1. /\ settled \in Nat /\ IndexedTo \in 0..settled /\ IndexedTo' \in 0..IndexedTo
        /\ settled <= settled' /\ settled' \in Nat
    BY IndexSettled, IndexFalls DEF MovesOn, Base, TypeOK
  <2>2. n \in 0..settled
    BY <2>1
  <2> QED BY <2>1, <2>2, IndexFalls
<1> QED BY <1>1 DEF RowsStand, ProfilesStand

\* A rebuild forgets the profiles and goes back to the start of the chain.
LEMMA ListingRebuilt ==
  ASSUME Base, Base', NoReorg, MarksOK, NEW p \in Polls, RowsStand, Alone(p),
         KeepsTables(resetIndexerDerived(db, polls[p].cursor), db'), Applied' = {}
  PROVE  RowsStand' /\ ProfilesStand'
<1>1. polls[p].cursor \in Nat /\ db \in Database /\ chain' = chain /\ settled' = settled
  BY Reach DEF Base, TypeOK, Alone
<1>2. db'.identity = EmptyDb.identity /\ db'.capabilities = db.capabilities
  BY <1>1, ResetIndexerDerived DEF KeepsTables
<1>3. settled \in Nat /\ IndexedTo \in 0..settled
  BY IndexSettled
<1>4. IndexedTo' = 0
  <2>1. AppliedBlocks' = {}
    BY DEF AppliedBlocks
  <2> QED BY <2>1, IndexedNext DEF Base
<1>5. RowsStand'
  <2>1. \A n \in IndexedTo..settled : n \in IndexedTo'..settled'
    BY <1>1, <1>3, <1>4
  <2> QED BY <1>1, <1>2, <2>1 DEF RowsStand
<1>6. ProfilesStand'
  <2>1. 0 \in IndexedTo'..settled'
    BY <1>1, <1>3, <1>4
  <2>2. \A a \in Agents : db'.identity[a] = StateAt(chain', 0).agentMetadataCID[a]
    BY <1>2 DEF StateAt, Genesis, EmptyDb
  <2> QED BY <2>1, <2>2, Zenon DEF ProfilesStand
<1> QED BY <1>5, <1>6

LEMMA OrderStands ==
  ASSUME Base, Base', NoReorg, MarksOK, MovesOn, Marks(db') = Marks(db), MarksInOrder
  PROVE  MarksInOrder'
<1> SUFFICES ASSUME NEW m \in Marks(db), NEW n \in 1..m.block, Owes(chain'[n].log)
             PROVE  Marked(db', chain'[n])
  BY DEF MarksInOrder
<1>1. m.block \in 1..Len(chain) /\ m.block <= settled /\ settled \in Nat
  BY IndexSettled DEF MarksOK
<1>2. n \in 1..Len(chain) /\ n <= settled
  BY <1>1
<1>3. chain'[n] = chain[n]
  BY <1>2 DEF MovesOn
<1> QED BY <1>3 DEF MarksInOrder, Marked

LEMMA OrderFinishes ==
  ASSUME Base, MarksOK, NEW p \in Polls, CursorOK(p), Finishes(p), Alone(p), MarksInOrder,
         Marks(db') = Marks(db) \cup
            {[hash |-> chain[At(polls[p])].hash, block |-> chain[At(polls[p])].number]}
  PROVE  MarksInOrder'
<1>1. PICK k : k = At(polls[p])
  OBVIOUS
<1>2. /\ chain' = chain /\ k \in 1..Len(chain) /\ chain[k].number = k /\ Len(chain) \in Nat
      /\ Covers(chain, db, k - 1)
  BY <1>1, WindowFacts, BlockFacts DEF Base, ChainOK, Alone, Finishes, CursorOK
<1>3. \A n : Marked(db, chain[n]) => Marked(db', chain[n])
  BY DEF Marked
<1>4. ASSUME NEW m \in Marks(db'), NEW n \in 1..m.block, Owes(chain[n].log)
      PROVE  Marked(db', chain[n])
  <2>1. CASE m \in Marks(db)
    BY <1>3, <1>4, <2>1 DEF MarksInOrder
  <2>2. CASE m = [hash |-> chain[k].hash, block |-> k]
    <3>1. n = k \/ n <= k - 1
      BY <1>2, <2>2
    <3>2. n \in 1..Len(chain)
      BY <1>2, <2>2
    <3>3. CASE n = k
      BY <2>2, <3>3 DEF Marked
    <3>4. CASE n <= k - 1
      BY <1>2, <1>3, <1>4, <3>2, <3>4 DEF Covers
    <3> QED BY <3>1, <3>3, <3>4
  <2> QED BY <1>1, <1>2, <2>1, <2>2
<1> QED BY <1>2, <1>4 DEF MarksInOrder

LEMMA ListingInit == Init => ListingOK
<1> SUFFICES ASSUME Init PROVE ListingOK
  OBVIOUS
<1>1. /\ Base /\ db = EmptyDb /\ 1..Len(chain) = {} /\ settled = 0
  BY BaseInit DEF Init
<1>2. MarksInOrder
  BY <1>1 DEF MarksInOrder, Marks, EmptyDb
<1>3. IndexedTo = 0
  <2>1. AppliedBlocks = {}
    BY <1>1 DEF AppliedBlocks
  <2> QED BY <1>1, <2>1, IndexedIs DEF Base
<1>4. 0 \in IndexedTo..settled
  BY <1>1, <1>3
<1>5. \A i \in Capabilities : RowTrue(db.capabilities[i], StateAt(chain, 0).capabilities[i])
  BY <1>1 DEF RowTrue, EmptyDb
<1>6. \A a \in Agents : db.identity[a] = StateAt(chain, 0).agentMetadataCID[a]
  BY <1>1 DEF StateAt, Genesis, EmptyDb
<1>7. RowsStand
  BY <1>4, <1>5, Zenon DEF RowsStand
<1>8. ProfilesStand
  BY <1>4, <1>6, Zenon DEF ProfilesStand
<1> QED BY <1>2, <1>7, <1>8 DEF ListingOK

LEMMA ListingStep ==
  ASSUME Base, NoReorg, MarksOK, AtMostOne, LoneOK, ListingOK, [Next]_vars, [StartsAlone]_vars
  PROVE  ListingOK'
<1>1. Base'
  BY BaseStep
<1>2. MarksInOrder /\ RowsStand /\ ProfilesStand
  BY DEF ListingOK
<1>3. CASE Elsewhere
  <2>1. MovesOn /\ Applied' \in SUBSET Applied /\ db' = db
    BY <1>3, MovesOnElsewhere
  <2>2. MarksInOrder'
    BY <1>1, <1>2, <2>1, OrderStands
  <2> QED BY <1>1, <1>2, <2>1, <2>2, ListingStands DEF ListingOK
<1>4. ASSUME NEW p \in Polls, Lone(p), Poll(p) PROVE ListingOK'
  <2>1. Alone(p) /\ CursorOK(p) /\ FreshOK(p)
    BY <1>4, PollKeepsBase DEF LoneOK
  <2>2. MovesOn
    BY <2>1, BlockFacts DEF MovesOn, Alone, Base, TypeOK
  <2>3. ASSUME KeepsTables(db, db'), Applied' = Applied PROVE RowsStand' /\ ProfilesStand'
    BY <1>1, <1>2, <2>2, <2>3, ListingStands DEF KeepsTables
  <2>4. CASE KeepsTables(db, db') /\ Marks(db') = Marks(db) /\ Applied' = Applied
    BY <1>1, <1>2, <2>2, <2>3, <2>4, OrderStands DEF ListingOK
  <2>5. CASE /\ KeepsTables(resetIndexerDerived(db, polls[p].cursor), db')
             /\ Marks(db') = {} /\ Applied' = {}
    <3>1. MarksInOrder'
      BY <2>5 DEF MarksInOrder
    <3> QED BY <1>1, <1>2, <2>1, <2>5, <3>1, ListingRebuilt DEF ListingOK
  <2>6. CASE /\ Applies(p) /\ Marks(db') = Marks(db)
             /\ Applied' = Applied \cup {chain[At(polls[p])].hash}
    <3>1. MarksInOrder'
      BY <1>1, <1>2, <2>2, <2>6, OrderStands
    <3>2. RowsStand'
      BY <1>1, <1>2, <1>4, <2>1, <2>6, RowsApply
    <3>3. ProfilesStand'
      BY <1>1, <1>2, <1>4, <2>1, <2>6, ProfilesApply
    <3> QED BY <3>1, <3>2, <3>3 DEF ListingOK
  <2>7. CASE /\ Finishes(p) /\ KeepsTables(db, db') /\ Applied' = Applied
             /\ Marks(db') = Marks(db) \cup
                   {[hash |-> chain[At(polls[p])].hash, block |-> chain[At(polls[p])].number]}
    BY <1>2, <2>1, <2>3, <2>7, OrderFinishes DEF ListingOK
  <2> QED BY <1>4, <2>4, <2>5, <2>6, <2>7, PollEffects
<1> QED BY <1>3, <1>4, LonePolls

\* Only calls fail, and no settled block is replaced.
Calm == ~ProcessesDie /\ NoReorg

\* With the cursor trusted throughout, nothing is ever rebuilt.
LEMMA NoRebuild ==
  ASSUME Calm, NEW p \in Polls, CursorOK(p), Rebuilds(p)
  PROVE  FALSE
<1>1. polls[p].pc = "check" /\ polls[p].stored # 0
  BY DEF Rebuilds
<1>2. PICK answer \in HashAnswers(polls[p].cursor) : answer # 0 /\ answer # polls[p].stored
  BY DEF Rebuilds
<1>3. /\ polls[p].cursor = db.lastBlock /\ polls[p].stored = db.lastHash
      /\ Trusts(chain, db)
  BY <1>1 DEF CursorOK, Calm
<1>4. answer = HashAt(chain, db.lastBlock)
  BY <1>2, <1>3 DEF HashAnswers
<1> QED BY <1>1, <1>2, <1>3, <1>4 DEF Trusts

LEMMA PairsApply ==
  ASSUME Base, Base', MarksOK, NEW p \in Polls, CursorOK(p), FreshOK(p), ScoreOK,
         PairsMatch(db, Indexed), Applies(p), Poll(p), Alone(p),
         Applied' = Applied \cup {chain[At(polls[p])].hash}
  PROVE  PairsMatch(db, Indexed)'
<1> DEFINE n == At(polls[p])
           b == chain[n]
           l == b.log
           w == StateAt(chain, n - 1)
<1>0. PICK ts : ts = polls'[p].ts
  OBVIOUS
<1>1. PrefixOK /\ CountsMatch(db, Indexed)
  BY DEF ScoreOK
<1>2. /\ n \in 1..Len(chain) /\ l # NoLog
      /\ Emits(w, l) /\ Sound(w) /\ w \in World
      /\ b.state = StateAfter(w, l, n) /\ b.number = n
      /\ Owes(l) => Undisturbed(Indexed, w) /\ Indexed' = StateAfter(w, l, n)
      /\ ~Owes(l) => Undisturbed(Indexed, Indexed')
  BY <1>1, AppliesIndex
<1>3. db' = applyLog(db, b, ts) /\ ts \in Nat /\ db \in Database /\ b \in Block /\ l \in Log
  BY <1>0, <1>2, AppliesFacts, BlockFacts DEF Applies, Base, TypeOK
<1>4. CASE Owes(l)
  <2> HIDE DEF b, l, w
  <2>1. Undisturbed(Indexed, w) /\ Indexed' = StateAfter(w, b.log, b.number)
    BY <1>2, <1>4 DEF l
  <2>2. CountsMatch(db, w)
    BY <1>1, <2>1, CountsNeedLittle DEF Undisturbed
  <2>3. PairsMatch(db, w)
    BY <2>1, PairsKept DEF Undisturbed
  <2>4. PairsMatch(applyLog(db, b, ts), StateAfter(w, b.log, b.number))
    BY <1>2, <1>3, <2>2, <2>3, PairsAfterLog DEF l
  <2> QED BY <1>3, <2>1, <2>4
<1>5. CASE ~Owes(l)
  <2>1. l.kind = "CapabilityRegistered" /\ l.kind \in CapabilityKinds
    BY <1>2, <1>5 DEF Owes, CapabilityKinds
  <2>2. KeepsReputation(db, db')
    BY <1>3, <2>1, ApplyCapabilityLog
  <2>3. Undisturbed(Indexed, Indexed')
    BY <1>2, <1>5
  <2> QED BY <2>2, <2>3, PairsKept DEF Undisturbed, KeepsReputation
<1> QED BY <1>4, <1>5

LEMMA PairsInit == Init => PairsMatch(db, Indexed)
<1> SUFFICES ASSUME Init PROVE PairsMatch(db, Indexed)
  OBVIOUS
<1>1. Base /\ db = EmptyDb /\ 1..Len(chain) = {}
  BY BaseInit DEF Init
<1>2. AppliedBlocks = {}
  BY <1>1 DEF AppliedBlocks
<1>3. Indexed = Genesis
  BY <1>1, <1>2, IndexedIs DEF Base, StateAt
<1>4. \A i \in Completions : Genesis.completions[i].agent = Nobody
  BY DEF Genesis
<1>5. ASSUME NEW a \in Agents
      PROVE  /\ \A r \in Parties : EmptyDb.confirmations[a][r] = Cardinality(PairOf(Genesis, a, r))
             /\ EmptyDb.distinct[a] = Cardinality(PartnersOf(Genesis, a))
  <2>1. \A r : PairOf(Genesis, a, r) = {}
    BY <1>4, EventLogAssumption DEF PairOf, CompletionsOf
  <2>2. PartnersOf(Genesis, a) = {}
    BY <2>1 DEF PartnersOf
  <2>3. Cardinality({}) = 0
    BY FS_EmptySet
  <2>4. EmptyDb.distinct[a] = 0 /\ \A r \in Parties : EmptyDb.confirmations[a][r] = 0
    BY DEF EmptyDb
  <2> QED BY <2>1, <2>2, <2>3, <2>4, Zenon
<1>6. PairsMatch(EmptyDb, Genesis)
  BY <1>5, Zenon DEF PairsMatch
<1> QED BY <1>1, <1>3, <1>6

LEMMA PairsStep ==
  ASSUME Base, Calm, MarksOK, AtMostOne, LoneOK, ScoreOK, PairsMatch(db, Indexed),
         [Next]_vars, [StartsAlone]_vars
  PROVE  PairsMatch(db, Indexed)'
<1>1. Base' /\ NoReorg /\ NoCrash
  BY BaseStep DEF Calm, NoCrash, ProcessesDie
<1>2. ASSUME KeepsReputation(db, db'), MovesOn, Applied' = Applied
      PROVE  PairsMatch(db, Indexed)'
  <2>1. Indexed' = Indexed
    BY <1>1, <1>2, SameIndex
  <2>2. db'.confirmations = db.confirmations /\ db'.distinct = db.distinct
    BY <1>2 DEF KeepsReputation
  <2> QED BY <2>1, <2>2, PairsKept
<1>3. CASE Elsewhere
  <2>1. MovesOn /\ Applied' = Applied /\ db' = db
    BY <1>1, <1>3, MovesOnElsewhere
  <2> QED BY <1>2, <2>1 DEF KeepsReputation
<1>4. ASSUME NEW p \in Polls, Lone(p), Poll(p) PROVE PairsMatch(db, Indexed)'
  <2>1. Alone(p) /\ CursorOK(p) /\ FreshOK(p)
    BY <1>4, PollKeepsBase DEF LoneOK
  <2>2. MovesOn
    BY <2>1, BlockFacts DEF MovesOn, Alone, Base, TypeOK
  <2>3. CASE KeepsTables(db, db') /\ Applied' = Applied
    BY <1>2, <2>2, <2>3 DEF KeepsTables
  <2>4. CASE Applies(p) /\ Applied' = Applied \cup {chain[At(polls[p])].hash}
    BY <1>1, <1>4, <2>1, <2>4, PairsApply
  <2> QED BY <1>4, <2>1, <2>3, <2>4, PollEffects, NoRebuild
<1> QED BY <1>3, <1>4, LonePolls

\* The index computes the decay step by step as the contract does.
LEMMA DecayAgrees ==
  ASSUME NEW count \in Nat, NEW disputes \in Nat, NEW last \in Nat, NEW now \in Int
  PROVE  decayedScore(count, disputes, last, now) = _decayedScore(count, disputes, last, now)
<1> DEFINE net == AtLeastZero(count - disputes)
           rest == IF count > disputes THEN count - disputes ELSE 0
           decayed == now - last - DECAY_GRACE
           bps == ((DECAY_HORIZON - decayed) * 10000) \div DECAY_HORIZON
           index == decayedScore(count, disputes, last, now)
           contract == _decayedScore(count, disputes, last, now)
<1> SUFFICES index = contract
  OBVIOUS
<1>1. DECAY_GRACE \in Nat /\ DECAY_HORIZON \in Nat \ {0}
  BY EventLogAssumption
<1>2. /\ rest = net /\ net \in Nat /\ decayed \in Int
      /\ now - last <= DECAY_GRACE <=> decayed <= 0
  BY <1>1 DEF AtLeastZero
<1>3. CASE last = 0
  <2>1. contract = rest
    BY <1>1, <1>3 DEF _decayedScore
  <2>2. index = net
    BY <1>1, <1>3 DEF decayedScore
  <2> QED BY <1>2, <2>1, <2>2
<1>4. CASE last # 0 /\ decayed <= 0
  <2>1. contract = (rest * 10000) \div 10000
    BY <1>1, <1>4 DEF _decayedScore
  <2>2. index = net
    BY <1>1, <1>2, <1>4 DEF decayedScore
  <2>3. (net * 10000) \div 10000 = net
    <3> HIDE DEF net
    <3> QED BY <1>2
  <2> HIDE DEF net, rest, index, contract
  <2> QED BY <1>2, <2>1, <2>2, <2>3
<1>5. CASE last # 0 /\ ~(decayed <= 0) /\ decayed >= DECAY_HORIZON
  <2>1. contract = (rest * 0) \div 10000
    BY <1>1, <1>5 DEF _decayedScore
  <2>2. index = IF net = 0 THEN net ELSE 0
    BY <1>1, <1>2, <1>5 DEF decayedScore
  <2>3. (net * 0) \div 10000 = 0
    <3> HIDE DEF net
    <3> QED BY <1>2
  <2> HIDE DEF net, rest, index, contract
  <2> QED BY <1>2, <2>1, <2>2, <2>3
<1>6. CASE last # 0 /\ ~(decayed <= 0) /\ ~(decayed >= DECAY_HORIZON)
  <2>1. contract = (rest * bps) \div 10000
    BY <1>1, <1>6 DEF _decayedScore
  <2>2. index = IF net = 0 THEN net ELSE (net * bps) \div 10000
    BY <1>1, <1>2, <1>6 DEF decayedScore
  <2>3. bps \in Int
    BY <1>1, <1>2
  <2>4. (0 * bps) \div 10000 = 0
    <3> HIDE DEF bps
    <3> QED BY <2>3
  <2> HIDE DEF net, rest, bps, index, contract
  <2> QED BY <1>2, <2>1, <2>2, <2>4
<1> HIDE DEF decayed, index, contract
<1> QED BY <1>2, <1>3, <1>4, <1>5, <1>6

LEMMA QuotientRises ==
  ASSUME NEW m \in Int, NEW n \in Int, NEW k \in Nat \ {0}, m <= n
  PROVE  m \div k \in Int /\ m \div k <= n \div k
<1> DEFINE u == m \div k
           v == n \div k
<1>1. u \in Int /\ v \in Int
  OBVIOUS
<1>2. k * u <= m /\ n < k * v + k
  BY Z3
<1> HIDE DEF u, v
<1>3. k * u < k * (v + 1)
  BY <1>1, <1>2
<1>4. u < v + 1
  BY <1>1, <1>3
<1> QED BY <1>1, <1>4 DEF u, v

DecayBps(decayed) ==
    CASE decayed <= 0             -> 10000
      [] decayed >= DECAY_HORIZON -> 0
      [] OTHER -> ((DECAY_HORIZON - decayed) * 10000) \div DECAY_HORIZON

LEMMA DecayFalls ==
  ASSUME NEW d \in Int, NEW e \in Int, e <= d
  PROVE  DecayBps(d) \in Nat /\ DecayBps(e) \in Nat /\ DecayBps(d) <= DecayBps(e)
<1> DEFINE H == DECAY_HORIZON
           Top(x) == (H - x) * 10000
<1>1. H \in Nat \ {0}
  BY EventLogAssumption
<1>2. ASSUME NEW x \in Int, ~(x <= 0), ~(x >= H)
      PROVE  DecayBps(x) = Top(x) \div H
  <2> HIDE DEF H
  <2> QED BY <1>1, <1>2 DEF DecayBps, H
<1>3. ASSUME NEW x \in Int, ~(x <= 0), ~(x >= H)
      PROVE  DecayBps(x) \in Nat /\ DecayBps(x) <= 10000
  <2>1. Top(x) \in Int /\ 0 <= Top(x) /\ Top(x) <= H * 10000
    <3> HIDE DEF H
    <3> QED BY <1>1, <1>3
  <2>2. 0 \div H = 0 /\ (H * 10000) \div H = 10000 /\ H * 10000 \in Int
    <3> HIDE DEF H
    <3> QED BY <1>1, Z3
  <2> HIDE DEF Top, H
  <2>3. /\ 0 \div H <= Top(x) \div H /\ Top(x) \div H <= (H * 10000) \div H
        /\ Top(x) \div H \in Int
    BY <1>1, <2>1, <2>2, QuotientRises
  <2>4. DecayBps(x) = Top(x) \div H
    BY <1>2, <1>3
  <2> QED BY <2>2, <2>3, <2>4
<1>4. ASSUME NEW x \in Int
      PROVE  DecayBps(x) \in Nat /\ DecayBps(x) <= 10000 /\ (x <= 0 => DecayBps(x) = 10000)
             /\ (x >= H => DecayBps(x) = IF x <= 0 THEN 10000 ELSE 0)
  <2>1. CASE x <= 0
    BY <1>1, <2>1 DEF DecayBps
  <2>2. CASE ~(x <= 0) /\ x >= H
    BY <1>1, <2>2 DEF DecayBps
  <2>3. CASE ~(x <= 0) /\ ~(x >= H)
    <3>1. DecayBps(x) \in Nat /\ DecayBps(x) <= 10000
      BY <1>3, <2>3
    <3> QED BY <2>3, <3>1
  <2> QED BY <2>1, <2>2, <2>3
<1>5. CASE ~(e <= 0) /\ ~(d >= H)
  <2>1. ~(d <= 0) /\ ~(e >= H) /\ Top(d) \in Int /\ Top(e) \in Int /\ Top(d) <= Top(e)
    <3> HIDE DEF H
    <3> QED BY <1>1, <1>5
  <2>2. DecayBps(d) = Top(d) \div H /\ DecayBps(e) = Top(e) \div H
    BY <1>2, <1>5, <2>1
  <2> HIDE DEF Top, H
  <2>3. Top(d) \div H <= Top(e) \div H
    BY <1>1, <2>1, QuotientRises
  <2>4. DecayBps(d) <= DecayBps(e)
    BY <2>2, <2>3
  <2> QED BY <1>4, <2>4
<1>6. CASE e <= 0 \/ d >= H
  <2>1. DecayBps(d) \in Nat /\ DecayBps(d) <= 10000 /\ DecayBps(e) \in Nat /\ DecayBps(e) <= 10000
    BY <1>4
  <2>2. CASE e <= 0
    <3>1. DecayBps(e) = 10000
      BY <1>4, <2>2
    <3> QED BY <2>1, <3>1
  <2>3. CASE ~(e <= 0) /\ d >= H
    <3>1. ~(d <= 0)
      BY <2>3
    <3>2. DecayBps(d) = 0
      BY <1>4, <2>3, <3>1
    <3> QED BY <2>1, <3>2
  <2> QED BY <1>6, <2>2, <2>3
<1> QED BY <1>4, <1>5, <1>6

\* A later last activity never makes the contract's score lower.
LEMMA DecayRises ==
  ASSUME NEW count \in Nat, NEW disputes \in Nat, NEW now \in Int,
         NEW last \in Nat, NEW later \in Nat, last = 0 <=> later = 0, later >= last
  PROVE  _decayedScore(count, disputes, later, now) >= _decayedScore(count, disputes, last, now)
<1> DEFINE rest == IF count > disputes THEN count - disputes ELSE 0
           Since(x) == now - x - DECAY_GRACE
<1>1. DECAY_GRACE \in Nat /\ rest \in Nat
  BY EventLogAssumption
<1>2. CASE last = 0
  <2>1. _decayedScore(count, disputes, later, now) = rest
    BY <1>2 DEF _decayedScore
  <2>2. _decayedScore(count, disputes, last, now) = rest
    BY <1>2 DEF _decayedScore
  <2> HIDE DEF rest
  <2> QED BY <1>1, <2>1, <2>2
<1>3. CASE last # 0
  <2>1. ASSUME NEW x \in Nat, x > 0
        PROVE  _decayedScore(count, disputes, x, now) = (rest * DecayBps(Since(x))) \div 10000
    <3>1. _decayedScore(count, disputes, x, now) =
             IF x > 0 THEN (rest * DecayBps(Since(x))) \div 10000 ELSE rest
      BY DEF _decayedScore, DecayBps
    <3> HIDE DEF rest, Since
    <3> QED BY <2>1, <3>1
  <2>2. Since(last) \in Int /\ Since(later) \in Int /\ Since(later) <= Since(last)
    BY <1>1
  <2> HIDE DEF rest, Since
  <2>3. PICK x \in Nat, y \in Nat : x = DecayBps(Since(last)) /\ y = DecayBps(Since(later)) /\ x <= y
    BY <2>2, DecayFalls
  <2>4. rest * x \in Int /\ rest * y \in Int /\ rest * x <= rest * y
    BY <1>1, <2>3
  <2>5. last > 0 /\ later > 0
    BY <1>3
  <2>6. (rest * x) \div 10000 <= (rest * y) \div 10000 /\ (rest * x) \div 10000 \in Int
        /\ (rest * y) \div 10000 \in Int
    BY <2>4, QuotientRises
  <2> QED BY <2>1, <2>3, <2>5, <2>6
<1> QED BY <1>2, <1>3

LEMMA ItemFields ==
  ASSUME db \in Database, NEW detected \in Detections, NEW now \in Int,
         NEW item \in queryIndexedDiscovery(db, detected, 0, now)
  PROVE  \E i \in Capabilities, a \in Agents :
            /\ item.capabilityId = i /\ item.agentAddress = a /\ item.identityCID = db.identity[a]
            /\ db.capabilities[i].certified /\ db.capabilities[i].creator = a
            /\ LET s == db.scores[a]
               IN  item.score = decayedScore(
                                   RankingCount(detected, s.completions, s.confirmed, db.distinct[a]),
                                   s.disputes, s.lastActivity, now)
<1> DEFINE Item(i) ==
             LET a == db.capabilities[i].creator
                 s == db.scores[a]
                 count == RankingCount(detected, s.completions, s.confirmed, db.distinct[a])
             IN  [capabilityId |-> i, agentAddress |-> a, identityCID |-> db.identity[a],
                  disputes |-> s.disputes, completions |-> count,
                  score |-> decayedScore(count, s.disputes, s.lastActivity, now)]
<1>1. PICK i \in Listed(db) : item = Item(i)
  BY Zenon DEF queryIndexedDiscovery
<1>2. i \in Capabilities /\ db.capabilities[i].certified /\ db.capabilities[i].creator # Nobody
  BY DEF Listed, HasRow
<1>3. db.capabilities[i].creator \in Agents
  BY <1>2 DEF Database, IndexedCapability
<1> QED BY <1>1, <1>2, <1>3

\* A listed capability was certified and in the registry, and its creator had the profile
\* shown, at some block no older than the last applied one.
LEMMA ListedTruly ==
  ASSUME Base, NoReorg, MarksOK, RowsStand, ProfilesStand,
         NEW detected \in Detections, NEW now \in Int,
         NEW item \in queryIndexedDiscovery(db, detected, 0, now)
  PROVE  /\ \E n \in IndexedTo..Len(chain) :
               LET k == StateAt(chain, n).capabilities[item.capabilityId]
               IN  k.certified /\ k.live /\ k.creator = item.agentAddress
         /\ \E n \in IndexedTo..Len(chain) :
               item.identityCID = StateAt(chain, n).agentMetadataCID[item.agentAddress]
<1>0. db \in Database
  BY DEF Base, TypeOK
<1>1. PICK i \in Capabilities, a \in Agents :
            /\ item.capabilityId = i /\ item.agentAddress = a /\ item.identityCID = db.identity[a]
            /\ db.capabilities[i].certified /\ db.capabilities[i].creator = a
  BY <1>0, ItemFields
<1>2. \A n \in IndexedTo..settled : n \in IndexedTo..Len(chain)
  BY IndexSettled
<1>3. PICK m \in IndexedTo..settled : RowTrue(db.capabilities[i], StateAt(chain, m).capabilities[i])
  BY DEF RowsStand
<1>4. LET k == StateAt(chain, m).capabilities[i] IN k.certified /\ k.live /\ k.creator = a
  BY <1>1, <1>3, EventLogAssumption DEF RowTrue
<1>5. PICK n \in IndexedTo..settled : db.identity[a] = StateAt(chain, n).agentMetadataCID[a]
  BY DEF ProfilesStand
<1> QED BY <1>1, <1>2, <1>4, <1>5, Zenon

\* Its score is the contract's if the node has every block, by counterparties only if
\* these are counted right, and no lower in any case.
LEMMA ListedScore ==
  ASSUME Base, CountsMatch(db, Indexed), ActivityMatches(db, Indexed, EveryBlock), Lags,
         NEW detected \in Detections, NEW now \in Int,
         detected.useCredit => PairsMatch(db, Indexed),
         NEW item \in queryIndexedDiscovery(db, detected, 0, now)
  PROVE  LET onChain == ChainScore(item.agentAddress, detected, now)
         IN  item.score >= onChain /\ (EveryBlock => item.score = onChain)
<1>1. db \in Database /\ Indexed \in World
  BY IndexedIs DEF Base, TypeOK
<1>2. PICK i \in Capabilities, a \in Agents :
            /\ item.capabilityId = i /\ item.agentAddress = a /\ item.identityCID = db.identity[a]
            /\ db.capabilities[i].certified /\ db.capabilities[i].creator = a
            /\ LET s == db.scores[a]
               IN  item.score = decayedScore(
                                   RankingCount(detected, s.completions, s.confirmed, db.distinct[a]),
                                   s.disputes, s.lastActivity, now)
  BY <1>1, ItemFields, Zenon
<1> DEFINE s == db.scores[a]
           count == RankingCount(detected, s.completions, s.confirmed, db.distinct[a])
           C == Cardinality(CompletionsOf(Indexed, a))
           F == Cardinality(ConfirmedOf(Indexed, a))
           X == Cardinality(DisputedOf(Indexed, a))
           P == Cardinality(PartnersOf(Indexed, a))
           L == Indexed.lastActivity[a]
<1>3. s.completions = C /\ s.confirmed = F /\ s.disputes = X
  BY DEF CountsMatch, SameCounts, CountersOf
<1>4. detected.useCredit => db.distinct[a] = P
  BY Zenon DEF PairsMatch
<1>5. ChainScore(a, detected, now) = _decayedScore(RankingCount(detected, C, F, P), X, L, now)
  BY Zenon DEF ChainScore
<1>6. s \in Counters /\ db.distinct[a] \in Nat /\ L \in Nat
  BY <1>1 DEF Database, World
<1>7. item.score = decayedScore(count, s.disputes, s.lastActivity, now)
  BY <1>2
<1>8. /\ s.lastActivity >= L /\ (EveryBlock => s.lastActivity = L)
      /\ L = 0 => s.lastActivity = 0
  <2>1. AtLeast(db, Indexed)
    <3>1. IndexedTo \in 0..IndexedTo /\ Indexed = StateAt(chain, IndexedTo)
      BY IndexedIs DEF Base
    <3> QED BY <3>1 DEF Lags
  <2> QED BY <2>1 DEF AtLeast, ActivityMatches
<1> HIDE DEF s, C, F, X, P, L
<1>9. C \in Nat /\ F \in Nat /\ X \in Nat /\ s.lastActivity \in Nat
  BY <1>3, <1>6 DEF Counters
<1>10. count = RankingCount(detected, C, F, P) /\ count \in Nat
  <2>1. CASE detected.useCredit
    BY <1>4, <1>6, <2>1 DEF RankingCount
  <2>2. CASE ~detected.useCredit
    BY <1>3, <1>9, <2>2 DEF RankingCount, Detections
  <2> QED BY <2>1, <2>2
<1> HIDE DEF count
<1>11. item.score = _decayedScore(count, X, s.lastActivity, now)
  BY <1>3, <1>7, <1>9, <1>10, DecayAgrees
<1>12. ChainScore(a, detected, now) = _decayedScore(count, X, L, now)
  BY <1>5, <1>10
<1>13. EveryBlock => item.score = ChainScore(a, detected, now)
  BY <1>8, <1>11, <1>12
<1>14. item.score >= ChainScore(a, detected, now)
  <2>1. L = 0 <=> s.lastActivity = 0
    BY <1>6, <1>8, <1>9
  <2>2. _decayedScore(count, X, s.lastActivity, now) >= _decayedScore(count, X, L, now)
    BY <1>6, <1>8, <1>9, <1>10, <2>1, DecayRises
  <2> QED BY <1>11, <1>12, <2>2
<1> QED BY <1>2, <1>13, <1>14

\* Polls that do not overlap and no settled block replaced: whichever calls fail, whichever
\* blocks the node does not have, and however often and at which point ever processes are
\* lost, discovery lists only what was certified and in the registry, and shows only profiles
\* that their agents had, at some block no older than the last applied one, also while the
\* index is rebuilt.  If no process dies between applying a log and marking it, it ranks by
\* the contract's uncapped score to the last digit, by counterparties if no process is lost.
THEOREM DiscoveryIsExact == Spec /\ [][StartsAlone]_vars => [](NoReorg => DiscoveryMatchesChain)
<1> DEFINE Tame == NoReorg /\ OneGuardLost
           Inv == /\ Base /\ AtMostOne
                  /\ Tame => /\ MarksOK /\ AlertsOK /\ LoneOK /\ KnownOK /\ Lags /\ ListingOK
                             /\ NoCrash => ScoreOK
                             /\ Calm => PairsMatch(db, Indexed)
<1>1. Init => Inv
  BY BaseInit, LoneInit, AlertsInit, LagInit, ScoreInit, ListingInit, PairsInit
<1>2. Inv /\ [Next]_vars /\ [StartsAlone]_vars => Inv'
  <2> SUFFICES ASSUME Inv, [Next]_vars, [StartsAlone]_vars PROVE Inv'
    OBVIOUS
  <2>1. (Tame' <=> Tame) /\ (NoCrash' <=> NoCrash) /\ (Calm' <=> Calm)
    BY ScenarioStep DEF OneGuardLost, HashesFail, ProcessesDie, NoReorg, NoCrash, Calm
  <2>2. Base' /\ AtMostOne'
    BY BaseStep, LoneStep
  <2>3. Tame => MarksOK' /\ AlertsOK'
    BY AlertsStep
  <2>4. Tame => LoneOK' /\ KnownOK' /\ Lags' /\ ListingOK'
    BY LoneKept, LagStep, ListingStep
  <2>5. Tame /\ NoCrash => ScoreOK'
    BY ScoreStep
  <2>6. Tame /\ Calm => PairsMatch(db, Indexed)'
    <3>1. Calm => NoCrash
      BY DEF Calm, ProcessesDie, NoCrash
    <3> QED BY <3>1, PairsStep
  <2> QED BY <2>1, <2>2, <2>3, <2>4, <2>5, <2>6
<1>3. Inv => (NoReorg => DiscoveryMatchesChain)
  <2> SUFFICES ASSUME Inv, NoReorg, LostGuardsAreAlone PROVE DiscoveryMatchesChain
    BY DEF DiscoveryMatchesChain
  <2>1. Tame
    BY GuardsAre
  <2>2. /\ MarksOK /\ RowsStand /\ ProfilesStand /\ Lags
        /\ NoCrash => CountsMatch(db, Indexed) /\ ActivityMatches(db, Indexed, EveryBlock)
        /\ Calm => PairsMatch(db, Indexed)
    BY <2>1 DEF ListingOK, ScoreOK
  <2>3. \A now \in IndexedTo..(IndexedTo + DECAY_GRACE + DECAY_HORIZON) : now \in Int
    OBVIOUS
  <2>4. \A detected : CountedOnce(detected) => NoCrash /\ (detected.useCredit => Calm)
    BY DEF CountedOnce, Without, NoCrash, Calm, ProcessesDie, NoReorg
  <2>5. Without({"null"}) => EveryBlock
    BY DEF Without, EveryBlock
  <2> SUFFICES ASSUME NEW detected \in Detections, NEW now \in Int,
                      NEW item \in queryIndexedDiscovery(db, detected, 0, now)
               PROVE  /\ \E n \in IndexedTo..Len(chain) :
                            LET k == StateAt(chain, n).capabilities[item.capabilityId]
                            IN  k.certified /\ k.live /\ k.creator = item.agentAddress
                      /\ \E n \in IndexedTo..Len(chain) :
                            item.identityCID =
                               StateAt(chain, n).agentMetadataCID[item.agentAddress]
                      /\ CountedOnce(detected) =>
                            LET onChain == ChainScore(item.agentAddress, detected, now)
                            IN  /\ item.score >= onChain
                                /\ Without({"null"}) => item.score = onChain
    BY <2>3, Zenon DEF DiscoveryMatchesChain
  <2>6. CountedOnce(detected) =>
           LET onChain == ChainScore(item.agentAddress, detected, now)
           IN  item.score >= onChain /\ (EveryBlock => item.score = onChain)
    BY <2>2, <2>4, ListedScore
  <2> QED BY <2>2, <2>5, <2>6, ListedTruly
<1> QED BY <1>1, <1>2, <1>3, PTL DEF Spec

\* Polls that do not overlap, no process lost and no settled block replaced: whichever calls
\* fail, whichever blocks the node does not have and whatever a fork replaces, no
\* counterparty is counted twice or forgotten.
THEOREM DiversityIsExact == Spec /\ [][StartsAlone]_vars => [](Calm => DiversityMatchesChain)
<1> DEFINE Inv == /\ Base /\ AtMostOne
                  /\ Calm => /\ MarksOK /\ AlertsOK /\ LoneOK /\ KnownOK /\ Lags /\ ScoreOK
                             /\ PairsMatch(db, Indexed)
<1>1. Calm => NoReorg /\ NoCrash /\ OneGuardLost
  BY DEF Calm, NoCrash, OneGuardLost, ProcessesDie
<1>2. Init => Inv
  BY BaseInit, LoneInit, AlertsInit, LagInit, ScoreInit, PairsInit
<1>3. Inv /\ [Next]_vars /\ [StartsAlone]_vars => Inv'
  <2> SUFFICES ASSUME Inv, [Next]_vars, [StartsAlone]_vars PROVE Inv'
    OBVIOUS
  <2>1. Calm' <=> Calm
    BY ScenarioStep DEF Calm, ProcessesDie, NoReorg
  <2>2. Base' /\ AtMostOne'
    BY BaseStep, LoneStep
  <2>3. Calm => MarksOK' /\ AlertsOK'
    BY <1>1, AlertsStep
  <2>4. Calm => LoneOK' /\ KnownOK' /\ Lags'
    BY <1>1, LoneKept, LagStep
  <2>5. Calm => ScoreOK' /\ PairsMatch(db, Indexed)'
    BY <1>1, ScoreStep, PairsStep
  <2> QED BY <2>1, <2>2, <2>3, <2>4, <2>5
<1>4. Inv => (Calm => DiversityMatchesChain)
  <2>1. PairsMatch(db, Indexed) => DiversityMatchesChain
    BY Zenon DEF PairsMatch, DiversityMatchesChain
  <2> QED BY <2>1
<1> QED BY <1>2, <1>3, <1>4, PTL DEF Spec
=============================================================================
