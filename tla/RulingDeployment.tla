-------------------------- MODULE RulingDeployment --------------------------
(***************************************************************************)
(* The scripts of the ruling oracle, deploy-reviewer-panel.ts and          *)
(* deploy-ruling-oracle.ts, run by the same operator as those of           *)
(* Deployment.  Here every transaction is awaited.  The second script      *)
(* deploys an oracle for an appeal layer, wires the panel to it if the     *)
(* deployer owns the panel, may deposit the operator's bond, and last of   *)
(* all writes the file.  A panel can be wired once (setOracle).            *)
(***************************************************************************)
EXTENDS Deployment

CONSTANT ReviewerLists      \* (bound) lists RULING_REVIEWERS may hold

(* The multisig is a contract, the deployer a hot key *)
ASSUME OwnersAssumption == Deployer # Safe

VARIABLES
    panels,         \* appeal layers in the order they were deployed
    oracles,        \* ruling oracles
    usdc,           \* what the deployer holds, in bonds
    papers,         \* reviewer-panel-deployment.json, ruling-oracle-deployment.json
    job             \* the local variables of the script under way

rulingVars == <<panels, oracles, usdc, papers, job>>

NoPanel == 0
LocalReviewers == <<"signer1", "signer2", "signer3">>
NoJob == [pc |-> "idle", owner |-> NoOne, layer |-> "none", panel |-> NoPanel, oracle |-> 0,
          reviewers |-> << >>, bond |-> FALSE]

isLocal == scenario.chain = "local"

RulingInit ==
    /\ panels = << >>
    /\ oracles = << >>
    /\ usdc = 1
    /\ papers = [panel |-> NoOne, ruling |-> NoOne]
    /\ job = NoJob

On(pc) == job.pc = pc
Then(pc) == job' = [job EXCEPT !.pc = pc]

parseReviewers(list) ==
    Len(list) = 3 /\ IsInjective(list) /\ NoOne \notin ToSet(list)

-----------------------------------------------------------------------------
(* deploy-reviewer-panel.ts *)

panelBegin(owner, list) ==
    /\ On("idle")
    /\ Len(panels) < MaxRuns
    /\ IF list = << >> THEN isLocal ELSE parseReviewers(list)
    /\ job' = [NoJob EXCEPT !.pc = "deployPanel", !.owner = owner,
                            !.reviewers = IF list = << >> THEN LocalReviewers ELSE list]
    /\ UNCHANGED <<panels, oracles, usdc, papers>>

deployPanel ==
    /\ On("deployPanel")
    /\ panels' = Append(panels, [owner |-> job.owner, oracle |-> 0, reviewers |-> << >>])
    /\ job' = [job EXCEPT !.panel = Len(panels) + 1,
                          !.pc = IF job.owner = Deployer THEN "configure" ELSE "writePanel"]
    /\ UNCHANGED <<oracles, usdc, papers>>

configurePanel ==
    /\ On("configure")
    /\ panels' = [panels EXCEPT ![job.panel].reviewers = job.reviewers]
    /\ Then("writePanel")
    /\ UNCHANGED <<oracles, usdc, papers>>

writePanelFile ==
    /\ On("writePanel")
    /\ "out" \in scenario.ignored
    /\ papers' = [papers EXCEPT !.panel =
                    [panel |-> job.panel, owner |-> job.owner, reviewers |-> job.reviewers,
                     reviewersConfigured |-> job.owner = Deployer]]
    /\ job' = NoJob
    /\ UNCHANGED <<panels, oracles, usdc>>

-----------------------------------------------------------------------------
(* deploy-ruling-oracle.ts.  env: RULING_OWNER, RULING_ESCALATION_ADDRESS, *)
(* RULING_USE_MOCK_ESCALATION, RULING_REVIEWERS, RULING_WIRE_PANEL,        *)
(* RULING_BOND_USDC                                                        *)

mainnetOwner(env) == scenario.chain = "mainnet" => env.owner = Safe

(* What the oracle will appeal to: a contract left alone, a panel to wire, or on
   a local node a mock or a new panel *)
appealLayer(env) ==
    CASE env.escalation # NoPanel /\ env.reviewers # << >> /\ env.wire -> "panel"
      [] env.escalation # NoPanel /\ ~(env.reviewers # << >> /\ env.wire) -> "external"
      [] env.escalation = NoPanel /\ env.mock -> "mock"
      [] env.escalation = NoPanel /\ ~env.mock -> "newPanel"

Wires(layer) == layer \in {"panel", "newPanel"}

rulingBegin(env) ==
    LET layer == appealLayer(env)
    IN  /\ On("idle")
        /\ Len(oracles) < MaxRuns
        /\ mainnetOwner(env)
        /\ env.escalation # NoPanel \/ isLocal
        /\ Wires(layer) /\ env.reviewers # << >> => parseReviewers(env.reviewers)
        /\ job' = [pc |-> "escalation", owner |-> env.owner, layer |-> layer,
                   panel |-> env.escalation, oracle |-> 0, bond |-> env.bond \/ isLocal,
                   reviewers |-> CASE ~Wires(layer) -> << >>
                                   [] Wires(layer) /\ env.reviewers # << >> -> env.reviewers
                                   [] OTHER -> LocalReviewers]
        /\ UNCHANGED <<panels, oracles, usdc, papers>>

deployEscalation ==
    /\ On("escalation")
    /\ IF job.panel # NoPanel
       THEN Then("oracle") /\ panels' = panels
       ELSE /\ Len(panels) < MaxRuns
            /\ panels' = Append(panels,
                    [owner |-> IF job.layer = "mock" THEN NoOne ELSE job.owner,
                     oracle |-> 0, reviewers |-> << >>])
            /\ job' = [job EXCEPT !.panel = Len(panels) + 1, !.pc = "oracle"]
    /\ UNCHANGED <<oracles, usdc, papers>>

deployOracle ==
    /\ On("oracle")
    /\ oracles' = Append(oracles, [owner |-> job.owner, escalation |-> job.panel, bond |-> 0])
    /\ job' = [job EXCEPT !.oracle = Len(oracles) + 1,
                          !.pc = CASE job.layer = "mock" -> "wireMock"
                                   [] Wires(job.layer) -> "panelOwner"
                                   [] OTHER -> "bond"]
    /\ UNCHANGED <<panels, usdc, papers>>

wireMock ==
    /\ On("wireMock")
    /\ panels' = [panels EXCEPT ![job.panel].oracle = job.oracle]
    /\ Then("bond")
    /\ UNCHANGED <<oracles, usdc, papers>>

(* The panel is read first.  Somebody else's panel ends the script, and so does
   one that serves another oracle: the oracle just deployed stays behind. *)
readPanelOwner ==
    /\ On("panelOwner")
    /\ panels[job.panel].owner = Deployer
    /\ Then("panelOracle")
    /\ UNCHANGED <<panels, oracles, usdc, papers>>

(* Mutant: a panel that has an oracle is taken for wired *)
FaultyReadPanelOracle ==
    /\ On("panelOracle")
    /\ Then(IF panels[job.panel].oracle = 0 THEN "setOracle" ELSE "setReviewers")
    /\ UNCHANGED <<panels, oracles, usdc, papers>>

readPanelOracle ==
    /\ On("panelOracle")
    /\ panels[job.panel].oracle \in {0, job.oracle}
    /\ Then(IF panels[job.panel].oracle = 0 THEN "setOracle" ELSE "setReviewers")
    /\ UNCHANGED <<panels, oracles, usdc, papers>>

SetOracle(p, o, from) ==
    /\ panels[p].owner = from
    /\ panels[p].oracle = 0
    /\ panels' = [panels EXCEPT ![p].oracle = o]

SetReviewers(p, list, from) ==
    /\ panels[p].owner = from
    /\ panels' = [panels EXCEPT ![p].reviewers = list]

setOracle ==
    /\ On("setOracle")
    /\ SetOracle(job.panel, job.oracle, Deployer)
    /\ Then("setReviewers")
    /\ UNCHANGED <<oracles, usdc, papers>>

setReviewers ==
    /\ On("setReviewers")
    /\ SetReviewers(job.panel, job.reviewers, Deployer)
    /\ Then("bond")
    /\ UNCHANGED <<oracles, usdc, papers>>

(* Locally the bond is minted; elsewhere it has to be there and asked for *)
prepareBond ==
    /\ On("bond")
    /\ IF ~job.bond
       THEN Then("write") /\ usdc' = usdc
       ELSE IF isLocal
       THEN Then("deposit") /\ usdc' = usdc + 1
       ELSE usdc >= 1 /\ Then("deposit") /\ usdc' = usdc
    /\ UNCHANGED <<panels, oracles, papers>>

depositBond ==
    /\ On("deposit")
    /\ oracles[job.oracle].owner = Deployer
    /\ usdc >= 1
    /\ usdc' = usdc - 1
    /\ oracles' = [oracles EXCEPT ![job.oracle].bond = @ + 1]
    /\ Then("write")
    /\ UNCHANGED <<panels, papers>>

truncateRulingFile ==
    /\ On("write")
    /\ "out" \in scenario.ignored
    /\ papers' = [papers EXCEPT !.ruling = Broken]
    /\ Then("writeRuling")
    /\ UNCHANGED <<panels, oracles, usdc>>

writeRulingFile ==
    /\ On("writeRuling")
    /\ papers' = [papers EXCEPT !.ruling =
                    [oracle |-> job.oracle, escalation |-> job.panel, reviewers |-> job.reviewers,
                     type |-> CASE job.layer = "mock" -> "mock"
                                [] Wires(job.layer) -> "reviewer-panel"
                                [] OTHER -> "external"]]
    /\ job' = NoJob
    /\ UNCHANGED <<panels, oracles, usdc>>

giveUp ==
    /\ ~On("idle")
    /\ job' = NoJob
    /\ UNCHANGED <<panels, oracles, usdc, papers>>

(* A panel of the Safe is wired by the Safe, to whichever oracle it chooses *)
panelOwnerActs ==
    /\ \E p \in DOMAIN panels :
        \/ \E o \in DOMAIN oracles : SetOracle(p, o, Safe)
        \/ \E list \in {l \in ReviewerLists : parseReviewers(l)} : SetReviewers(p, list, Safe)
    /\ UNCHANGED <<oracles, usdc, papers, job>>

-----------------------------------------------------------------------------
RulingEnv(panel) ==
    [owner : {Deployer, Safe}, escalation : {panel}, mock : BOOLEAN,
     reviewers : ReviewerLists \cup {<< >>}, wire : BOOLEAN, bond : BOOLEAN]

RulingNext ==
    \/ \E owner \in {Deployer, Safe}, list \in ReviewerLists \cup {<< >>} : panelBegin(owner, list)
    \/ deployPanel \/ configurePanel \/ writePanelFile
    \/ \E p \in DOMAIN panels \cup {NoPanel} : \E env \in RulingEnv(p) : rulingBegin(env)
    \/ deployEscalation \/ deployOracle \/ wireMock
    \/ readPanelOwner \/ readPanelOracle \/ setOracle \/ setReviewers
    \/ prepareBond \/ depositBond \/ truncateRulingFile \/ writeRulingFile
    \/ giveUp \/ panelOwnerActs

allVars == <<vars, rulingVars>>

Init2 == Init /\ RulingInit

Next ==
    \/ /\ ~scenario.ruling
       /\ DeploymentNext
       /\ UNCHANGED rulingVars
    \/ /\ scenario.ruling
       /\ RulingNext
       /\ UNCHANGED vars

Spec == Init2 /\ [][Next]_allVars

-----------------------------------------------------------------------------
(* When the file appears, everything it implies is done, whatever earlier runs
   left behind and whoever else owns a panel: the panel or mock it names takes
   its orders from the oracle it names and from no other, the panel has the
   reviewers of the file, and a bond that was asked for is deposited.
   (deploy-ruling-oracle.ts:137-227) *)
DescribedRulingIsWired ==
    [][papers'.ruling # papers.ruling /\ papers'.ruling # Broken =>
        LET d == papers'.ruling
        IN  /\ oracles[d.oracle].escalation = d.escalation
            /\ d.type # "external" => panels[d.escalation].oracle = d.oracle
            /\ d.type = "reviewer-panel" => panels[d.escalation].reviewers = d.reviewers
            /\ job.bond => oracles[d.oracle].bond >= 1]_allVars
=============================================================================
