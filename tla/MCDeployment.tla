---------------------------- MODULE MCDeployment ----------------------------
(***************************************************************************)
(* Networks and settings.  The scripts of the ruling oracle touch nothing  *)
(* the others do, and have scenarios of their own.                         *)
(***************************************************************************)
EXTENDS RulingDeployment

Env(delay, multisig, proposers, reuseAgent) ==
    [delay |-> delay, multisig |-> multisig, padded |-> FALSE,
     proposers |-> proposers, executors |-> {}, reuse |-> reuseAgent,
     fund |-> FALSE, rehearsal |-> FALSE, staged |-> FALSE, overwrite |-> FALSE]

Network(chainName, envs) ==
    [chain |-> chainName, fork |-> FALSE, automine |-> chainName = "local",
     pendingEstimates |-> TRUE, ignored |-> {"env", "out"}, pilot |-> chainName # "mainnet",
     batches |-> 0, envs |-> envs, ruling |-> FALSE]

Pilot == {Env(0, NoOne, {}, r) : r \in BOOLEAN}
Hardened == {Env(2, Safe, {}, TRUE), Env(1, NoOne, {Safe}, FALSE)}

MCScenarios ==
    {Network("sepolia", Pilot),
     [Network("sepolia", Pilot) EXCEPT !.pendingEstimates = FALSE],
     [Network("sepolia", {Env(2, Safe, {}, TRUE)}) EXCEPT !.batches = 2],
     [Network("sepolia", {Env(1, NoOne, {Safe}, FALSE)}) EXCEPT !.batches = 1],
     [Network("sepolia", {Env(0, NoOne, {LowerCase(Deployer)}, FALSE)}) EXCEPT !.batches = 1],
     [Network("sepolia", Pilot) EXCEPT !.ignored = {"env"}],
     [Network("sepolia", Pilot) EXCEPT !.ignored = {"out"}],
     Network("local", {Env(0, NoOne, {}, FALSE),
                       [Env(0, NoOne, {}, FALSE) EXCEPT !.staged = TRUE],
                       [Env(1, Safe, {}, FALSE) EXCEPT !.overwrite = TRUE]}),
     Network("mainnet", Hardened \cup {[e EXCEPT !.fund = TRUE] : e \in Hardened}),
     [Network("mainnet", {[Env(0, NoOne, {}, FALSE) EXCEPT !.rehearsal = TRUE, !.staged = TRUE]})
        EXCEPT !.fork = TRUE, !.automine = TRUE, !.pilot = TRUE],
     [Network("local", {}) EXCEPT !.ruling = TRUE],
     [Network("sepolia", {}) EXCEPT !.ruling = TRUE],
     [Network("mainnet", {}) EXCEPT !.ruling = TRUE]}

MCReviewerLists == {<<"a", "b", "c">>, <<"a", "b", "b">>}
=============================================================================
