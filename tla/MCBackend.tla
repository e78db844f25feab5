----------------------------- MODULE MCBackend -----------------------------
(***************************************************************************)
(* Small backends.  Coming up and serving are tried apart: one needs a     *)
(* registry others work on, the other completions and routes that overlap. *)
(***************************************************************************)
EXTENDS Backend

Scenario(deeds, capabilities, completions, timelock) ==
    [deeds |-> deeds, capabilities |-> capabilities, completions |-> completions,
     timelock |-> timelock]

MCScenarios ==
    {Scenario({"register", "certify", "slash", "burn", "crash"}, 2, 0, "none"),
     Scenario({"register", "burn", "rpc", "crash"}, 3, 0, "none"),
     Scenario({"burn", "redeploy", "crash"}, 2, 1, "none"),
     Scenario({"dispute", "burn", "crash"}, 2, 1, "none"),
     Scenario({"dispute", "crash"}, 1, 1, "instant"),
     Scenario({"dispute", "crash"}, 1, 1, "delayed")}
=============================================================================
