--------------------------- MODULE MCRulingOracle ---------------------------
(***************************************************************************)
(* The oracle on three cases of which two may be live, amounts in whole    *)
(* dollars, one tick for each window.  The bond floor is tight (two live   *)
(* cases at the cap and their bounties): the deployed one leaves more.     *)
(***************************************************************************)
EXTENDS RulingOracle

CONSTANTS c1, c2, c3, payer, provider, watcher, vault

Request(c, k, f, v, r) ==
    [caseId |-> c, provider |-> k, payer |-> payer, feePayer |-> f, value |-> v, ruling |-> r]

\* Two offers at the cap in opposite directions, a third that competes for a
\* live slot, and three that publishRuling must refuse.
MCOffers ==
    {Request(c1, provider, payer, 300, "PAY"),
     Request(c2, provider, provider, 300, "REFUND"),
     Request(c3, provider, payer, 300, "PAY"),
     Request(c3, provider, payer, 301, "PAY"),
     Request(c3, provider, payer, 100, "NONE"),
     Request(c3, payer, payer, 100, "REFUND")}

\* The operator can fund the floor once; the watcher one challenge.
MCInitialBalance ==
    [a \in Accounts |-> CASE a = Operator -> 660
                          [] a = payer    -> 50
                          [] a = provider -> 25
                          [] a = watcher  -> 30
                          [] OTHER        -> 0]
=============================================================================
