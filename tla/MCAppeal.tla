------------------------------ MODULE MCAppeal ------------------------------
(***************************************************************************)
(* Oracle and panel on two cases.  The provider of the first is frozen by  *)
(* USDC, so some of its settlements cannot be paid; nothing of the second  *)
(* case is.  The panel may be replaced while requests are open.            *)
(***************************************************************************)
EXTENDS Appeal

CONSTANTS c1, c2, payer, provider, frozen, r1, r2, r3, r4

MCOffers ==
    {[caseId |-> c1, provider |-> frozen, payer |-> payer, feePayer |-> payer,
      value |-> 300, ruling |-> "PAY"],
     [caseId |-> c2, provider |-> provider, payer |-> payer, feePayer |-> payer,
      value |-> 300, ruling |-> "REFUND"]}

MCInitialBalance ==
    [a \in Accounts |-> CASE a = Operator -> 660 [] a = payer -> 80 [] OTHER -> 0]

\* A panel, one that takes over two of its seats, and two lists that are refused.
MCPanels == {<<r1, r2, r3>>, <<r2, r3, r4>>, <<r1, r1, r2>>, <<r1, r2, Zero>>}

\* Two members of each panel, one member twice or alone, one of each panel only.
MCSignatureLists == {<<r1, r2>>, <<r2, r4>>, <<r1, r1>>, <<r2>>, <<r1, r4>>}
=============================================================================
