---------------------------- MODULE Adjudication ----------------------------
(***************************************************************************)
(* What a marketplace is promised about its cases, without windows, bonds  *)
(* or appeals: an offer may be withdrawn only before it is paid for, at    *)
(* most MaxLive paid cases are open at once, and each of them gets exactly *)
(* one verdict, the published ruling or, after a contest only, its         *)
(* opposite, which never changes.                                          *)
(***************************************************************************)
EXTENDS Integers, FiniteSets

CONSTANTS CaseIds, MaxLive

VARIABLES phase, ruling, verdict

vars == <<phase, ruling, verdict>>

Phases == {"none", "offered", "open", "contested", "final"}

\* "NONE" stands for no ruling.
Opposite(r) == IF r = "PAY" THEN "REFUND" ELSE "PAY"

Open == {c \in CaseIds : phase[c] \in {"open", "contested"}}

Init ==
    /\ phase = [c \in CaseIds |-> "none"]
    /\ ruling = [c \in CaseIds |-> "NONE"]
    /\ verdict = [c \in CaseIds |-> "NONE"]

Offer(c, r) ==
    /\ phase[c] = "none"
    /\ phase' = [phase EXCEPT ![c] = "offered"]
    /\ ruling' = [ruling EXCEPT ![c] = r]
    /\ UNCHANGED verdict

Withdraw(c) ==
    /\ phase[c] = "offered"
    /\ phase' = [phase EXCEPT ![c] = "none"]
    /\ ruling' = [ruling EXCEPT ![c] = "NONE"]
    /\ UNCHANGED verdict

Activate(c) ==
    /\ phase[c] = "offered"
    /\ Cardinality(Open) < MaxLive
    /\ phase' = [phase EXCEPT ![c] = "open"]
    /\ UNCHANGED <<ruling, verdict>>

Contest(c) ==
    /\ phase[c] = "open"
    /\ phase' = [phase EXCEPT ![c] = "contested"]
    /\ UNCHANGED <<ruling, verdict>>

Decide(c, r) ==
    /\ \/ phase[c] = "open" /\ r = ruling[c]
       \/ phase[c] = "contested" /\ r \in {ruling[c], Opposite(ruling[c])}
    /\ phase' = [phase EXCEPT ![c] = "final"]
    /\ verdict' = [verdict EXCEPT ![c] = r]
    /\ UNCHANGED ruling

Next ==
    \E c \in CaseIds :
        \/ \E r \in {"PAY", "REFUND"} : Offer(c, r) \/ Decide(c, r)
        \/ Withdraw(c)
        \/ Activate(c)
        \/ Contest(c)

Spec == Init /\ [][Next]_vars
=============================================================================
