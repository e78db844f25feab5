------------------------------- MODULE Appeal -------------------------------
(***************************************************************************)
(* The ruling oracle with the reviewer panel as its appeal layer: two      *)
(* contracts that keep a record each of the same dispute and call one      *)
(* another inside a transaction.  A revert in either undoes both halves.   *)
(***************************************************************************)
EXTENDS RulingOracle

CONSTANTS
    Signers,            \* addresses that may sit on a panel
    SignatureLists,     \* lists of recovered signers submitted to resolve (bound)
    Panels,             \* reviewer lists the panel's owner tries (bound)
    RESOLUTION_WINDOW

ASSUME RequestAssumption ==
    /\ EscalationIds \subseteq Nat \ {0}
    /\ RESOLUTION_WINDOW \in Nat
    /\ Panels \subseteq Seq(Signers \cup {Zero}) /\ SignatureLists \subseteq Seq(Signers)

VARIABLES oracle, reviewers, nonce, requests

Panel == INSTANCE ReviewerPanel WITH Requests <- EscalationIds

panelVars == <<oracle, reviewers, nonce, requests>>
allVars == <<vars, panelVars>>

AppealInit == Init /\ Panel!PanelInit

\* What the panel reads from the oracle before it decides.
FinalRuling(id) == outcome(requests[id].caseId)

\* _finalOutcome tests the status; outcome is NONE in every status but the final two.
IgnoredByPanel(id) == FinalRuling(id) # "NONE"

\* escalateRuling calls the panel and keeps the id it returns.
AppealEscalate(c, id) ==
    /\ Panel!escalate(id, c, cases[c].ruling, Oracle)
    /\ escalateRuling(c, id)

\* resolve and timeout call the oracle back unless the case is already final.
AppealResolve(id, upheld, signatures) ==
    /\ Panel!Open(id)
    /\ Panel!resolve(id, upheld, signatures, FinalRuling(id))
    /\ IF IgnoredByPanel(id) THEN UNCHANGED vars ELSE resolveEscalation(id, upheld)

AppealTimeout(id) ==
    /\ Panel!Open(id)
    /\ Panel!timeout(id, FinalRuling(id))
    /\ IF IgnoredByPanel(id) THEN UNCHANGED vars ELSE resolveEscalation(id, FALSE)

PanelOwner ==
    \/ Panel!setOracle(Oracle)
    \/ \E next \in Panels : Panel!setReviewers(next)

AppealNext ==
    \/ (Tick \/ Operate \/ Participate) /\ UNCHANGED panelVars
    \/ PanelOwner /\ UNCHANGED vars
    \/ \E c \in CaseIds, id \in EscalationIds : AppealEscalate(c, id)
    \/ \E id \in EscalationIds, upheld \in BOOLEAN, signatures \in SignatureLists :
          AppealResolve(id, upheld, signatures)
    \/ \E id \in EscalationIds : AppealTimeout(id)

\* Time passes, and the two settlement calls are open to anyone: somebody, the
\* waiting marketplace if no one else, makes them once they are due.  Nothing is
\* assumed of the operator, the reviewers or anyone's care for the requests.
AppealFairness ==
    /\ WF_allVars(Tick /\ UNCHANGED panelVars)
    /\ \A c \in CaseIds :
          /\ WF_allVars(finalizeUnchallenged(c) /\ UNCHANGED panelVars)
          /\ WF_allVars(defaultOverturn(c) /\ UNCHANGED panelVars)

AppealSpec == AppealInit /\ [][AppealNext]_allVars /\ AppealFairness

-----------------------------------------------------------------------------
(* Properties *)

\* The two contracts never disagree in public: a resolved request belongs to a
\* final case, and says "upheld" exactly when the oracle's outcome is the ruling
\* that was escalated, also when the oracle decided first.
PanelAgreesWithOracle ==
    \A id \in EscalationIds :
        requests[id].resolved =>
            /\ FinalRuling(id) # "NONE"
            /\ requests[id].upheld = (FinalRuling(id) = requests[id].ruling)

\* The links the two contracts keep to one another always match.
RequestsMatchCases ==
    \A id \in EscalationIds :
        /\ requests[id].caseId = caseByEscalation[id]
        /\ requests[id].caseId # Zero => cases[requests[id].caseId].escalationId = id

\* A challenge fails only by the word of two different reviewers who were on the
\* panel when the case was escalated, given inside the panel's window: silence, a
\* panel replaced later or one reviewer alone never costs a challenger the bond.
ChallengeFailsOnlyByReview ==
    \A c \in CaseIds :
        (cases[c].status = "FINALIZED" /\ cases[c].challenger # Zero) =>
            LET r == requests[cases[c].escalationId]
            IN  /\ r.upheld
                /\ Cardinality(r.signers) = 2 /\ r.signers \subseteq r.reviewers
                /\ cases[c].finalizedAt <= r.deadline

\* The panel r was put to has overturned k: two of its reviewers by the panel's
\* deadline, or, later, anybody because they had not.
OverturnedByPanel(k, r) ==
    /\ r.resolved /\ ~r.upheld
    /\ \/ /\ Cardinality(r.signers) = 2 /\ r.signers \subseteq r.reviewers
          /\ k.finalizedAt <= r.deadline
       \/ r.signers = {} /\ k.finalizedAt > r.deadline

\* No one loses the time the windows give them.  An unchallenged ruling was open to
\* challenge for the whole window and a challenge came inside it; an escalation came
\* inside the operator's window; a case never escalated was overturned only when
\* that window was over, an escalated one only by the panel or when the panel had
\* had the whole of ESCALATION_RESOLUTION_TIMEOUT.
WindowsRespected ==
    \A c \in CaseIds :
        LET k == cases[c]
            escalated == k.escalationId # Zero
            request == requests[k.escalationId]
        IN  /\ k.status = "FINALIZED" /\ k.challenger = Zero =>
                  k.finalizedAt >= k.ruledAt + CHALLENGE_WINDOW
            /\ k.challenger # Zero =>
                  k.escalationDeadline < k.ruledAt + CHALLENGE_WINDOW + ESCALATION_WINDOW
            /\ escalated => request.deadline < k.escalationDeadline + RESOLUTION_WINDOW
            /\ k.status = "FINALIZED" /\ k.challenger # Zero => escalated
            /\ k.status = "OVERTURNED" /\ ~escalated => k.finalizedAt >= k.escalationDeadline
            /\ k.status = "OVERTURNED" /\ escalated =>
                  \/ k.finalizedAt >= k.escalationDeadline + ESCALATION_RESOLUTION_TIMEOUT
                  \/ OverturnedByPanel(k, request)

\* If somebody times requests out, none stays open for ever, even one whose case
\* was settled without it, unless USDC refuses a payment to a party of its case.
EveryRequestCloses ==
    (\A id \in EscalationIds : WF_allVars(AppealTimeout(id))) =>
    \A id \in EscalationIds :
        (Panel!Open(id) /\ PayeesAccept(requests[id].caseId)) ~> requests[id].resolved

=============================================================================
