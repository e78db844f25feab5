---------------------------- MODULE ReviewerPanel ----------------------------
(***************************************************************************)
(* contracts/ReviewerPanelAdapter.sol: the appeal layer of the pilot.      *)
(* Three named reviewers, two of whom decide a request by signing it off   *)
(* chain; after the window anyone times it out.  The operators below are   *)
(* the panel's half of each transaction; Appeal.tla joins them to the      *)
(* oracle, which calls escalate and is called back by resolve and timeout. *)
(*                                                                         *)
(* A signature is reduced to the address ECDSA.recover gives: the EIP-712  *)
(* digest binds it to this request, this case and this direction, so the   *)
(* signatures of a call are the list of who signed for that direction.     *)
(* As in RulingOracle, the definitions named Faulty are mistaken variants. *)
(***************************************************************************)
EXTENDS Integers, Sequences, FiniteSets, Functions

CONSTANTS
    Requests,           \* request ids, 1, 2, ... in the order the nonce gives them
    Zero,
    RESOLUTION_WINDOW

REVIEWER_COUNT == 3
REQUIRED_SIGNATURES == 2

VARIABLES now, oracle, reviewers, nonce, requests

panelVars == <<oracle, reviewers, nonce, requests>>

\* The signers are not stored by the contract: they are what its ReviewResolved event
\* carries.
NoRequest ==
    [caseId |-> Zero, ruling |-> "NONE", reviewers |-> {}, deadline |-> 0,
     resolved |-> FALSE, upheld |-> FALSE, signers |-> {}]

PanelInit ==
    /\ oracle = Zero
    /\ reviewers = {}
    /\ nonce = 0
    /\ requests = [id \in Requests |-> NoRequest]

Open(id) == requests[id].caseId # Zero /\ ~requests[id].resolved

-----------------------------------------------------------------------------

\* The owner wires the oracle once.
setOracle(next) ==
    /\ next # Zero
    /\ oracle = Zero
    /\ oracle' = next
    /\ UNCHANGED <<reviewers, nonce, requests>>

\* The order of the three is not used again: only who is among them.
setReviewers(next) ==
    /\ Zero \notin Range(next)
    /\ Cardinality(Range(next)) = REVIEWER_COUNT
    /\ reviewers' = Range(next)
    /\ UNCHANGED <<oracle, nonce, requests>>

\* The request id hashes the nonce, so no two requests share one.
escalate(id, caseId, ruling, sender) ==
    /\ sender = oracle
    /\ reviewers # {}
    /\ id = nonce + 1
    /\ nonce' = nonce + 1
    /\ requests' = [requests EXCEPT ![id] =
                      [NoRequest EXCEPT !.caseId = caseId, !.ruling = ruling,
                                        !.reviewers = reviewers,
                                        !.deadline = now + RESOLUTION_WINDOW]]
    /\ UNCHANGED <<oracle, reviewers>>

Close(id, upheld, signers) ==
    /\ requests' = [requests EXCEPT ![id] =
                      [@ EXCEPT !.resolved = TRUE, !.upheld = upheld, !.signers = signers]]
    /\ UNCHANGED <<oracle, reviewers, nonce>>

\* The oracle decided without the panel: take over its outcome, call nobody.
Ignore(id, finalRuling) == Close(id, finalRuling = requests[id].ruling, {})

\* Counts one reviewer's signature twice.
FaultyResolve(id, upheld, signatures, finalRuling) ==
    /\ Open(id)
    /\ IF finalRuling # "NONE"
       THEN Ignore(id, finalRuling)
       ELSE /\ now <= requests[id].deadline
            /\ Len(signatures) = REQUIRED_SIGNATURES
            /\ Range(signatures) \subseteq requests[id].reviewers
            /\ Close(id, upheld, Range(signatures))

\* Records what was signed although the oracle has already decided.
FaultyLateResolve(id, upheld, signatures, finalRuling) ==
    /\ Open(id)
    /\ finalRuling # "NONE" \/ now <= requests[id].deadline
    /\ Len(signatures) = REQUIRED_SIGNATURES
    /\ signatures[1] # signatures[2]
    /\ Range(signatures) \subseteq requests[id].reviewers
    /\ Close(id, upheld, Range(signatures))

\* finalRuling is what the oracle's outcome() says now, NONE while the case is open.
resolve(id, upheld, signatures, finalRuling) ==
    /\ Open(id)
    /\ IF finalRuling # "NONE"
       THEN Ignore(id, finalRuling)
       ELSE /\ now <= requests[id].deadline
            /\ Len(signatures) = REQUIRED_SIGNATURES
            /\ signatures[1] # signatures[2]
            /\ Range(signatures) \subseteq requests[id].reviewers
            /\ Close(id, upheld, Range(signatures))

\* Refuses a request whose case was settled without it.
FaultyStrictTimeout(id, finalRuling) ==
    /\ Open(id)
    /\ finalRuling = "NONE"
    /\ now > requests[id].deadline
    /\ Close(id, FALSE, {})

timeout(id, finalRuling) ==
    /\ Open(id)
    /\ IF finalRuling # "NONE"
       THEN Ignore(id, finalRuling)
       ELSE /\ now > requests[id].deadline
            /\ Close(id, FALSE, {})

=============================================================================
