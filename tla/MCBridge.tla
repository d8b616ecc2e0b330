------------------------------ MODULE MCBridge ------------------------------
(***************************************************************************)
(* Two callers of the bridge; of three actions two have an adapter.  The   *)
(* gate is evaluated on the example policy, over small documents.          *)
(***************************************************************************)
EXTENDS Bridge, Gate, Functions, TLC

CONSTANTS c1, c2, a1, a2, a3, k1, k2, deploy

TwoCallers == {c1, c2}
TwoActions == {a1, a2}
ThreeActions == {a1, a2, a3}
NoFailures == {}
AllFailures == {"nothing", "torn", "cut", "fsync"}

Symmetry == Permutations(TwoCallers)

(***************************************************************************)
(* examples/policy.json, with a shorter age; actions on two claims;        *)
(* evidence of up to two items, in any order.                              *)
(***************************************************************************)
ExamplePolicy ==
    [allowed_action_types |-> {deploy}, max_age |-> 120,
     require_observed_for_risks |-> {"high", "critical"},
     approval_required_for_risks |-> {"medium", "high", "critical"},
     minimum_evidence_refs |-> [low |-> 1, medium |-> 1, high |-> 2, critical |-> 2]]
SampleActions ==
    [action_type : {deploy}, risk : Range(Risks), reversible : BOOLEAN,
     claim_ids : {{k1}, {k1, k2}}]
SampleItems ==
    [claim_id : {k1}, signed : {TRUE}, epistemic_status : {"observed", "reported"},
     observed_at : {0, 100}, expires_at : {Unset, 160},
     refs : {<<TRUE>>, <<TRUE, TRUE>>, <<TRUE, FALSE>>}]
    \union
    [claim_id : {k2}, signed : BOOLEAN, epistemic_status : {"observed"},
     observed_at : {0, 100}, expires_at : {Unset}, refs : {<<TRUE, TRUE>>}]
SampleEvidence == UNION {[1..n -> SampleItems] : n \in 0..2}
SampleApprovals(action) ==
    {Unset} \union [action : {action}, signed : {TRUE}, expires_at : {Unset, 130},
                    identified : {TRUE}]
ASSUME SamplesAssumption ==
    Unset \notin [action : SampleActions, signed : BOOLEAN, expires_at : Int \union {Unset},
                  identified : BOOLEAN]
SampleTimes == {39, 40, 120, 121, 130, 160, 221}

\* The gate never permits more for more risk (see StricterWithRisk).
GateStricterWithRisk == Init =>
    \A action \in {a \in SampleActions : a.risk = "low"}, evidence \in SampleEvidence,
       now \in SampleTimes :
        \A approval \in SampleApprovals(action) :
            StricterWithRisk(action, evidence, ExamplePolicy, approval, now)

\* Documents that were refused do not become good by waiting (see StaysDenied).
GateStaysDenied == Init =>
    \A action \in {a \in SampleActions : a.reversible}, evidence \in SampleEvidence :
        \A approval \in SampleApprovals(action) :
            StaysDenied(action, evidence, ExamplePolicy, approval, SampleTimes)
=============================================================================
