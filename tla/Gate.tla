-------------------------------- MODULE Gate --------------------------------
(***************************************************************************)
(* evaluate_action of proofrail/core.py: signed evidence, an approval and  *)
(* a policy decide on an action.  A document that lacks a field raises and *)
(* is left out; an action stands for its digest, times are in seconds.     *)
(*                                                                         *)
(*   action    [action_type, risk, reversible, claim_ids]                  *)
(*   evidence  sequence of [claim_id, signed, epistemic_status,            *)
(*             observed_at, expires_at, refs]: refs says of each           *)
(*             reference if it has a uri                                   *)
(*   policy    [allowed_action_types, max_age, require_observed_for_risks, *)
(*             approval_required_for_risks, minimum_evidence_refs]         *)
(*   approval  Unset, or [action, signed, expires_at, identified]          *)
(***************************************************************************)
EXTENDS Integers, Sequences, FiniteSetsExt

CONSTANT Unset   \* a value that is not given

Risks == <<"low", "medium", "high", "critical">>
Skew == 60

\* The reasons of a record that apply.
Applying(reasons) == {r \in DOMAIN reasons : reasons[r]}

\* evidence_by_id: of the signed items of a claim, the last one given.
EvidenceOf(evidence, claim) ==
    LET signed == {i \in DOMAIN evidence : evidence[i].signed /\ evidence[i].claim_id = claim}
    IN IF signed = {} THEN Unset ELSE evidence[Max(signed)]

\* Slip: only the risk called high needs observed claims.
ObservedRequiredHigh(action, policy) ==
    action.risk = "high" /\ "high" \in policy.require_observed_for_risks

ObservedRequired(action, policy) == action.risk \in policy.require_observed_for_risks

MinimumRefs(action, policy) ==
    IF action.risk \in DOMAIN policy.minimum_evidence_refs
    THEN policy.minimum_evidence_refs[action.risk] ELSE 1

\* Slip: expired until then, not from then on.
ExpiredBefore(document, now) == document.expires_at # Unset /\ now < document.expires_at

Expired(document, now) == document.expires_at # Unset /\ now >= document.expires_at

ClaimReasons(item, action, policy, now) ==
    IF item = Unset THEN {"missing_signed_claim"}
    ELSE LET age == now - item.observed_at
             insufficient == Len(item.refs) < MinimumRefs(action, policy)
         IN Applying(
            [claim_not_observed |-> /\ ObservedRequired(action, policy)
                                    /\ item.epistemic_status # "observed",
             claim_from_future |-> age < -Skew,
             stale_claim |-> age > policy.max_age,
             expired_claim |-> Expired(item, now),
             insufficient_evidence_refs |-> insufficient,
             invalid_evidence_ref |-> ~insufficient /\ \E i \in DOMAIN item.refs : ~item.refs[i]])

\* _verify_approval; an approval has to have an expiry.
ApprovalReasons(action, approval, now) ==
    IF approval = Unset THEN {"approval_required"}
    ELSE Applying(
            [invalid_approval_signature |-> ~approval.signed,
             approval_action_mismatch |-> approval.action # action,
             approval_expired |-> Expired(approval, now),
             invalid_approval_expiry |-> approval.expires_at = Unset,
             approval_identity_or_scope_missing |-> ~approval.identified])

Reasons(action, evidence, policy, approval, now) ==
    Applying(
        [action_type_not_allowed |-> /\ policy.allowed_action_types # {}
                                     /\ action.action_type \notin policy.allowed_action_types,
         invalid_evidence_signature |-> \E i \in DOMAIN evidence : ~evidence[i].signed,
         irreversible_critical_action |-> action.risk = "critical" /\ ~action.reversible])
    \union (UNION {ClaimReasons(EvidenceOf(evidence, claim), action, policy, now) :
                       claim \in action.claim_ids})
    \union IF action.risk \in policy.approval_required_for_risks
           THEN ApprovalReasons(action, approval, now) ELSE {}

Permits(action, evidence, policy, approval, now) ==
    Reasons(action, evidence, policy, approval, now) = {}

-----------------------------------------------------------------------------
(* Properties of a decision, for given documents *)

Risked(action, risk) == [action EXCEPT !.risk = risk]
Approving(approval, action) == IF approval = Unset THEN Unset ELSE [approval EXCEPT !.action = action]

\* What is permitted at one risk is permitted at every lower one, with the same
\* evidence and an approval that differs in nothing but the action it names.
StricterWithRisk(action, evidence, policy, approval, now) ==
    \A high \in DOMAIN Risks : \A low \in 1..high :
        LET At(risk) == Permits(Risked(action, risk), evidence, policy,
                                Approving(approval, Risked(action, risk)), now)
        IN At(Risks[high]) => At(Risks[low])

\* Documents age: what is denied now, for other reasons than a claim from the
\* future, is denied for ever.
StaysDenied(action, evidence, policy, approval, times) ==
    \A now \in times : \A later \in {t \in times : t >= now} :
        LET reasons == Reasons(action, evidence, policy, approval, now)
        IN reasons \ {"claim_from_future"} # {}
           => ~Permits(action, evidence, policy, approval, later)
=============================================================================
