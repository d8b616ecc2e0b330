------------------------------ MODULE Gate_proofs ------------------------------
(***************************************************************************)
(* What the gate decides for documents of any content: it never permits    *)
(* more for more risk, if the policy itself does not ask less, and what it *)
(* refused it does not permit later.  The runs check both on the example   *)
(* policy over small documents.                                            *)
(***************************************************************************)
EXTENDS MCBridge, WellFoundedInduction, TLAPS

-----------------------------------------------------------------------------
(* Documents *)

Instants == Int \union {Unset}
ItemOK(item) ==
    /\ item.observed_at \in Int /\ item.expires_at \in Instants
    /\ item.refs \in Seq(BOOLEAN)
EvidenceOK(evidence) ==
    \E n \in Nat : DOMAIN evidence = 1..n /\ \A i \in 1..n : ItemOK(evidence[i])
ActionDocuments(types, ids) ==
    [action_type : types, risk : Range(Risks), reversible : BOOLEAN, claim_ids : SUBSET ids]
ApprovalDocuments(actions) ==
    [action : actions, signed : BOOLEAN, expires_at : Instants, identified : BOOLEAN]
ApprovalOK(approval) ==
    approval = Unset \/ /\ approval.signed \in BOOLEAN /\ approval.identified \in BOOLEAN
                        /\ approval.expires_at \in Instants
PolicyOK(policy) == policy.max_age \in Int

\* A policy that asks no less for more risk.
RefsAt(policy, risk) == MinimumRefs([risk |-> risk], policy)
Graded(policy) ==
    \A high \in DOMAIN Risks : \A low \in 1..high :
        /\ Risks[low] \in policy.require_observed_for_risks
           => Risks[high] \in policy.require_observed_for_risks
        /\ Risks[low] \in policy.approval_required_for_risks
           => Risks[high] \in policy.approval_required_for_risks
        /\ RefsAt(policy, Risks[low]) \in Int /\ RefsAt(policy, Risks[high]) \in Int
        /\ RefsAt(policy, Risks[low]) <= RefsAt(policy, Risks[high])

\* A set of indices has a last one.
LEMMA LastIndex ==
    ASSUME NEW n \in Nat, NEW S \in SUBSET (1..n), S # {}
    PROVE  Max(S) \in S
<1> DEFINE Back == {n - i : i \in S}
           Less == OpToRel(<, Nat)
<1>1. Back \subseteq Nat /\ Back # {}
  <2>1. \A i \in S : n - i \in Nat
    OBVIOUS
  <2>2. PICK i \in S : TRUE
    OBVIOUS
  <2>3. n - i \in Back
    BY <2>2
  <2> QED BY <2>1, <2>3
<1>2. IsWellFoundedOn(Less, Nat)
  BY NatLessThanWellFounded
<1>3. \A x, y \in Nat : <<x, y>> \in Less <=> x < y
  BY DEF OpToRel
<1> HIDE DEF Less
<1>4. \E x \in Back : \A y \in Back : ~(<<y, x>> \in Less)
  BY <1>1, <1>2, WFMin
<1>5. PICK i \in S : \A j \in S : ~(n - j < n - i)
  BY <1>1, <1>3, <1>4
<1>6. \A j \in S : i >= j
  BY <1>5
<1> QED BY <1>6 DEF Max

\* What is said of a claim, of an approval and of an action, reason by reason.
Insufficient(item, action, policy) == Len(item.refs) < MinimumRefs(action, policy)

LEMMA ClaimReasonsAre ==
    ASSUME NEW item, item # Unset, NEW action, NEW policy, NEW now, NEW reason
    PROVE  reason \in ClaimReasons(item, action, policy, now) <=>
              \/ /\ reason = "claim_not_observed" /\ ObservedRequired(action, policy)
                 /\ item.epistemic_status # "observed"
              \/ reason = "claim_from_future" /\ now - item.observed_at < -Skew
              \/ reason = "stale_claim" /\ now - item.observed_at > policy.max_age
              \/ reason = "expired_claim" /\ Expired(item, now)
              \/ reason = "insufficient_evidence_refs" /\ Insufficient(item, action, policy)
              \/ /\ reason = "invalid_evidence_ref" /\ ~Insufficient(item, action, policy)
                 /\ \E i \in DOMAIN item.refs : ~item.refs[i]
<1> DEFINE few == Len(item.refs) < MinimumRefs(action, policy)
           unobserved == ObservedRequired(action, policy) /\ item.epistemic_status # "observed"
           early == now - item.observed_at < -Skew
           stale == now - item.observed_at > policy.max_age
           over == Expired(item, now)
           invalid == ~few /\ \E i \in DOMAIN item.refs : ~item.refs[i]
<1>1. ClaimReasons(item, action, policy, now) =
         Applying([claim_not_observed |-> unobserved, claim_from_future |-> early,
                   stale_claim |-> stale, expired_claim |-> over,
                   insufficient_evidence_refs |-> few, invalid_evidence_ref |-> invalid])
  BY DEF ClaimReasons
<1>2. unobserved \in BOOLEAN /\ invalid \in BOOLEAN
  BY Zenon
<1>3. early \in BOOLEAN /\ stale \in BOOLEAN /\ few \in BOOLEAN
  BY SMT
<1>4. over \in BOOLEAN
  BY DEF Expired
<1>5. few <=> Insufficient(item, action, policy)
  BY DEF Insufficient
<1>6. /\ invalid <=> ~few /\ \E i \in DOMAIN item.refs : ~item.refs[i]
      /\ unobserved <=> ObservedRequired(action, policy) /\ item.epistemic_status # "observed"
      /\ early <=> now - item.observed_at < -Skew
      /\ stale <=> now - item.observed_at > policy.max_age
      /\ over <=> Expired(item, now)
  OBVIOUS
<1> HIDE DEF few, unobserved, early, stale, over, invalid
<1>7. reason \in ClaimReasons(item, action, policy, now) <=>
         \/ reason = "claim_not_observed" /\ unobserved
         \/ reason = "claim_from_future" /\ early
         \/ reason = "stale_claim" /\ stale
         \/ reason = "expired_claim" /\ over
         \/ reason = "insufficient_evidence_refs" /\ few
         \/ reason = "invalid_evidence_ref" /\ invalid
  BY <1>1, <1>2, <1>3, <1>4 DEF Applying
<1> QED BY <1>5, <1>6, <1>7

LEMMA ApprovalReasonsAre ==
    ASSUME NEW action, NEW approval, approval # Unset, NEW now, NEW reason,
           approval.signed \in BOOLEAN, approval.identified \in BOOLEAN
    PROVE  reason \in ApprovalReasons(action, approval, now) <=>
              \/ reason = "invalid_approval_signature" /\ ~approval.signed
              \/ reason = "approval_action_mismatch" /\ approval.action # action
              \/ reason = "approval_expired" /\ Expired(approval, now)
              \/ reason = "invalid_approval_expiry" /\ approval.expires_at = Unset
              \/ reason = "approval_identity_or_scope_missing" /\ ~approval.identified
<1> DEFINE unsigned == ~approval.signed
           mismatch == approval.action # action
           over == Expired(approval, now)
           endless == approval.expires_at = Unset
           anonymous == ~approval.identified
<1>1. ApprovalReasons(action, approval, now) =
         Applying([invalid_approval_signature |-> unsigned, approval_action_mismatch |-> mismatch,
                   approval_expired |-> over, invalid_approval_expiry |-> endless,
                   approval_identity_or_scope_missing |-> anonymous])
  BY DEF ApprovalReasons
<1>2. unsigned \in BOOLEAN /\ anonymous \in BOOLEAN /\ mismatch \in BOOLEAN /\ endless \in BOOLEAN
  BY Zenon
<1>3. over \in BOOLEAN
  BY DEF Expired
<1>4. /\ unsigned <=> ~approval.signed
      /\ mismatch <=> approval.action # action
      /\ over <=> Expired(approval, now)
      /\ endless <=> approval.expires_at = Unset
      /\ anonymous <=> ~approval.identified
  OBVIOUS
<1> HIDE DEF unsigned, mismatch, over, endless, anonymous
<1>5. reason \in ApprovalReasons(action, approval, now) <=>
         \/ reason = "invalid_approval_signature" /\ unsigned
         \/ reason = "approval_action_mismatch" /\ mismatch
         \/ reason = "approval_expired" /\ over
         \/ reason = "invalid_approval_expiry" /\ endless
         \/ reason = "approval_identity_or_scope_missing" /\ anonymous
  BY <1>1, <1>2, <1>3 DEF Applying
<1> QED BY <1>4, <1>5

\* The evidence of a claim is one of the items given.
LEMMA EvidenceIsGiven ==
    ASSUME NEW evidence, EvidenceOK(evidence), NEW claim
    PROVE  EvidenceOf(evidence, claim) = Unset \/ ItemOK(EvidenceOf(evidence, claim))
<1>1. PICK n \in Nat : DOMAIN evidence = 1..n /\ \A i \in 1..n : ItemOK(evidence[i])
  BY DEF EvidenceOK
<1> DEFINE signed == {i \in DOMAIN evidence : evidence[i].signed /\ evidence[i].claim_id = claim}
<1>2. CASE signed = {}
  BY <1>2 DEF EvidenceOf
<1>3. CASE signed # {}
  <2>1. Max(signed) \in signed
    BY <1>1, <1>3, LastIndex
  <2>2. EvidenceOf(evidence, claim) = evidence[Max(signed)]
    BY <1>3 DEF EvidenceOf
  <2> QED BY <1>1, <2>1, <2>2
<1> QED BY <1>2, <1>3

-----------------------------------------------------------------------------
(* Waiting *)

\* A document that has expired stays so.
LEMMA ExpiryStays ==
    ASSUME NEW document, document.expires_at \in Instants,
           NEW now \in Int, NEW later \in Int, later >= now, Expired(document, now)
    PROVE  Expired(document, later)
  BY DEF Expired, Instants

LEMMA ClaimStaysRefused ==
    ASSUME NEW item, item = Unset \/ ItemOK(item), NEW action, NEW policy, PolicyOK(policy),
           NEW now \in Int, NEW later \in Int, later >= now,
           NEW reason \in ClaimReasons(item, action, policy, now), reason # "claim_from_future"
    PROVE  reason \in ClaimReasons(item, action, policy, later)
<1>1. CASE item = Unset
  BY <1>1 DEF ClaimReasons
<1>2. CASE item # Unset
  <2>1. /\ item.observed_at \in Int /\ item.expires_at \in Instants /\ policy.max_age \in Int
    BY <1>2 DEF ItemOK, PolicyOK
  <2>2. now - item.observed_at > policy.max_age => later - item.observed_at > policy.max_age
    BY <2>1
  <2>3. Expired(item, now) => Expired(item, later)
    BY <2>1, ExpiryStays
  <2> QED BY <1>2, <2>2, <2>3, ClaimReasonsAre
<1> QED BY <1>1, <1>2

LEMMA ApprovalStaysRefused ==
    ASSUME NEW approval, ApprovalOK(approval), NEW action,
           NEW now \in Int, NEW later \in Int, later >= now,
           NEW reason \in ApprovalReasons(action, approval, now)
    PROVE  reason \in ApprovalReasons(action, approval, later)
<1>1. CASE approval = Unset
  BY <1>1 DEF ApprovalReasons
<1>2. CASE approval # Unset
  <2>1. Expired(approval, now) => Expired(approval, later)
    BY <1>2, ExpiryStays DEF ApprovalOK
  <2> QED BY <1>2, <2>1, ApprovalReasonsAre DEF ApprovalOK
<1> QED BY <1>1, <1>2

\* What an action is refused for does not pass, unless it is that a claim comes from
\* the future: evaluate_action with the same documents refuses it at every later time.
THEOREM RefusalsStay ==
    ASSUME NEW action, NEW evidence, EvidenceOK(evidence), NEW policy, PolicyOK(policy),
           NEW approval, ApprovalOK(approval),
           NEW times \in SUBSET Int
    PROVE  StaysDenied(action, evidence, policy, approval, times)
<1> DEFINE Lasting ==
        Applying(
            [action_type_not_allowed |-> /\ policy.allowed_action_types # {}
                                         /\ action.action_type \notin policy.allowed_action_types,
             invalid_evidence_signature |-> \E i \in DOMAIN evidence : ~evidence[i].signed,
             irreversible_critical_action |-> action.risk = "critical" /\ ~action.reversible])
      Claims(t) == UNION {ClaimReasons(EvidenceOf(evidence, claim), action, policy, t) :
                              claim \in action.claim_ids}
      Approved(t) == IF action.risk \in policy.approval_required_for_risks
                     THEN ApprovalReasons(action, approval, t) ELSE {}
<1>1. ASSUME NEW t
      PROVE  Reasons(action, evidence, policy, approval, t) = Lasting \union Claims(t) \union Approved(t)
  BY Zenon DEF Reasons
<1> SUFFICES ASSUME NEW now \in times, NEW later \in times, later >= now,
                    NEW reason \in Reasons(action, evidence, policy, approval, now),
                    reason # "claim_from_future"
             PROVE  Reasons(action, evidence, policy, approval, later) # {}
  BY DEF StaysDenied, Permits
<1> HIDE DEF Lasting
<1>2. CASE reason \in Lasting
  BY <1>1, <1>2
<1>3. CASE reason \in Claims(now)
  <2>1. PICK claim \in action.claim_ids :
            reason \in ClaimReasons(EvidenceOf(evidence, claim), action, policy, now)
    BY <1>3
  <2>2. reason \in ClaimReasons(EvidenceOf(evidence, claim), action, policy, later)
    BY <2>1, EvidenceIsGiven, ClaimStaysRefused
  <2>3. reason \in Claims(later)
    BY <2>1, <2>2
  <2> QED BY <1>1, <2>3
<1>4. CASE reason \in Approved(now)
  <2>1. reason \in Approved(later)
    BY <1>4, ApprovalStaysRefused
  <2> QED BY <1>1, <2>1
<1> QED BY <1>1, <1>2, <1>3, <1>4

-----------------------------------------------------------------------------
(* Risk *)

LEMMA RiskedFields ==
    ASSUME NEW types, NEW ids, NEW action \in ActionDocuments(types, ids), NEW risk
    PROVE  /\ Risked(action, risk).risk = risk
           /\ Risked(action, risk).action_type = action.action_type
           /\ Risked(action, risk).reversible = action.reversible
           /\ Risked(action, risk).claim_ids = action.claim_ids
  BY DEF ActionDocuments, Risked

\* The lower risk asks no more of a claim, ...
LEMMA ClaimStricter ==
    ASSUME NEW item, item = Unset \/ ItemOK(item), NEW policy, Graded(policy), NEW now,
           NEW lower, NEW higher, NEW high \in DOMAIN Risks, NEW low \in 1..high,
           lower.risk = Risks[low], higher.risk = Risks[high],
           ClaimReasons(item, higher, policy, now) = {}
    PROVE  ClaimReasons(item, lower, policy, now) = {}
<1>1. item # Unset
  BY DEF ClaimReasons
<1>2. ObservedRequired(lower, policy) => ObservedRequired(higher, policy)
  BY DEF Graded, ObservedRequired
<1>3. /\ MinimumRefs(lower, policy) = RefsAt(policy, Risks[low])
      /\ MinimumRefs(higher, policy) = RefsAt(policy, Risks[high])
  BY DEF RefsAt, MinimumRefs
<1>4. Insufficient(item, lower, policy) => Insufficient(item, higher, policy)
  <2>1. Len(item.refs) \in Nat
    BY <1>1 DEF ItemOK
  <2>2. /\ MinimumRefs(lower, policy) \in Int /\ MinimumRefs(higher, policy) \in Int
        /\ MinimumRefs(lower, policy) <= MinimumRefs(higher, policy)
    BY <1>3 DEF Graded
  <2> QED BY <2>1, <2>2 DEF Insufficient
<1>5. ASSUME NEW reason \in ClaimReasons(item, lower, policy, now) PROVE FALSE
  <2>1. \/ reason \in ClaimReasons(item, higher, policy, now)
        \/ "claim_not_observed" \in ClaimReasons(item, higher, policy, now)
        \/ "insufficient_evidence_refs" \in ClaimReasons(item, higher, policy, now)
    BY <1>1, <1>2, <1>4, <1>5, ClaimReasonsAre
  <2> QED BY <2>1
<1> QED BY <1>5

\* ... nor of an approval, which names the action in either case.
LEMMA ApprovalStricter ==
    ASSUME NEW actions, Unset \notin ApprovalDocuments(actions),
           NEW approval, approval = Unset \/ approval \in ApprovalDocuments(actions),
           NEW lower \in actions, NEW higher \in actions, NEW now,
           ApprovalReasons(higher, Approving(approval, higher), now) = {}
    PROVE  ApprovalReasons(lower, Approving(approval, lower), now) = {}
<1>1. approval # Unset /\ approval \in ApprovalDocuments(actions)
  BY DEF ApprovalReasons, Approving
<1>2. ASSUME NEW action \in actions
      PROVE  /\ Approving(approval, action) # Unset
             /\ Approving(approval, action).action = action
             /\ Approving(approval, action).signed = approval.signed
             /\ Approving(approval, action).identified = approval.identified
             /\ Approving(approval, action).expires_at = approval.expires_at
  <2>1. Approving(approval, action) = [approval EXCEPT !.action = action]
    BY <1>1 DEF Approving
  <2>2. Approving(approval, action) \in ApprovalDocuments(actions)
    BY <1>1, <2>1 DEF ApprovalDocuments
  <2> QED BY <1>1, <2>1, <2>2 DEF ApprovalDocuments
<1>3. approval.signed \in BOOLEAN /\ approval.identified \in BOOLEAN
  BY <1>1 DEF ApprovalDocuments
<1>4. Expired(Approving(approval, lower), now) <=> Expired(Approving(approval, higher), now)
  BY <1>2 DEF Expired
<1>5. ASSUME NEW reason \in ApprovalReasons(lower, Approving(approval, lower), now)
      PROVE  reason \in ApprovalReasons(higher, Approving(approval, higher), now)
  BY <1>2, <1>3, <1>4, <1>5, ApprovalReasonsAre
<1> QED BY <1>5

\* What does not rest on a claim or on the approval.
LEMMA NoOtherReason ==
    ASSUME NEW barred \in BOOLEAN, NEW unsigned \in BOOLEAN, NEW fatal \in BOOLEAN
    PROVE  Applying([action_type_not_allowed |-> barred, invalid_evidence_signature |-> unsigned,
                     irreversible_critical_action |-> fatal]) = {}
           <=> ~barred /\ ~unsigned /\ ~fatal
<1> DEFINE reasons == [action_type_not_allowed |-> barred, invalid_evidence_signature |-> unsigned,
                       irreversible_critical_action |-> fatal]
<1>1. \A r : r \in Applying(reasons) <=> \/ r = "action_type_not_allowed" /\ barred
                                         \/ r = "invalid_evidence_signature" /\ unsigned
                                         \/ r = "irreversible_critical_action" /\ fatal
  BY DEF Applying
<1> HIDE DEF reasons
<1>2. Applying(reasons) = {} <=> ~barred /\ ~unsigned /\ ~fatal
  BY <1>1
<1> QED BY <1>2 DEF reasons

\* What evaluate_action permits at one risk it permits at every lower one, by a policy
\* that asks no less for more: whatever the evidence, the action and the approval are.
THEOREM StricterRiskIsStricter ==
    ASSUME NEW types, NEW ids, NEW action \in ActionDocuments(types, ids),
           NEW actions, \A i \in DOMAIN Risks : Risked(action, Risks[i]) \in actions,
           Unset \notin ApprovalDocuments(actions),
           NEW approval, approval = Unset \/ approval \in ApprovalDocuments(actions),
           NEW evidence, EvidenceOK(evidence), NEW policy, Graded(policy), NEW now
    PROVE  StricterWithRisk(action, evidence, policy, approval, now)
<1> DEFINE At(risk) == Permits(Risked(action, risk), evidence, policy,
                               Approving(approval, Risked(action, risk)), now)
<1> SUFFICES ASSUME NEW high \in DOMAIN Risks, NEW low \in 1..high, At(Risks[high])
             PROVE  At(Risks[low])
  BY DEF StricterWithRisk
<1> DEFINE lower == Risked(action, Risks[low])
           higher == Risked(action, Risks[high])
           l == Approving(approval, lower)
           h == Approving(approval, higher)
           Lasting(a) == Applying(
            [action_type_not_allowed |-> /\ policy.allowed_action_types # {}
                                         /\ a.action_type \notin policy.allowed_action_types,
             invalid_evidence_signature |-> \E i \in DOMAIN evidence : ~evidence[i].signed,
             irreversible_critical_action |-> a.risk = "critical" /\ ~a.reversible])
           Claims(a) == UNION {ClaimReasons(EvidenceOf(evidence, claim), a, policy, now) :
                                   claim \in a.claim_ids}
           Approved(a, b) == IF a.risk \in policy.approval_required_for_risks
                             THEN ApprovalReasons(a, b, now) ELSE {}
<1>1. /\ Reasons(lower, evidence, policy, l, now) =
            Lasting(lower) \union Claims(lower) \union Approved(lower, l)
      /\ Reasons(higher, evidence, policy, h, now) =
            Lasting(higher) \union Claims(higher) \union Approved(higher, h)
  BY Zenon DEF Reasons
<1>2. Lasting(higher) = {} /\ Claims(higher) = {} /\ Approved(higher, h) = {}
  BY <1>1 DEF Permits
<1>3. /\ low \in DOMAIN Risks /\ lower.risk = Risks[low] /\ higher.risk = Risks[high]
      /\ lower.action_type = higher.action_type /\ lower.reversible = higher.reversible
      /\ lower.claim_ids = higher.claim_ids
      /\ lower.risk = "critical" => higher.risk = "critical"
  BY RiskedFields DEF Risks
<1>4. lower \in actions /\ higher \in actions
  BY <1>3
<1> HIDE DEF lower, higher
<1>5. Lasting(lower) = {}
  <2> DEFINE barred(a) == /\ policy.allowed_action_types # {}
                          /\ a.action_type \notin policy.allowed_action_types
             unsigned == \E i \in DOMAIN evidence : ~evidence[i].signed
             fatal(a) == a.risk = "critical" /\ ~a.reversible
  <2>1. barred(lower) = barred(higher) /\ (fatal(lower) => fatal(higher))
    BY <1>3
  <2>2. /\ barred(lower) \in BOOLEAN /\ barred(higher) \in BOOLEAN /\ unsigned \in BOOLEAN
        /\ fatal(lower) \in BOOLEAN /\ fatal(higher) \in BOOLEAN
    BY Zenon
  <2>3. \A a : Lasting(a) = Applying([action_type_not_allowed |-> barred(a),
                                      invalid_evidence_signature |-> unsigned,
                                      irreversible_critical_action |-> fatal(a)])
    BY Zenon
  <2> HIDE DEF barred, unsigned, fatal, Lasting
  <2>4. ~barred(higher) /\ ~unsigned /\ ~fatal(higher)
    BY <1>2, <2>2, <2>3, NoOtherReason
  <2> QED BY <2>1, <2>2, <2>3, <2>4, NoOtherReason
<1>6. Claims(lower) = {}
  <2>1. ASSUME NEW claim \in lower.claim_ids
        PROVE  ClaimReasons(EvidenceOf(evidence, claim), lower, policy, now) = {}
    <3>1. ClaimReasons(EvidenceOf(evidence, claim), higher, policy, now) = {}
      BY <1>2, <1>3
    <3> QED BY <1>3, <3>1, EvidenceIsGiven, ClaimStricter
  <2> QED BY <2>1
<1>7. Approved(lower, l) = {}
  <2>1. CASE lower.risk \in policy.approval_required_for_risks
    <3>1. higher.risk \in policy.approval_required_for_risks
      BY <1>3, <2>1 DEF Graded
    <3>2. ApprovalReasons(higher, h, now) = {}
      BY <1>2, <3>1
    <3> QED BY <1>4, <3>2, ApprovalStricter
  <2> QED BY <2>1
<1> QED BY <1>1, <1>5, <1>6, <1>7 DEF Permits, lower

-----------------------------------------------------------------------------
(* The example policy and the documents of the runs *)

LEMMA SamplesAreDocuments ==
    /\ \A evidence \in SampleEvidence : EvidenceOK(evidence)
    /\ SampleActions \subseteq ActionDocuments({deploy}, {k1, k2})
    /\ \A action \in SampleActions, i \in DOMAIN Risks : Risked(action, Risks[i]) \in SampleActions
    /\ Unset \notin ApprovalDocuments(SampleActions)
    /\ \A action \in SampleActions : \A approval \in SampleApprovals(action) :
          approval = Unset \/ approval \in ApprovalDocuments(SampleActions)
<1>1. ASSUME NEW item \in SampleItems PROVE ItemOK(item)
  <2>1. <<TRUE>> \in Seq(BOOLEAN) /\ <<TRUE, TRUE>> \in Seq(BOOLEAN) /\ <<TRUE, FALSE>> \in Seq(BOOLEAN)
    OBVIOUS
  <2>2. item.observed_at \in {0, 100} /\ item.expires_at \in {Unset, 160}
        /\ item.refs \in {<<TRUE>>, <<TRUE, TRUE>>, <<TRUE, FALSE>>}
    BY <1>1 DEF SampleItems
  <2>3. item.refs \in Seq(BOOLEAN)
    BY <2>1, <2>2
  <2>4. item.observed_at \in Int /\ item.expires_at \in Instants
    BY <2>2 DEF Instants
  <2> QED BY <2>3, <2>4 DEF ItemOK
<1>2. ASSUME NEW evidence \in SampleEvidence PROVE EvidenceOK(evidence)
  <2>1. PICK n \in 0..2 : evidence \in [1..n -> SampleItems]
    BY DEF SampleEvidence
  <2> QED BY <1>1, <2>1 DEF EvidenceOK
<1>3. SampleActions \subseteq ActionDocuments({deploy}, {k1, k2})
  BY DEF SampleActions, ActionDocuments
<1>4. ASSUME NEW action \in SampleActions, NEW i \in DOMAIN Risks
      PROVE  Risked(action, Risks[i]) \in SampleActions
  <2>1. Risks[i] \in Range(Risks)
    BY DEF Range
  <2> QED BY <2>1 DEF SampleActions, Risked
<1>5. Unset \notin ApprovalDocuments(SampleActions)
  BY SamplesAssumption DEF ApprovalDocuments, Instants
<1>6. ASSUME NEW action \in SampleActions, NEW approval \in SampleApprovals(action)
      PROVE  approval = Unset \/ approval \in ApprovalDocuments(SampleActions)
  <2>1. CASE approval \in [action : {action}, signed : {TRUE}, expires_at : {Unset, 130},
                           identified : {TRUE}]
    <3>1. /\ approval = [action |-> approval.action, signed |-> approval.signed,
                         expires_at |-> approval.expires_at, identified |-> approval.identified]
          /\ approval.action = action /\ approval.signed = TRUE /\ approval.identified = TRUE
          /\ approval.expires_at \in {Unset, 130}
      BY <2>1
    <3>2. approval.expires_at \in Instants
      BY <3>1 DEF Instants
    <3>3. [action |-> action, signed |-> TRUE, expires_at |-> approval.expires_at,
           identified |-> TRUE] \in ApprovalDocuments(SampleActions)
      BY <3>2 DEF ApprovalDocuments
    <3> QED BY <3>1, <3>3
  <2> QED BY <2>1 DEF SampleApprovals
<1> QED BY <1>2, <1>3, <1>4, <1>5, <1>6

LEMMA ExampleIsGraded == Graded(ExamplePolicy) /\ PolicyOK(ExamplePolicy)
<1>1. /\ RefsAt(ExamplePolicy, "low") = 1 /\ RefsAt(ExamplePolicy, "medium") = 1
      /\ RefsAt(ExamplePolicy, "high") = 2 /\ RefsAt(ExamplePolicy, "critical") = 2
  BY DEF RefsAt, MinimumRefs, ExamplePolicy
<1>2. /\ Risks[1] = "low" /\ Risks[2] = "medium" /\ Risks[3] = "high" /\ Risks[4] = "critical"
      /\ DOMAIN Risks = 1..4
  BY DEF Risks
<1>3. /\ ExamplePolicy.require_observed_for_risks = {"high", "critical"}
      /\ ExamplePolicy.approval_required_for_risks = {"medium", "high", "critical"}
      /\ ExamplePolicy.max_age = 120
  BY DEF ExamplePolicy
<1> QED BY <1>1, <1>2, <1>3 DEF Graded, PolicyOK

\* The example policy never permits more for more risk.
THEOREM ExampleIsStricterWithRisk == Spec => []GateStricterWithRisk
<1>1. GateStricterWithRisk
  BY SamplesAreDocuments, ExampleIsGraded, StricterRiskIsStricter DEF GateStricterWithRisk
<1> QED BY <1>1, PTL

\* What it refused it does not permit later.
THEOREM ExampleStaysDenied == Spec => []GateStaysDenied
<1>1. GateStaysDenied
  <2> SUFFICES ASSUME NEW action \in SampleActions, NEW evidence \in SampleEvidence,
                      NEW approval \in SampleApprovals(action)
               PROVE  StaysDenied(action, evidence, ExamplePolicy, approval, SampleTimes)
    BY DEF GateStaysDenied
  <2>1. ApprovalOK(approval)
    BY SamplesAreDocuments DEF ApprovalOK, ApprovalDocuments
  <2>2. SampleTimes \in SUBSET Int
    BY DEF SampleTimes
  <2> QED BY <2>1, <2>2, SamplesAreDocuments, ExampleIsGraded, RefusalsStay
<1> QED BY <1>1, PTL
=============================================================================
