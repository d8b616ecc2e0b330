------------------------- MODULE ControlPlane_proofs -------------------------
(***************************************************************************)
(* Proofs about ControlPlane: its types, and that neither a race between   *)
(* the check and the write of an activation nor any order of operations    *)
(* lowers the active version without a governor quorum.                    *)
(***************************************************************************)
EXTENDS ControlPlane, FiniteSetTheorems, SequenceTheorems, TLAPS

USE ControlPlaneAssumption

\* The type invariant is inductive (publish_policy, _activate_policy).
LEMMA CPTypeStep == CPTypeOK /\ [CPNext]_cpVars => CPTypeOK'
<1> SUFFICES ASSUME CPTypeOK, [CPNext]_cpVars PROVE CPTypeOK'
  OBVIOUS
<1> USE DEF CPTypeOK
<1>1. ASSUME NEW p \in Principals, NEW r \in Roles, GrantRole(p, r) PROVE CPTypeOK'
  BY <1>1 DEF GrantRole
<1>2. ASSUME NEW p \in Principals, NEW d \in Documents, AuthorizePublish(p, d)
      PROVE  CPTypeOK'
  BY <1>2 DEF AuthorizePublish, Allow, Publication
<1>3. ASSUME NEW d \in Documents, CommitPublish(d) PROVE CPTypeOK'
  <2>1. policies' \in Seq(Documents) /\ Len(policies') >= Len(policies)
    BY <1>3 DEF CommitPublish
  <2> QED BY <2>1, <1>3 DEF CommitPublish
<1>4. ASSUME NEW p \in Principals, NEW v \in Versions, AuthorizeActivate(p, v)
      PROVE  CPTypeOK'
  BY <1>4 DEF AuthorizeActivate, Allow, Activation
<1>5. ASSUME NEW g \in Governors, NEW v \in Versions, NEW a \in Signable,
             SignApproval(g, v, a)
      PROVE  CPTypeOK'
  BY <1>5 DEF SignApproval, Approvals, Statements
<1>6. ASSUME NEW v \in 1..Len(policies), NEW bundle \in SUBSET approvals,
             ApproveActivate(v, bundle)
      PROVE  CPTypeOK'
  BY <1>6 DEF ApproveActivate, Allow, Activation, Approvals, Statements
<1>7. ASSUME NEW operation \in pending, CommitActivate(operation) PROVE CPTypeOK'
  BY <1>7 DEF CommitActivate, Activation, Versions
<1>8. CASE UNCHANGED cpVars
  BY <1>8 DEF cpVars
<1> QED BY <1>1, <1>2, <1>3, <1>4, <1>5, <1>6, <1>7, <1>8 DEF CPNext

\* Type correctness of the control plane.
THEOREM CPTypeCorrect == CPSpec => []CPTypeOK
<1>1. CPInit => CPTypeOK
  BY DEF CPInit, CPTypeOK
<1> QED BY <1>1, CPTypeStep, PTL DEF CPSpec

-----------------------------------------------------------------------------
(* Immutable policies *)

\* No digest is published under two versions.
DigestsUnique == \A v, w \in 1..Len(policies) : policies[v] = policies[w] => v = w

\* One step keeps every published version and gives no digest a second one:
\* publish_policy appends, and only a digest that is not there yet.
LEMMA PoliciesStep ==
    ASSUME CPTypeOK, DigestsUnique, [CPNext]_cpVars
    PROVE  /\ DigestsUnique'
           /\ \A v \in 1..Len(policies) :
                 v \in 1..Len(policies') /\ policies'[v] = policies[v]
<1> USE DEF CPTypeOK, DigestsUnique
<1>1. ASSUME NEW d \in Documents, CommitPublish(d)
      PROVE  /\ DigestsUnique'
             /\ \A v \in 1..Len(policies) :
                   v \in 1..Len(policies') /\ policies'[v] = policies[v]
  <2>1. CASE policies' = policies
    BY <2>1
  <2>2. CASE policies' = Append(policies, d) /\ \A v \in 1..Len(policies) : policies[v] # d
    <3>1. policies \in Seq(Documents) /\ Len(policies) \in Nat
      OBVIOUS
    <3>2. /\ Len(policies') = Len(policies) + 1
          /\ \A v \in 1..Len(policies) : policies'[v] = policies[v]
          /\ policies'[Len(policies) + 1] = d
      BY <2>2, <3>1
    <3>3. \A v \in 1..Len(policies') : v \in 1..Len(policies) \/ v = Len(policies) + 1
      BY <3>1, <3>2
    <3>4. ASSUME NEW v \in 1..Len(policies'), NEW w \in 1..Len(policies'),
                 policies'[v] = policies'[w]
          PROVE  v = w
      <4>1. CASE v = Len(policies) + 1
        BY <2>2, <3>2, <3>3, <3>4, <4>1
      <4>2. CASE w = Len(policies) + 1
        BY <2>2, <3>2, <3>3, <3>4, <4>2
      <4>3. CASE v \in 1..Len(policies) /\ w \in 1..Len(policies)
        BY <3>2, <3>4, <4>3
      <4> QED BY <3>3, <4>1, <4>2, <4>3
    <3>5. \A v \in 1..Len(policies) : v \in 1..Len(policies') /\ policies'[v] = policies[v]
      BY <3>1, <3>2
    <3> QED BY <3>4, <3>5
  <2> QED BY <2>1, <2>2, <1>1 DEF CommitPublish
<1>2. CASE UNCHANGED policies
  BY <1>2
<1>3. ASSUME CPNext, ~\E d \in Documents : CommitPublish(d) PROVE UNCHANGED policies
  BY <1>3 DEF CPNext, GrantRole, AuthorizePublish, AuthorizeActivate, SignApproval,
              ApproveActivate, CommitActivate, Allow
<1> QED BY <1>1, <1>2, <1>3 DEF cpVars

LEMMA DigestsInit == CPInit => DigestsUnique
  BY ControlPlaneAssumption DEF CPInit, DigestsUnique

\* A policy root names one version for ever, in every deployment.
THEOREM PoliciesAreImmutable == CPSpec => PoliciesImmutable
<1>1. CPTypeOK /\ DigestsUnique /\ [CPNext]_cpVars => DigestsUnique'
  BY PoliciesStep
<1>2. CPTypeOK /\ DigestsUnique /\ [CPNext]_cpVars =>
         [/\ \A v \in 1..Len(policies) : v <= Len(policies') /\ policies'[v] = policies[v]
          /\ \A v, w \in 1..Len(policies') : policies'[v] = policies'[w] => v = w]_cpVars
  BY PoliciesStep DEF DigestsUnique
<1> QED
  BY <1>1, <1>2, CPTypeCorrect, DigestsInit, PTL DEF CPSpec, PoliciesImmutable

-----------------------------------------------------------------------------
(* Rollbacks *)

\* A rollback that passed its quorum check and is not written yet is, and stays,
\* backed by the signatures of a threshold of governors.
RollbacksBacked ==
    \A operation \in pending :
        operation.op = "activate" /\ operation.action = "rollback" =>
            /\ operation.version \in 1..Len(policies)
            /\ Cardinality(RollbackSigners(operation.version)) >= Threshold

LEMMA SignersFinite ==
    ASSUME NEW v
    PROVE  IsFiniteSet(RollbackSigners(v)) /\ Cardinality(RollbackSigners(v)) \in Nat
  BY FS_Subset, FS_CardinalityType, ControlPlaneAssumption DEF RollbackSigners

\* Signatures are never lost: publishing and signing only add to what they cover.
LEMMA SignersGrow ==
    ASSUME CPTypeOK, DigestsUnique, [CPNext]_cpVars, NEW v \in 1..Len(policies)
    PROVE  /\ RollbackSigners(v) \subseteq RollbackSigners(v)'
           /\ Cardinality(RollbackSigners(v)) <= Cardinality(RollbackSigners(v)')
<1>1. policies'[v] = policies[v]
  BY PoliciesStep
<1>2. approvals \subseteq approvals'
  BY DEF CPNext, GrantRole, AuthorizePublish, CommitPublish, AuthorizeActivate,
         SignApproval, ApproveActivate, CommitActivate, Allow, cpVars
<1>3. RollbackSigners(v) \subseteq RollbackSigners(v)'
  BY <1>1, <1>2 DEF RollbackSigners
<1>4. IsFiniteSet(RollbackSigners(v)')
  BY FS_Subset, ControlPlaneAssumption DEF RollbackSigners
<1> QED BY <1>3, <1>4, FS_Subset

\* A quorum over a bundle of approvals of one version's digest for one statement
\* (verify_quorum) consists of governors that signed that very statement.
LEMMA QuorumSigned ==
    ASSUME NEW v, NEW bundle \in SUBSET {a \in approvals : a.statement.digest = policies[v]},
           NEW statement \in {a.statement : a \in bundle},
           QuorumMet(bundle, statement), statement.version = v, statement.action = "rollback"
    PROVE  Cardinality(RollbackSigners(v)) >= Threshold
<1>1. Signers(bundle, statement) \subseteq RollbackSigners(v)
  <2> SUFFICES ASSUME NEW g \in Signers(bundle, statement) PROVE g \in RollbackSigners(v)
    OBVIOUS
  <2>1. PICK a \in bundle : a.signer = g /\ a.statement = statement
    BY DEF Signers
  <2> QED BY <2>1 DEF RollbackSigners, Signers
<1>2. Cardinality(Signers(bundle, statement)) <= Cardinality(RollbackSigners(v))
  BY <1>1, SignersFinite, FS_Subset
<1>3. Cardinality(Signers(bundle, statement)) \in Nat
  BY <1>1, SignersFinite, FS_Subset, FS_CardinalityType
<1>4. Cardinality(Signers(bundle, statement)) >= Threshold
  BY DEF QuorumMet
<1> QED BY <1>2, <1>3, <1>4, SignersFinite, ControlPlaneAssumption

\* No step lets an unbacked rollback pend (activate_policy_with_quorum).
LEMMA RollbacksStep ==
    ASSUME CPTypeOK, DigestsUnique, RollbacksBacked, [CPNext]_cpVars
    PROVE  RollbacksBacked'
<1>1. SUFFICES ASSUME NEW operation \in pending',
                      operation.op = "activate", operation.action = "rollback"
               PROVE  /\ operation.version \in 1..Len(policies')
                      /\ Cardinality(RollbackSigners(operation.version)') >= Threshold
  BY DEF RollbacksBacked
<1> DEFINE w == operation.version
<1>2. CASE operation \in pending
  <2>1. w \in 1..Len(policies) /\ Cardinality(RollbackSigners(w)) >= Threshold
    BY <1>1, <1>2 DEF RollbacksBacked
  <2>2. w \in 1..Len(policies')
    BY <2>1, PoliciesStep
  <2>3. IsFiniteSet(RollbackSigners(w)')
    BY FS_Subset, ControlPlaneAssumption DEF RollbackSigners
  <2>4. Cardinality(RollbackSigners(w)') \in Nat
    BY <2>3, FS_CardinalityType
  <2> QED BY <2>1, <2>2, <2>4, SignersGrow, SignersFinite, ControlPlaneAssumption
<1>3. CASE operation \notin pending
  <2>1. PICK v \in 1..Len(policies) :
          \E bundle \in SUBSET {a \in approvals : a.statement.digest = policies[v]} :
             ApproveActivate(v, bundle)
    <3>1. ASSUME NEW p \in Principals, NEW r \in Roles, GrantRole(p, r) PROVE FALSE
      BY <3>1, <1>1, <1>3 DEF GrantRole
    <3>2. ASSUME NEW p \in Principals, NEW d \in Documents, AuthorizePublish(p, d) PROVE FALSE
      BY <3>2, <1>1, <1>3 DEF AuthorizePublish, Allow
    <3>3. ASSUME NEW d \in Documents, CommitPublish(d) PROVE FALSE
      BY <3>3, <1>1, <1>3 DEF CommitPublish
    <3>4. ASSUME NEW p \in Principals, NEW v \in Versions, AuthorizeActivate(p, v) PROVE FALSE
      BY <3>4, <1>1, <1>3 DEF AuthorizeActivate, Allow
    <3>5. ASSUME NEW g \in Governors, NEW v \in Versions, NEW a \in Signable,
                 SignApproval(g, v, a)
          PROVE  FALSE
      BY <3>5, <1>1, <1>3 DEF SignApproval
    <3>6. ASSUME NEW other \in pending, CommitActivate(other) PROVE FALSE
      BY <3>6, <1>1, <1>3 DEF CommitActivate
    <3>7. CASE UNCHANGED cpVars
      BY <3>7, <1>1, <1>3 DEF cpVars
    <3> QED BY <3>1, <3>2, <3>3, <3>4, <3>5, <3>6, <3>7 DEF CPNext
  <2>2. PICK bundle \in SUBSET {a \in approvals : a.statement.digest = policies[v]} :
           ApproveActivate(v, bundle)
    BY <2>1
  <2>3. PICK statement \in {a.statement : a \in bundle} :
          /\ QuorumMet(bundle, statement)
          /\ statement.version = v
          /\ Allow([op |-> "activate", version |-> v, action |-> statement.action])
    BY <2>2 DEF ApproveActivate
  <2>4. operation = [op |-> "activate", version |-> v, action |-> statement.action]
    BY <2>3, <1>3 DEF Allow
  <2>5. w = v /\ statement.action = "rollback"
    BY <2>4, <1>1
  <2>6. Cardinality(RollbackSigners(v)) >= Threshold
    BY <2>3, <2>5, QuorumSigned
  <2>7. UNCHANGED <<policies, approvals>>
    BY <2>3 DEF Allow
  <2> QED BY <2>5, <2>6, <2>7 DEF RollbackSigners
<1> QED BY <1>2, <1>3

\* Only the write of a pending activation lowers the active version, and there
\* _activate_policy takes the rollback quorum or refuses.
LEMMA LoweringStep ==
    ASSUME CPTypeOK, DigestsUnique, RollbacksBacked, [CPNext]_cpVars, active' < active
    PROVE  Cardinality(RollbackSigners(active')) >= Threshold
<1>1. PICK operation \in pending : CommitActivate(operation)
  <2>1. active \in Int
    BY DEF CPTypeOK
  <2>2. active' # active
    BY <2>1
  <2> QED
    BY <2>2 DEF CPNext, GrantRole, AuthorizePublish, CommitPublish, AuthorizeActivate,
                SignApproval, ApproveActivate, Allow, cpVars
<1>2. active' = operation.version /\ operation.action = "rollback" /\ operation.op = "activate"
  BY <1>1 DEF CommitActivate, Activation, CPTypeOK, Versions
<1> QED BY <1>1, <1>2 DEF RollbacksBacked

\* However checks and writes of activations, publications, grants and signatures
\* interleave, the active version goes down only with a governor quorum.
THEOREM RollbackQuorum == CPSpec => RollbackNeedsQuorum
<1> DEFINE IInv == DigestsUnique /\ RollbacksBacked
<1>1. CPInit => IInv
  BY DigestsInit DEF CPInit, RollbacksBacked
<1>2. CPTypeOK /\ CPTypeOK' /\ IInv /\ [CPNext]_cpVars => IInv'
  BY PoliciesStep, RollbacksStep
<1>3. CPTypeOK /\ IInv /\ [CPNext]_cpVars =>
         [active' < active => Cardinality(RollbackSigners(active')) >= Threshold]_cpVars
  BY LoweringStep
<1> QED
  BY <1>1, <1>2, <1>3, CPTypeCorrect, PTL DEF CPSpec, RollbackNeedsQuorum

=============================================================================
