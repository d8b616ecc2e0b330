---------------------------- MODULE ControlPlane ----------------------------
(***************************************************************************)
(* proofrail/control_plane.py: the authority database of one tenant, for   *)
(* one policy name (every statement of that module is keyed by tenant and  *)
(* policy name, so tenants and names do not interact).                     *)
(*                                                                         *)
(* Every operation is two separate SQLite transactions: the check          *)
(* (authorize, or the governor quorum over the target version) and the     *)
(* write.  Between the two, `pending' remembers what has been allowed.     *)
(***************************************************************************)
EXTENDS Integers, Sequences, FiniteSets, Rbac

CONSTANTS Principals,    \* principals of the tenant
          InitialRoles,  \* the roles the deployment starts with
          InitialPolicies, \* the policies published before, the last one active
          Grantable,     \* the <<principal, role>> pairs grant_role is called with
          Governors,     \* the trusted governor signers
          Threshold,     \* governor approvals needed, the M of M-of-N
          Signable,      \* what governors are willing to sign
          Documents,     \* digests of the policy documents that may be published
          MaxPending     \* bound: operations between their check and their write

ASSUME ControlPlaneAssumption ==
    /\ InitialRoles \in [Principals -> Roles \union {Unknown}]
    /\ Grantable \subseteq Principals \X Roles
    /\ InitialPolicies \in Seq(Documents)
    /\ \A v, w \in DOMAIN InitialPolicies :
          InitialPolicies[v] = InitialPolicies[w] => v = w
    /\ Signable \subseteq {"promote", "rollback"}
    /\ IsFiniteSet(Governors)
    /\ Threshold \in 1..Cardinality(Governors)
    /\ IsFiniteSet(Documents)
    /\ MaxPending \in Nat

VARIABLES roles,      \* principals table: [Principals -> Roles or Unknown]
          policies,   \* policies table: digest of version v at position v
          active,     \* the version whose row has active = 1; 0 when none
          pending,    \* operations that passed their check, not yet written
          approvals   \* governor approvals signed so far

cpVars == <<roles, policies, active, pending, approvals>>

-----------------------------------------------------------------------------
Versions == 1..Cardinality(Documents)

\* The statement governors sign for a version: which digest, and to do what.
Statements == [version : Versions, digest : Documents,
               action : {"promote", "rollback"}]
Approvals == [signer : Governors, statement : Statements]

\* What a caller holds between its check and its write.
Publication == [op : {"publish"}, digest : Documents]
Activation == [op : {"activate"}, version : Versions,
               action : {"promote", "rollback"}]

CPTypeOK ==
    /\ roles \in [Principals -> Roles \union {Unknown}]
    /\ policies \in Seq(Documents)
    /\ active \in 0..Len(policies)
    /\ pending \subseteq Publication \union Activation
    /\ approvals \subseteq Approvals

CPInit ==
    /\ roles = InitialRoles
    /\ policies = InitialPolicies
    /\ active = Len(InitialPolicies)
    /\ pending = {}
    /\ approvals = {}

\* identity_root: the digest of the whole principals table of the tenant.
IdentityRoot(table) == [principals |-> table]

-----------------------------------------------------------------------------
\* grant_role: an upsert of one row; there is no revocation but another grant.
GrantRole(p, r) ==
    /\ <<p, r>> \in Grantable
    /\ roles' = [roles EXCEPT ![p] = r]
    /\ UNCHANGED <<policies, active, pending, approvals>>

Allow(operation) ==
    /\ Cardinality(pending) < MaxPending
    /\ pending' = pending \union {operation}
    /\ UNCHANGED <<roles, policies, active, approvals>>

\* publish_policy, its role check.
AuthorizePublish(p, d) ==
    /\ Can(roles[p], "policy:publish")
    /\ Allow([op |-> "publish", digest |-> d])

\* Slip: the digest is not unique.
CommitPublishAgain(d) ==
    LET operation == [op |-> "publish", digest |-> d] IN
    /\ operation \in pending
    /\ Len(policies) < Cardinality(Documents)
    /\ pending' = pending \ {operation}
    /\ policies' = Append(policies, d)
    /\ UNCHANGED <<roles, active, approvals>>

\* publish_policy, its transaction: the next version number; a digest already
\* published violates UNIQUE(tenant_id, policy_name, digest) and rolls back.
CommitPublish(d) ==
    LET operation == [op |-> "publish", digest |-> d]
        duplicate == \E v \in 1..Len(policies) : policies[v] = d IN
    /\ operation \in pending
    /\ pending' = pending \ {operation}
    /\ policies' = IF duplicate THEN policies ELSE Append(policies, d)
    /\ UNCHANGED <<roles, active, approvals>>

\* activate_policy, its role check.
AuthorizeActivate(p, v) ==
    /\ Can(roles[p], "policy:activate")
    /\ Allow([op |-> "activate", version |-> v, action |-> "promote"])

\* A governor signs one statement about a published version (sign_attestation).
SignApproval(g, v, a) ==
    /\ v \in 1..Len(policies)
    /\ approvals' = approvals \union
         {[signer |-> g,
           statement |-> [version |-> v, digest |-> policies[v], action |-> a]]}
    /\ UNCHANGED <<roles, policies, active, pending>>

\* verify_quorum over the approvals the caller presents, for one subject digest:
\* a signer that signed two statements is excluded, and the presented bundle
\* must hold at most one group that reaches the threshold.
Signers(bundle, statement) ==
    {g \in Governors : {a.statement : a \in {b \in bundle : b.signer = g}} = {statement}}
QuorumMet(bundle, statement) ==
    /\ Cardinality(Signers(bundle, statement)) >= Threshold
    /\ \A other \in {a.statement : a \in bundle} \ {statement} :
          Cardinality(Signers(bundle, other)) < Threshold

\* activate_policy_with_quorum up to its call of _activate_policy: the target
\* row is read, and the approvals must agree on a statement about that row.
\* Approvals carry no freshness, so the same bundle can be presented again.
\* verify_quorum skips approvals of another subject: the bundle holds none.
ApproveActivate(v, bundle) ==
    /\ v \in 1..Len(policies)
    /\ \E statement \in {a.statement : a \in bundle} :
          /\ QuorumMet(bundle, statement)
          /\ statement.version = v
          /\ Allow([op |-> "activate", version |-> v, action |-> statement.action])

\* Slip: an older version is activated like any other.
CommitActivateStale(operation) ==
    /\ operation \in pending \intersect Activation
    /\ pending' = pending \ {operation}
    /\ active' = IF operation.version \in 1..Len(policies) THEN operation.version ELSE active
    /\ UNCHANGED <<roles, policies, approvals>>

\* Slip: the version row is not looked up.
CommitActivateUnseen(operation) ==
    /\ operation \in pending \intersect Activation
    /\ pending' = pending \ {operation}
    /\ active' = IF operation.version < active /\ operation.action # "rollback"
                 THEN active ELSE operation.version
    /\ UNCHANGED <<roles, policies, approvals>>

\* _activate_policy, one transaction: a version below the active one needs the
\* rollback quorum, an unknown version is refused, the index keeps one row active.
CommitActivate(operation) ==
    LET stale   == active # 0 /\ operation.version < active /\ operation.action # "rollback"
        missing == operation.version \notin 1..Len(policies) IN
    /\ operation \in pending \intersect Activation
    /\ pending' = pending \ {operation}
    /\ active' = IF stale \/ missing THEN active ELSE operation.version
    /\ UNCHANGED <<roles, policies, approvals>>

CPNext ==
    \/ \E p \in Principals, r \in Roles : GrantRole(p, r)
    \/ \E p \in Principals, d \in Documents : AuthorizePublish(p, d)
    \/ \E d \in Documents : CommitPublish(d)
    \/ \E p \in Principals, v \in Versions : AuthorizeActivate(p, v)
    \/ \E g \in Governors, v \in Versions, a \in Signable : SignApproval(g, v, a)
    \/ \E v \in 1..Len(policies) :
          \E bundle \in SUBSET {a \in approvals : a.statement.digest = policies[v]} :
             ApproveActivate(v, bundle)
    \/ \E operation \in pending : CommitActivate(operation)

CPSpec == CPInit /\ [][CPNext]_cpVars

-----------------------------------------------------------------------------
\* Governors whose signature on a rollback to version v exists.
RollbackSigners(v) ==
    {g \in Governors : \E a \in approvals :
        /\ a.signer = g
        /\ a.statement.version = v
        /\ a.statement.digest = policies[v]
        /\ a.statement.action = "rollback"}

\* The active policy version decreases only to a version a threshold of governors
\* signed a rollback for (_activate_policy, whose check must sit inside the same
\* transaction as its write: two promotions may be allowed at once).
RollbackNeedsQuorum ==
    [][active' < active => Cardinality(RollbackSigners(active')) >= Threshold]_cpVars

\* A published version never changes its digest, and no digest has two versions:
\* a policy root names one version for ever (publish_policy).
PoliciesImmutable ==
    [][/\ \A v \in 1..Len(policies) : v <= Len(policies') /\ policies'[v] = policies[v]
       /\ \A v, w \in 1..Len(policies') : policies'[v] = policies'[w] => v = w]_cpVars

=============================================================================
