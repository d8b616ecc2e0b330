-------------------------------- MODULE Rbac --------------------------------
(***************************************************************************)
(* The role table of proofrail/rbac.py and the role check every handler    *)
(* and every control-plane operation goes through.                         *)
(***************************************************************************)

\* PILOT_ROLE_PERMISSIONS: the seven roles of the pilot.
PilotRolePermissions ==
    [proposer   |-> {"intent:create", "evidence:create"},
     verifier   |-> {"evaluation:create", "permit:mint", "policy:read"},
     executor   |-> {"action:execute", "policy:read"},
     reconciler |-> {"outcome:reconcile", "audit:read", "policy:read"},
     learner    |-> {"proposal:create", "policy:read"},
     governor   |-> {"policy:publish", "policy:activate", "policy:read",
                     "audit:read"},
     auditor    |-> {"ledger:read", "checkpoint:read", "audit:read",
                     "audit:export", "policy:read"}]

\* LEGACY_ROLE_PERMISSIONS: three older roles; admin holds every pilot permission.
LegacyRolePermissions ==
    [admin    |-> UNION {PilotRolePermissions[r] :
                            r \in DOMAIN PilotRolePermissions},
     approver |-> {"policy:read", "action:approve", "audit:export"},
     operator |-> {"policy:read", "action:execute"}]

Roles == DOMAIN PilotRolePermissions \union DOMAIN LegacyRolePermissions

\* ROLE_PERMISSIONS: the pilot table extended by the legacy one.
RolePermissions ==
    [r \in Roles |->
        IF r \in DOMAIN LegacyRolePermissions THEN LegacyRolePermissions[r]
                                              ELSE PilotRolePermissions[r]]

\* The role PilotControlPlane gives a principal that has none.
Unknown == "unknown"

\* Principal.can: a role outside the table has no permission.
Can(role, permission) ==
    /\ role \in Roles
    /\ permission \in RolePermissions[role]

\* PERMIT_ISSUER_ROLES of permit.py: the roles mint_permit and verify_permit accept.
PermitIssuerRoles == {"verifier", "governor"}

=============================================================================
