--------------------------- MODULE MCControlPlane ---------------------------
(***************************************************************************)
(* A small control plane: one governor principal and one learner that may  *)
(* be re-granted, three governor keys with a 2-of-3 quorum, two documents. *)
(***************************************************************************)
EXTENDS ControlPlane, TLC

CONSTANTS alice, bob, g1, g2, g3, d1, d2

MCPrincipals == {alice, bob}
MCRoles == alice :> "governor" @@ bob :> "learner"
MCGrantable == {<<alice, "governor">>, <<alice, "auditor">>}
MCGovernors == {g1, g2, g3}
MCDocuments == {d1, d2}
NoPolicies == <<>>
MCSignable == {"promote", "rollback"}
MCSymmetry == Permutations(MCGovernors)
=============================================================================
