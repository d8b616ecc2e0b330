------------------------------ MODULE MCPilot ------------------------------
(***************************************************************************)
(* Small deployments of the pilot control plane for TLC.  One principal    *)
(* per pilot role that acts here; documents, heads, nonces and threads are *)
(* model values.                                                           *)
(***************************************************************************)
EXTENDS PilotExecution, TLC

CONSTANTS verifier, executor, reconciler, governor,
          t1, t2, server1, server2, p1, p2, n1, n2, h1, h2, d1, d2, g1

Minters == {verifier, executor}
MinterRoles == verifier :> "verifier" @@ executor :> "executor"
Reconcilers == {verifier, executor, reconciler}
ReconcilerRoles == MinterRoles @@ reconciler :> "reconciler"
MCPrincipals == {verifier, executor, reconciler, governor}
MCInitialRoles == ReconcilerRoles @@ governor :> "governor"
NoGrants == {}
ExecutorGrants == {<<executor, "executor">>, <<executor, "auditor">>}
OneDocument == {d1}
TwoDocuments == {d1, d2}
OnePolicy == <<d1>>
TwoPolicies == <<d1, d2>>
OneGovernor == {g1}
NothingAudited == {}
ExecutionsAudited == {"execute"}
NothingSigned == {}
RollbackOnly == {"rollback"}

TwoThreads == {t1, t2}
OneThread == {t1}
OneServer == {server1}
TwoServers == {server1, server2}
SameHost == [t \in TwoThreads |-> server1]
SingleHost == [t \in OneThread |-> server1]
OwnHost == t1 :> server1 @@ t2 :> server2

OnePermit == {p1}
TwoPermits == {p1, p2}
OneNonce == {n1}
TwoNonces == {n1, n2}
OneHead == {h1}
TwoHeads == {h1, h2}

AnsweredFaults == {"unavailable", "timeout", "gateway", "server_error"}
AmbiguousFaults == {"timeout"}
LostAnswers == {"timeout", "unreachable", "garbled"}
InterruptingFaults == {"timeout", "garbled"}

RemoteSymmetry == Permutations(TwoPermits) \union Permutations(TwoNonces)
LocalSymmetry == Permutations(TwoThreads) \union RemoteSymmetry
=============================================================================
