----------------------------- MODULE GitHubPull -----------------------------
(***************************************************************************)
(* The provider, as integrations/openclaw/github_adapter.py uses it: one   *)
(* pull request, read by GET and merged by PUT .../merge with the expected *)
(* head.  Other people push to the pull request and merge it.              *)
(*                                                                         *)
(* A PUT that was sent is decided by GitHub at some later time, or never;  *)
(* whether the sender still waits for the answer makes no difference to it.*)
(***************************************************************************)
EXTENDS Integers

CONSTANTS Heads,      \* head commits the pull request may have
          InitialHead,\* the one it has first
          PermitIds,  \* permits; a PUT is sent under a permit's hash
          Foreign,    \* the merge commit of anybody else's merge
          NoMerge,    \* the pull request is open
          MaxPushes   \* bound: pushes to the pull request

ASSUME PullAssumption ==
    /\ InitialHead \in Heads
    /\ Foreign \notin PermitIds
    /\ MaxPushes \in Nat

VARIABLES head,    \* current head commit of the pull request
          merge,   \* its merge: head merged and merge commit, or NoMerge
          puts,    \* what became of the PUT sent under each permit
          pushes   \* pushes so far

pullVars == <<head, merge, puts, pushes>>

\* A merge commit is named after the PUT that made it.
Commits == PermitIds \union {Foreign}
Merges == [head : Heads, sha : Commits]

PullTypeOK ==
    /\ head \in Heads
    /\ merge \in Merges \union {NoMerge}
    /\ puts \in [PermitIds -> {"none", "sent", "merged", "rejected"}]
    /\ pushes \in 0..MaxPushes

PullInit ==
    /\ head = InitialHead
    /\ merge = NoMerge
    /\ puts = [p \in PermitIds |-> "none"]
    /\ pushes = 0

Push(h) ==
    /\ merge = NoMerge /\ h # head /\ pushes < MaxPushes
    /\ head' = h
    /\ pushes' = pushes + 1
    /\ UNCHANGED <<merge, puts>>

ForeignMerge ==
    /\ merge = NoMerge
    /\ merge' = [head |-> head, sha |-> Foreign]
    /\ UNCHANGED <<head, puts, pushes>>

\* GitHub merges on a PUT only if the pull request is open at the named head.
DecidePut(p, expectedHead) ==
    /\ puts[p] = "sent"
    /\ \/ /\ merge = NoMerge /\ head = expectedHead
          /\ puts' = [puts EXCEPT ![p] = "merged"]
          /\ merge' = [head |-> head, sha |-> p]
       \/ /\ puts' = [puts EXCEPT ![p] = "rejected"]
          /\ UNCHANGED merge
    /\ UNCHANGED <<head, pushes>>

\* The adapter sends the PUT.
SendPut(p) ==
    /\ puts' = [puts EXCEPT ![p] = "sent"]
    /\ UNCHANGED <<head, merge, pushes>>

Others == (\E h \in Heads : Push(h)) \/ ForeignMerge

=============================================================================
