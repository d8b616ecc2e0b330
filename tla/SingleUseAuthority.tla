------------------------- MODULE SingleUseAuthority -------------------------
(***************************************************************************)
(* What the authority object promises, with no server, thread, checkpoint  *)
(* or provider in sight (STATE_MACHINE.md, THREAT_MODEL.md): a permit is   *)
(* granted against the permits spent so far, it can be spent once and only *)
(* while exactly those are spent, and it backs at most one action, which   *)
(* comes after the spending.  One thing is said of it, after the action,   *)
(* and stays.                                                              *)
(***************************************************************************)
EXTENDS Integers

CONSTANTS PermitIds,
          Outcomes,   \* what may be said of a permit
          None        \* not a set of permits

VARIABLES bound,  \* per permit: the spent permits it was granted against, or None
          spent,  \* permits that are spent
          acts,   \* per permit: how often the outside world was asked to act
          said    \* per permit: nothing, or the one outcome that is said of it

authorityVars == <<bound, spent, acts, said>>

Init ==
    /\ bound = [p \in PermitIds |-> None]
    /\ spent = {}
    /\ acts = [p \in PermitIds |-> 0]
    /\ said = [p \in PermitIds |-> {}]

\* The past against which a permit is granted may be an old one: then the permit
\* is dead from the start, but it does no harm.
Grant(p) ==
    /\ bound[p] = None
    /\ \E past \in SUBSET spent : bound' = [bound EXCEPT ![p] = past]
    /\ UNCHANGED <<spent, acts, said>>

Spend(p) ==
    /\ bound[p] = spent /\ p \notin spent
    /\ spent' = spent \union {p}
    /\ UNCHANGED <<bound, acts, said>>

Act(p) ==
    /\ p \in spent /\ acts[p] = 0 /\ said[p] = {}
    /\ acts' = [acts EXCEPT ![p] = 1]
    /\ UNCHANGED <<bound, spent, said>>

\* A spent permit need not be concluded: the attempt may die.  The outcome is taken
\* from what is said then, so that nobody has to enumerate all that might be.
Conclude(p) ==
    /\ p \in spent /\ said[p] = {}
    /\ \E outcome \in said'[p] : /\ outcome \in Outcomes
                                /\ said' = [said EXCEPT ![p] = {outcome}]
    /\ UNCHANGED <<bound, spent, acts>>

Next == \E p \in PermitIds : Grant(p) \/ Spend(p) \/ Act(p) \/ Conclude(p)

Spec == Init /\ [][Next]_authorityVars

\* A single-use authority is consumed first: without the past a permit is bound to,
\* it is what the two integrations promise.
Consumption == INSTANCE ConsumedFirst WITH
    Keys <- PermitIds,
    Outcomes <- {{outcome} : outcome \in Outcomes},
    None <- {},
    consumed <- spent,
    effects <- acts,
    outcomes <- said
ConsumesFirst == Consumption!Spec
=============================================================================
