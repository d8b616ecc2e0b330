---------------------------- MODULE ConsumedFirst ----------------------------
(***************************************************************************)
(* What every path to an effect promises, with no caller, database or      *)
(* ledger in sight: authority is consumed before the side effect           *)
(* (README.md:18, SECOND_EXECUTION_DOMAIN.md:47), never twice, there is at *)
(* most one effect under it, and what is said of it is said once, after    *)
(* which nothing more is done.                                             *)
(***************************************************************************)
EXTENDS Integers

CONSTANTS Keys,      \* what authority is for: permits, actions
          Outcomes,  \* what may be said of a key
          None       \* nothing, which is no outcome

VARIABLES consumed,  \* keys whose authority is consumed
          effects,   \* per key: how often the outside world was asked to act
          outcomes   \* per key: what is said of it, or None

consumptionVars == <<consumed, effects, outcomes>>

Init ==
    /\ consumed = {}
    /\ effects = [k \in Keys |-> 0]
    /\ outcomes = [k \in Keys |-> None]

Consume(k) ==
    /\ k \notin consumed
    /\ consumed' = consumed \union {k}
    /\ UNCHANGED <<effects, outcomes>>

Affect(k) ==
    /\ k \in consumed /\ effects[k] = 0 /\ outcomes[k] = None
    /\ effects' = [effects EXCEPT ![k] = 1]
    /\ UNCHANGED <<consumed, outcomes>>

\* Not every consumed key has an effect: a call may fail before it, or die.
Conclude(k) ==
    /\ k \in consumed /\ outcomes[k] = None
    /\ \E outcome \in Outcomes : outcomes' = [outcomes EXCEPT ![k] = outcome]
    /\ UNCHANGED <<consumed, effects>>

Next == \E k \in Keys : Consume(k) \/ Affect(k) \/ Conclude(k)

Spec == Init /\ [][Next]_consumptionVars
=============================================================================
