----------------------- MODULE SingleUseAuthority_proofs -----------------------
(***************************************************************************)
(* What follows from the promise of the authority object alone, for any    *)
(* permits and outcomes: whatever implements it has these properties too.  *)
(*                                                                         *)
(* Inductive invariant:                                                    *)
(*    PastInv   a spent permit was granted against spent permits only, and *)
(*              of two spent permits one was granted against the other     *)
(***************************************************************************)
EXTENDS SingleUseAuthority, TLAPS

-----------------------------------------------------------------------------
(* It is consumed first *)

LEMMA AuthorityStepConsumes ==
    ASSUME [Next]_authorityVars
    PROVE  [Consumption!Next]_(Consumption!consumptionVars)
<1>1. CASE UNCHANGED authorityVars
  BY <1>1 DEF authorityVars, Consumption!consumptionVars
<1>2. ASSUME NEW p \in PermitIds, Grant(p)
      PROVE  UNCHANGED Consumption!consumptionVars
  BY <1>2 DEF Grant, Consumption!consumptionVars
<1>3. ASSUME NEW p \in PermitIds, Spend(p) PROVE Consumption!Consume(p)
  BY <1>3 DEF Spend, Consumption!Consume
<1>4. ASSUME NEW p \in PermitIds, Act(p) PROVE Consumption!Affect(p)
  BY <1>4 DEF Act, Consumption!Affect
<1>5. ASSUME NEW p \in PermitIds, Conclude(p) PROVE Consumption!Conclude(p)
  <2>1. PICK outcome \in Outcomes : said' = [said EXCEPT ![p] = {outcome}]
    BY <1>5 DEF Conclude
  <2> QED BY <1>5, <2>1 DEF Conclude, Consumption!Conclude
<1> QED BY <1>1, <1>2, <1>3, <1>4, <1>5 DEF Next, Consumption!Next

\* A permit of the authority is consumed before the action it backs, there is at most
\* one such action, and what is said of it is said once, after which nothing is done.
THEOREM AuthorityConsumesFirst == Spec => ConsumesFirst
<1>1. Init => Consumption!Init
  BY DEF Init, Consumption!Init
<1>2. [Next]_authorityVars => [Consumption!Next]_(Consumption!consumptionVars)
  BY AuthorityStepConsumes
<1> QED BY <1>1, <1>2, PTL DEF Spec, ConsumesFirst, Consumption!Spec

-----------------------------------------------------------------------------
(* Permits are spent in one line *)

\* Of two spent permits exactly one was granted when the other was spent already: no
\* two of them stand side by side on one past.
SpentInOneLine ==
    \A p, q \in spent : p # q => (p \in bound[q] <=> q \notin bound[p])

PastInv ==
    /\ spent \subseteq PermitIds
    /\ \A p \in spent : bound[p] \in SUBSET spent /\ p \notin bound[p]
    /\ SpentInOneLine
    /\ bound \in [PermitIds -> {None} \union SUBSET PermitIds]

\* What a permit was granted against stays, and so does the line up to it; and it is
\* only spent at its end.
THEOREM AuthorityIsOneLine ==
    ASSUME None \notin SUBSET PermitIds
    PROVE  Spec => []SpentInOneLine
<1>1. Init => PastInv
  BY DEF Init, PastInv, SpentInOneLine
<1>2. PastInv /\ [Next]_authorityVars => PastInv'
  <2> SUFFICES ASSUME PastInv, [Next]_authorityVars PROVE PastInv'
    OBVIOUS
  <2>1. ASSUME NEW p \in PermitIds, Grant(p) PROVE PastInv'
    <3>1. p \notin spent
      BY <2>1 DEF Grant, PastInv
    <3>2. PICK past \in SUBSET spent : bound' = [bound EXCEPT ![p] = past]
      BY <2>1 DEF Grant
    <3>3. spent' = spent /\ \A q \in spent : bound'[q] = bound[q]
      BY <2>1, <3>1, <3>2 DEF Grant, PastInv
    <3>4. bound' \in [PermitIds -> {None} \union SUBSET PermitIds]
      BY <3>2 DEF PastInv
    <3> QED BY <3>3, <3>4 DEF PastInv, SpentInOneLine
  <2>2. ASSUME NEW p \in PermitIds, Spend(p) PROVE PastInv'
    <3>1. /\ bound[p] = spent /\ p \notin spent
          /\ spent' = spent \union {p} /\ bound' = bound
      BY <2>2 DEF Spend
    <3>2. \A q \in spent : q \in bound[p] /\ p \notin bound[q]
      BY <3>1 DEF PastInv
    <3> QED BY <3>1, <3>2 DEF PastInv, SpentInOneLine
  <2>3. ASSUME NEW p \in PermitIds, Act(p) \/ Conclude(p) PROVE PastInv'
    BY <2>3 DEF Act, Conclude, PastInv, SpentInOneLine
  <2>4. CASE UNCHANGED authorityVars
    BY <2>4 DEF authorityVars, PastInv, SpentInOneLine
  <2> QED BY <2>1, <2>2, <2>3, <2>4 DEF Next
<1>3. PastInv => SpentInOneLine
  BY DEF PastInv
<1> QED BY <1>1, <1>2, <1>3, PTL DEF Spec
================================================================================
