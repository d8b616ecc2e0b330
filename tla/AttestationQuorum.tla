------------------------- MODULE AttestationQuorum -------------------------
(***************************************************************************)
(* proofrail/quorum.py: verify_quorum, which takes signed attestations and *)
(* finds the statement that enough of the trusted signers agree on.        *)
(*                                                                         *)
(* An attestation is valid if the signer is trusted in the role it names,  *)
(* kind and subject are the expected ones, the signature verifies and the  *)
(* statement has the hash it says; every other one is skipped.             *)
(***************************************************************************)
EXTENDS Integers, Sequences, FiniteSets

CONSTANTS Signers,      \* the trusted signers
          Statements,   \* what they may state
          Threshold     \* how many have to agree

ASSUME QuorumAssumption ==
    /\ IsFiniteSet(Signers)
    /\ Threshold \in 1..Cardinality(Signers)

Attestations == [signer : Signers, statement : Statements, valid : BOOLEAN]

\* The statements of a signer in valid attestations.
Stated(attestations, signer) ==
    {attestations[i].statement :
        i \in {j \in DOMAIN attestations :
                  attestations[j].valid /\ attestations[j].signer = signer}}

\* Signers that contradict themselves count for nothing.
EquivocalSigners(attestations) ==
    {s \in Signers : Cardinality(Stated(attestations, s)) > 1}

\* Slip: attestations that do not verify are counted.
GroupUnverified(attestations, statement) ==
    {s \in Signers : \E i \in DOMAIN attestations :
        attestations[i].signer = s /\ attestations[i].statement = statement}

\* The signers that state this and nothing else.
Group(attestations, statement) ==
    {s \in Signers : Stated(attestations, s) = {statement}}

Qualifies(attestations, statement) ==
    Cardinality(Group(attestations, statement)) >= Threshold

\* The result is met for the statement of the largest group, if that qualifies and
\* no other group does.
QuorumMetFor(attestations, statement) ==
    /\ Qualifies(attestations, statement)
    /\ \A other \in Statements \ {statement} : ~Qualifies(attestations, other)

QuorumMet(attestations) == \E st \in Statements : QuorumMetFor(attestations, st)
QuorumStatement(attestations) == CHOOSE st \in Statements : QuorumMetFor(attestations, st)

\* With fewer faulty signers than the threshold, a quorum is met only for what a
\* signer that is not faulty did state, whatever attestations are forged, repeated
\* or contradict each other.
Witnessed(attestations) ==
    QuorumMet(attestations) =>
        \A faulty \in SUBSET Signers : Cardinality(faulty) < Threshold =>
            \E s \in Signers \ faulty : QuorumStatement(attestations) \in Stated(attestations, s)
=============================================================================
