------------------------------ MODULE Canonical ------------------------------
(***************************************************************************)
(* derive_canonical_head of styrene-git-core: the canonical default branch *)
(* is the commit that a threshold of delegates' verified states point to.  *)
(***************************************************************************)
EXTENDS SignedHistory, FiniteSets

CONSTANTS
    Delegate,       \* IdentityDocument.delegates
    Threshold,      \* IdentityDocument.threshold
    DefaultBranch   \* refs/heads/<IdentityDocument.default_branch>

(* IdentityDocument::validate. *)
ASSUME IdentityAssumption ==
    /\ Delegate \subseteq Publisher /\ IsFiniteSet(Delegate)
    /\ Threshold \in 1..Cardinality(Delegate)
    /\ DefaultBranch \in RefName

Retain == [kind |-> "retain", head |-> None]
NoAgreement == [kind |-> "no_agreement", head |-> None]
Diverged(o) == [kind |-> "diverged", head |-> o]
Advance(o) == [kind |-> "advance", head |-> o]

(* A mutant: every publisher has a vote. *)
VotersAnyone(states, o) == {p \in Publisher : RefsOf(states[p])[DefaultBranch] = o}

(* The delegates whose state, if it is among the states given, has the     *)
(* default branch at o.                                                    *)
Voters(states, o) == {d \in Delegate : RefsOf(states[d])[DefaultBranch] = o}

(* A mutant: one vote short is enough. *)
QualifyingOneShort(states) == {o \in Object : Cardinality(Voters(states, o)) + 1 >= Threshold}

Qualifying(states) == {o \in Object : Cardinality(Voters(states, o)) >= Threshold}

(* `git merge-base --is-ancestor' over the commits the store holds.        *)
IsDescendant(ancestor, descendant) == ancestor \in Reach({descendant})

(* A mutant: the candidate need not descend from the previous head. *)
DeriveCanonicalHeadUnguarded(states, previous) ==
    IF Cardinality(Qualifying(states)) # 1
    THEN IF previous # None THEN Retain ELSE NoAgreement
    ELSE Advance(CHOOSE o \in Qualifying(states) : TRUE)

DeriveCanonicalHead(states, previous) ==
    IF Cardinality(Qualifying(states)) # 1
    THEN IF previous # None THEN Retain ELSE NoAgreement
    ELSE LET candidate == CHOOSE o \in Qualifying(states) : TRUE IN
         IF previous = candidate THEN Retain
         ELSE IF previous # None /\ ~IsDescendant(previous, candidate) THEN Diverged(candidate)
         ELSE Advance(candidate)

(* A mutant: the decision is kept in place of its head. *)
HeadAfterWhole(decision, previous) == IF decision.kind = "advance" THEN decision ELSE previous

(* What the holder of `previous' holds after acting on the decision.       *)
HeadAfter(decision, previous) ==
    IF decision.kind = "advance" THEN decision.head ELSE previous
=============================================================================
