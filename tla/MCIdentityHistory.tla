-------------------------- MODULE MCIdentityHistory --------------------------
(* Three identities, of which one may get a second key. *)
EXTENDS IdentityHistory, TLC

CONSTANTS alice, bob, carol

Doc(delegates, listed, threshold) ==
    [delegates |-> delegates, listed |-> listed, threshold |-> threshold]

(* Two of three at the beginning; then the same again, without alice, or   *)
(* carol alone; and a list with a delegate twice, which does not validate. *)
MCFounding == Doc({alice, bob, carol}, 3, 2)
MCDocument == {MCFounding, Doc({bob, carol}, 2, 2), Doc({carol}, 1, 1), Doc({alice}, 2, 2)}

MCLastEpoch == [i \in Identity |-> IF i = carol THEN 1 ELSE 0]

MCKeyOf == [i \in Identity |-> [e \in 0 .. MCLastEpoch[i] |-> <<i, e>>]]

DraftSymmetry == Permutations(Draft) \cup Permutations(Verifier)
=============================================================================
