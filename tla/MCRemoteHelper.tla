--------------------------- MODULE MCRemoteHelper ---------------------------
(* RemoteHelper on a root, two branches of it and a commit on top of one. *)
EXTENDS RemoteHelper, TLC

CONSTANTS root, left, right, tip, main, topic, copy1, copy2

MCCommit == {root, left, right, tip}

MCAncestors ==
    (root :> {root}) @@ (left :> {root, left}) @@ (right :> {root, right}) @@ (tip :> {root, left, tip})

LineCommit == {root, left, tip}
LineAncestors == (root :> {root}) @@ (left :> {root, left}) @@ (tip :> {root, left, tip})

Command(destination, force, deletes) ==
    [destination |-> destination, force |-> force, deletes |-> deletes]

(* Forced and unforced updates, a batch of two, a deletion, and one        *)
(* destination named twice.                                                *)
PushBatches ==
    {{Command(main, TRUE, FALSE)},
     {Command(main, FALSE, FALSE), Command(topic, FALSE, FALSE)},
     {Command(topic, FALSE, TRUE)},
     {Command(main, TRUE, FALSE), Command(main, FALSE, FALSE)}}

CreateBatches == {{Command(main, FALSE, FALSE)}, {Command(topic, FALSE, FALSE)}}

CopySymmetry == Permutations({copy1, copy2})
=============================================================================
