---------------------------- MODULE MCReplication ----------------------------
(***************************************************************************)
(* Small instances of Replication.  alice starts with the root commit c0,  *)
(* bob builds cb on it, and cx is a commit of bob's that descends from     *)
(* neither.                                                                *)
(***************************************************************************)
EXTENDS Replication, Sequences

CONSTANTS alice, bob, carol, c0, cb, cx, main, here, none

TwoPublishers == {alice, bob}
ThreePublishers == {alice, bob, carol}
MCRefName == {main}

MCLinks == [o \in Object |-> IF o = cb THEN {c0} ELSE {}]
MCAuthor == [o \in Object |-> IF o = c0 THEN alice ELSE bob]
MCEdition == [o \in Object |-> IF o = cx THEN 1 ELSE 0]

(* A transition is named by its publisher and the heads it went through:   *)
(* <<p, <<x, y>>>> has parent <<p, <<x>>>>.                                *)
Histories == UNION {[1..n -> Object] : n \in 1..(MaxSequence + 1)}
MCTransition == {<<p, h>> : p \in Publisher, h \in Histories}
Previous(h) == [i \in 1..(Len(h) - 1) |-> h[i]]

MCPayload ==
    [t \in MCTransition |->
        [repository |-> here, publisher |-> t[1], epoch |-> 0, key |-> <<"key", t[1]>>,
         parent |-> IF Len(t[2]) = 1 THEN none ELSE <<t[1], Previous(t[2])>>,
         sequence |-> Len(t[2]) - 1,
         refs |-> [r \in MCRefName |-> t[2][Len(t[2])]]]]

MCSelection == [p \in Publisher |-> [identity |-> p, epoch |-> 0, key |-> <<"key", p>>]]
=============================================================================
