-------------------------- MODULE MCPublisherStore --------------------------
(***************************************************************************)
(* Small instances of PublisherStore.  One publisher has two rival root    *)
(* transitions and two rival children, which add, keep and delete refs;    *)
(* another one has the same objects.  The calls include ones that must     *)
(* fail: a forged signature, another's namespace, an incomplete            *)
(* quarantine and a binding that is another's.                              *)
(***************************************************************************)
EXTENDS PublisherStore, TLC

CONSTANTS alice, bob, o1, o2, o3, main, dev, here, none,
          a1, a1b, a2, a2b, a3, wrapped, forged

MCPublisher == {alice, bob}
MCOnePublisher == {alice}
MCObject == {o1, o2, o3}
MCRefName == {main, dev}

(* o2 is a commit on o1, o3 one on o2. *)
MCLinks == [o \in MCObject |-> CASE o = o1 -> {} [] o = o2 -> {o1} [] o = o3 -> {o2}]

Key(p) == <<"key", p>>
MCSelection == [p \in MCPublisher |-> [identity |-> p, epoch |-> 0, key |-> Key(p)]]

Refs(m, d) == [r \in RefName |-> IF r = main THEN m ELSE d]

Signed(p, parent, sequence, refs) ==
    [repository |-> here, publisher |-> p, epoch |-> 0, key |-> Key(p),
     parent |-> parent, sequence |-> sequence, refs |-> refs]

PayloadOf(t) ==
    CASE t = a1 -> Signed(alice, none, 0, Refs(o1, none))
      [] t = a1b -> Signed(alice, none, 0, Refs(o1, o1))
      [] t = a2 -> Signed(alice, a1, 1, Refs(o2, none))
      [] t = a2b -> Signed(alice, a1, 1, Refs(none, o3))
      [] t = a3 -> Signed(alice, a2b, 2, Refs(o3, none))
      [] t = wrapped -> Signed(alice, a3, 0, Refs(o3, none))
      [] t = forged -> [Signed(alice, a1, 1, Refs(none, o2)) EXCEPT !.key = Key(bob)]

Offer(t, p, objects) ==
    [repository |-> here, transition |-> t, selected |-> p,
     binding |-> MCSelection[p], objects |-> objects]

(* Forks at the root and at the first child, deletions, a forged signature,*)
(* another's namespace, another's binding, and a child of a3, which has    *)
(* the last sequence, that starts over at 0.  The quarantine of a2b lacks  *)
(* o2, so that it is complete only after the rival a2 promoted its objects.*)
ForkTransition == {a1, a1b, a2, a2b, a3, wrapped, forged}
ForkPayload == [t \in ForkTransition |-> PayloadOf(t)]
ForkCalls ==
    {Offer(a1, alice, {o1}), Offer(a1b, alice, {o1}), Offer(a2, alice, {o2}),
     Offer(a2b, alice, {o3}), Offer(a3, alice, {o3}), Offer(wrapped, alice, {o3}),
     Offer(a1, bob, {o1}), Offer(forged, alice, {o2}),
     [Offer(a1, alice, {o1}) EXCEPT !.binding = MCSelection[bob]]}

(* A root and a child that deletes main, for the faults. *)
FaultTransition == {a1, a2b}
FaultPayload == [t \in FaultTransition |-> PayloadOf(t)]
FaultCalls == {Offer(a1, alice, {o1}), Offer(a2b, alice, {o2, o3})}

(* One transition, delivered by everybody. *)
OneTransition == {a1}
OnePayload == [t \in OneTransition |-> PayloadOf(t)]
OneCalls == {Offer(a1, alice, {o1})}

Symmetry == Permutations(Caller)
=============================================================================
