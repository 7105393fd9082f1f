--------------------------- MODULE AcceptedHistory ---------------------------
(***************************************************************************)
(* What the store promises its callers, with every commit one atomic step: *)
(* a publisher's accepted state only ever moves to a verified child of     *)
(* itself whose whole object graph is stored, objects are never lost, and  *)
(* each accepted transition is reported as newly applied at most once.     *)
(***************************************************************************)
EXTENDS SignedHistory

VARIABLES
    head,      \* head[p]: the accepted transition of publisher p
    objects,   \* the objects the repository holds
    reported   \* the transitions some caller was told it applied

Init ==
    /\ head = [p \in Publisher |-> None]
    /\ objects = {}
    /\ reported = {}

Receive ==
    /\ \E S \in SUBSET Object : objects' = objects \cup S
    /\ UNCHANGED <<head, reported>>

(* A commit may bring the objects its caller put into the quarantine.      *)
Accept(p, t) ==
    /\ SignedFor(t, Selection[p])
    /\ Extends(t, head[p])
    /\ \E S \in SUBSET Object : objects' = objects \cup S
    /\ Reach(Targets(t)) \subseteq objects'
    /\ head' = [head EXCEPT ![p] = t]
    /\ UNCHANGED reported

Report(t) ==
    /\ t \notin reported
    /\ reported' = reported \cup {t}
    /\ t \in Lineage(head[Payload[t].publisher])
    /\ UNCHANGED <<head, objects>>

Next ==
    \/ Receive
    \/ \E p \in Publisher, t \in Transition : Accept(p, t)
    \/ \E t \in Transition : Report(t)

Spec == Init /\ [][Next]_<<head, objects, reported>>
=============================================================================
