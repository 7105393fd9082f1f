----------------------------- MODULE MCIpcClient -----------------------------
(***************************************************************************)
(* A session of at most MaxId requests, with a request of every kind that  *)
(* the helper and the synchronization client send.                         *)
(***************************************************************************)
EXTENDS IpcClient

CONSTANTS repo, view, op, none

Small == [a \in Amounts |-> 1]
Body(kind, subject, amount) ==
    [kind |-> kind, repository |-> IF kind = "capabilities" THEN none ELSE repo,
     subject |-> subject, amount |-> amount]

(* Requests of the helper and of the synchronization client, one push that *)
(* is too large to encode, and one page above its limit.                   *)
SessionBodies ==
    {Body("capabilities", none, Small), Body("refs", view, Small), Body("push_refs", none, Small),
     Body("fetch", view, Small), Body("push", none, Small),
     Body("push", none, [Small EXCEPT !["request"] = 2]),
     Body("synchronize", view, Small), Body("operation", op, Small), Body("cancel", op, Small),
     Body("observations", op, [Small EXCEPT !["page"] = 2])}

Grant(granted) == [granted |-> granted, limits |-> Small, valid |-> TRUE]

SessionGrants ==
    {Grant({"read", "write_own", "synchronize", "read_operations", "cancel"}),
     Grant({"read", "read_operations"}), [Grant({}) EXCEPT !.valid = FALSE]}
=============================================================================
