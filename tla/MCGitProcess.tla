---------------------------- MODULE MCGitProcess ----------------------------
(* All calls with sizes below, at and above a pipe and the limits. *)
EXTENDS GitProcess

Amount(early, total) == [early |-> early, total |-> total]

OutAmounts == {Amount(0, 0), Amount(0, 2), Amount(0, 3), Amount(0, 4), Amount(1, 2), Amount(2, 3)}

ErrAmounts == {Amount(0, 0), Amount(1, 1), Amount(2, 2), Amount(0, 3)}

MCCall ==
    {[mode |-> m, input |-> n, success |-> s,
      early |-> [k \in Stream |-> IF k = "out" THEN o.early ELSE e.early],
      total |-> [k \in Stream |-> IF k = "out" THEN o.total ELSE e.total]] :
        m \in {"bounded", "execute", "run"}, n \in {0, 1, 2}, s \in BOOLEAN,
        o \in OutAmounts, e \in ErrAmounts}
=============================================================================
