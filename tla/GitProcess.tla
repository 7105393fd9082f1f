----------------------------- MODULE GitProcess -----------------------------
(***************************************************************************)
(* A call of git and its three pipes, as the store makes it (git.rs of     *)
(* styrene-git-store: run_bounded and execute) and the remote helper does  *)
(* (git.rs of styrene-git-remote: GitCommand::run).  All three write the   *)
(* whole input before they read anything.  They differ in how they read:   *)
(* run_bounded takes the output, then the errors; execute takes both as    *)
(* they come; run leaves the errors to a thread of its own.                *)
(*                                                                         *)
(* Bytes are counted, not kept.  What is in a pipe is what one side has    *)
(* written and the other has not read yet.                                 *)
(***************************************************************************)
EXTENDS Naturals

CONSTANTS
    Call,        \* calls: mode, input, early, total output and errors, success
    Capacity,    \* what a pipe holds
    Limit,       \* max_output of run_bounded, max_output_bytes of run
    ErrorLimit   \* MAX_STDERR_BYTES of run

Stream == {"out", "err"}

(* early: what git writes at most while its input has not ended. *)
ASSUME CallAssumption ==
    /\ Capacity \in Nat \ {0} /\ Limit \in Nat /\ ErrorLimit \in Nat
    /\ \A c \in Call :
        /\ c.mode \in {"bounded", "execute", "run"}
        /\ c.input \in Nat
        /\ c.total \in [Stream -> Nat] /\ c.early \in [Stream -> Nat]
        /\ \A k \in Stream : c.early[k] <= c.total[k]
        /\ c.success \in BOOLEAN

VARIABLES
    call,      \* the call that is made
    pc,        \* the caller: "write", "read", "returned"
    given,     \* input the caller has written
    taken,     \* input git has read
    written,   \* what git has written to each stream
    got,       \* what the caller has read from each stream
    open,      \* the streams whose reading end the caller holds
    git,       \* "running", "leaving", "succeeded", "failed", "killed"
    reaped,    \* the caller has waited for git
    result     \* what the call returned

vars == <<call, pc, given, taken, written, got, open, git, reaped, result>>

caller == <<pc, given, got, open, reaped, result>>

Init ==
    /\ call \in Call
    /\ pc = "write" /\ given = 0 /\ taken = 0
    /\ written = [k \in Stream |-> 0] /\ got = [k \in Stream |-> 0]
    /\ open = Stream
    /\ git = "running" /\ reaped = FALSE /\ result = "none"

InPipe(k) == written[k] - got[k]

(* A git that is leaving has let go of its input, read or not, and may     *)
(* write yet; its process is still there.                                  *)
Alive == git \in {"running", "leaving"}

-----------------------------------------------------------------------------
(* git.  It has seen the end of its input once the caller let go of it.    *)

InputEnded == pc # "write" /\ taken = given

MayWrite(k) ==
    /\ Alive
    /\ written[k] < IF InputEnded THEN call.total[k] ELSE call.early[k]

GitReads ==
    /\ git = "running" /\ taken < given
    /\ taken' = taken + 1
    /\ UNCHANGED <<call, written, git>> /\ UNCHANGED caller

GitWrites(k) ==
    /\ MayWrite(k) /\ k \in open /\ InPipe(k) < Capacity
    /\ written' = [written EXCEPT ![k] = @ + 1]
    /\ UNCHANGED <<call, taken, git>> /\ UNCHANGED caller

(* Nobody reads the stream any more: SIGPIPE. *)
PipeBroken(k) ==
    /\ MayWrite(k) /\ k \notin open
    /\ git' = "failed"
    /\ UNCHANGED <<call, taken, written>> /\ UNCHANGED caller

GitExits ==
    /\ git = "running" /\ InputEnded /\ written = call.total
    /\ git' = IF call.success THEN "succeeded" ELSE "failed"
    /\ UNCHANGED <<call, taken, written>> /\ UNCHANGED caller

(* At any moment git may find something wrong: it reads no more, and its   *)
(* input is closed some time before its process has ended.                 *)
GitLeaves ==
    /\ git = "running"
    /\ git' = "leaving"
    /\ UNCHANGED <<call, taken, written>> /\ UNCHANGED caller

GitLeft ==
    /\ git = "leaving"
    /\ git' = "failed"
    /\ UNCHANGED <<call, taken, written>> /\ UNCHANGED caller

(* Others may kill it. *)
GitDies ==
    /\ git = "running"
    /\ git' = "failed"
    /\ UNCHANGED <<call, taken, written>> /\ UNCHANGED caller

-----------------------------------------------------------------------------
(* The caller: write_all, then read_to_end on the streams. *)

WriteInput ==
    /\ pc = "write" /\ given < call.input
    /\ git = "running" /\ given - taken < Capacity
    /\ given' = given + 1
    /\ UNCHANGED <<call, pc, taken, written, got, open, git, reaped, result>>

InputWritten ==
    /\ pc = "write" /\ given = call.input
    /\ pc' = "read"
    /\ UNCHANGED <<call, given, taken, written, got, open, git, reaped, result>>

(* Nobody holds the reading end of the input any more.  run kills git and  *)
(* waits for it; the store returns at once, and nobody waits for a child   *)
(* that may still be leaving.                                              *)
InputBroken ==
    /\ pc = "write" /\ given < call.input /\ git # "running"
    /\ pc' = "returned" /\ open' = {} /\ result' = "broken input"
    /\ reaped' = (call.mode = "run")
    /\ git' = IF call.mode = "run" /\ Alive THEN "killed" ELSE git
    /\ UNCHANGED <<call, given, taken, written, got>>

(* A mutant: run reads the errors after the output. *)
ReadingInTurn ==
    IF pc # "read" THEN {} ELSE IF call.mode # "execute" /\ "out" \in open THEN {"out"} ELSE open

(* The streams that are being read. *)
Reading ==
    IF pc # "read" THEN {} ELSE IF call.mode = "bounded" /\ "out" \in open THEN {"out"} ELSE open

Limited(k) == IF k = "out" THEN call.mode # "execute" ELSE call.mode = "run"

LimitOf(k) == IF k = "out" THEN Limit ELSE ErrorLimit

(* Mutants: the one byte that tells too much from enough is not read, or   *)
(* everything is.                                                          *)
TakesShort(k) == ~Limited(k) \/ got[k] < LimitOf(k)
TakesAll(k) == TRUE

(* take(limit + 1) *)
TakesMore(k) == ~Limited(k) \/ got[k] <= LimitOf(k)

TooMuch(k) == Limited(k) /\ got[k] > LimitOf(k)

Read(k) ==
    /\ k \in Reading /\ InPipe(k) > 0 /\ TakesMore(k)
    /\ got' = [got EXCEPT ![k] = @ + 1]
    /\ UNCHANGED <<call, pc, given, taken, written, open, git, reaped, result>>

(* A mutant: too much output is reported, but git is not killed. *)
EndReadSpares(k) ==
    /\ k \in Reading
    /\ ~TakesMore(k) \/ (~Alive /\ InPipe(k) = 0)
    /\ open' = open \ {k}
    /\ IF k = "out" /\ TooMuch(k) /\ call.mode = "bounded"
       THEN pc' = "returned" /\ result' = "output too large"
       ELSE UNCHANGED <<pc, result>>
    /\ UNCHANGED <<call, given, taken, written, got, git, reaped>>

(* read_to_end returns at the end of the stream or at the limit, and the   *)
(* reading end is dropped.  Too much output kills git; run_bounded then    *)
(* asks for the errors no more.  (Reading a pipe does not fail.)           *)
EndRead(k) ==
    /\ k \in Reading
    /\ ~TakesMore(k) \/ (~Alive /\ InPipe(k) = 0)
    /\ LET over == k = "out" /\ TooMuch(k)
       IN  /\ open' = IF over /\ call.mode = "bounded" THEN {} ELSE open \ {k}
           /\ git' = IF over /\ Alive THEN "killed" ELSE git
    /\ UNCHANGED <<call, pc, given, taken, written, got, reaped, result>>

Outcome ==
    IF TooMuch("out") THEN "output too large"
    ELSE IF TooMuch("err") THEN "errors too large"
    ELSE IF git = "succeeded" THEN "ok" ELSE "git failed"

(* wait, and join of the thread that read the errors *)
Finish ==
    /\ pc = "read" /\ open = {} /\ ~Alive
    /\ pc' = "returned" /\ reaped' = TRUE /\ result' = Outcome
    /\ UNCHANGED <<call, given, taken, written, got, open, git>>

-----------------------------------------------------------------------------
GitStep ==
    \/ GitReads \/ GitExits \/ GitLeaves \/ GitLeft \/ GitDies
    \/ \E k \in Stream : GitWrites(k) \/ PipeBroken(k)

CallerStep ==
    \/ WriteInput \/ InputWritten \/ InputBroken \/ Finish
    \/ \E k \in Stream : Read(k) \/ EndRead(k)

(* The call is over, and what is left of git is not the caller's. *)
Returned == pc = "returned" /\ ~Alive /\ UNCHANGED vars

Next == GitStep \/ CallerStep \/ Returned

Spec == Init /\ [][Next]_vars

(* git and each thread of the caller go on while they can; git need not    *)
(* find anything wrong or die, but once it is leaving it goes.             *)
Fairness ==
    /\ WF_vars(GitReads) /\ WF_vars(GitExits) /\ WF_vars(GitLeft)
    /\ \A k \in Stream : WF_vars(GitWrites(k)) /\ WF_vars(PipeBroken(k))
    /\ WF_vars(WriteInput) /\ WF_vars(InputWritten) /\ WF_vars(InputBroken) /\ WF_vars(Finish)
    /\ \A k \in Stream : WF_vars(Read(k)) /\ WF_vars(EndRead(k))

FairSpec == Spec /\ Fairness

-----------------------------------------------------------------------------
TypeOK ==
    /\ call \in Call
    /\ pc \in {"write", "read", "returned"}
    /\ taken <= given /\ given <= call.input /\ given - taken <= Capacity
    /\ \A k \in Stream :
        /\ got[k] <= written[k] /\ written[k] <= call.total[k]
        /\ InPipe(k) <= Capacity
        /\ Limited(k) => got[k] <= LimitOf(k) + 1
    /\ open \subseteq Stream
    /\ git \in {"running", "leaving", "succeeded", "failed", "killed"}
    /\ reaped \in BOOLEAN

(* What is returned as the output of git is all of it, from a git that     *)
(* took the whole input and succeeded; and a limit is only reported when   *)
(* the output is beyond it.                                                *)
ResultTellsOutcome ==
    /\ result = "ok" =>
        /\ git = "succeeded" /\ taken = call.input /\ got["out"] = call.total["out"]
        /\ \A k \in Stream : Limited(k) => call.total[k] <= LimitOf(k)
    /\ result = "output too large" => call.total["out"] > Limit
    /\ result = "errors too large" => call.total["err"] > ErrorLimit

(* No git outlives its call, or is left for nobody to wait for, but the    *)
(* one of a store's call whose input broke, and that one does no more than *)
(* leave: it is no git that goes on with what it was asked to do.          *)
NoGitLeft ==
    pc = "returned" =>
        /\ git # "running"
        /\ (~Alive /\ reaped) \/ (call.mode # "run" /\ result = "broken input")

(* What the callers rely on: git does not fill a pipe nobody reads.        *)
Tame(c) ==
    /\ c.input <= Capacity \/ \A k \in Stream : c.early[k] <= Capacity
    /\ c.mode = "bounded" => c.total["err"] <= Capacity

(* Caller and git never wait for each other for ever, as long as git keeps *)
(* its early output and, for run_bounded, its errors within a pipe; and    *)
(* what a broken input leaves behind goes away as well.                    *)
CallReturns == Tame(call) => <>(pc = "returned" /\ ~Alive)
=============================================================================
