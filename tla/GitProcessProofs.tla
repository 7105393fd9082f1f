-------------------------- MODULE GitProcessProofs --------------------------
(***************************************************************************)
(* Proofs about GitProcess, for every set of calls and every capacity and  *)
(* limit.                                                                  *)
(***************************************************************************)
EXTENDS GitProcess, TLAPS

USE DEF Alive

Counts ==
    /\ given \in Nat /\ taken \in Nat
    /\ written \in [Stream -> Nat] /\ got \in [Stream -> Nat]

(* Success is the last thing git does; a call returns after it. *)
Ends ==
    /\ git = "succeeded" => InputEnded /\ written = call.total
    /\ pc # "write" /\ result # "broken input" => given = call.input
    /\ pc = "returned" => git # "running"
    /\ pc # "returned" => result = "none"

(* The caller lets go of a stream when it has too much of it, or all.      *)
Closed(k) ==
    \/ TooMuch(k)
    \/ ~Alive /\ InPipe(k) = 0
    \/ call.mode = "bounded" /\ TooMuch("out")

Closes == result # "broken input" => \A k \in Stream \ open : Closed(k)

Returns ==
    pc = "returned" =>
        \/ result = "broken input" /\ ((~Alive /\ reaped) \/ call.mode # "run")
        \/ ~Alive /\ reaped /\ open = {} /\ result = Outcome

IInv == TypeOK /\ Counts /\ Ends /\ Closes /\ Returns

(* The three things callers are promised follow from the invariant.        *)
LEMMA Promised == IInv => TypeOK /\ ResultTellsOutcome /\ NoGitLeft
<1> SUFFICES ASSUME IInv PROVE TypeOK /\ ResultTellsOutcome /\ NoGitLeft
  OBVIOUS
<1>1. call \in Call /\ call.total \in [Stream -> Nat] /\ Limit \in Nat /\ ErrorLimit \in Nat
  BY CallAssumption DEF IInv, TypeOK
<1>2. \A k \in Stream : TooMuch(k) => Limited(k) /\ call.total[k] > LimitOf(k)
  BY <1>1 DEF IInv, TypeOK, Counts, TooMuch, LimitOf
<1>3. ASSUME result = "ok"
      PROVE  /\ git = "succeeded" /\ taken = call.input /\ got["out"] = call.total["out"]
             /\ \A k \in Stream : Limited(k) => call.total[k] <= LimitOf(k)
  <2>1. pc = "returned" /\ open = {} /\ Outcome = "ok"
    BY <1>3 DEF IInv, Ends, Returns
  <2>2. git = "succeeded" /\ ~TooMuch("out") /\ ~TooMuch("err")
    BY <2>1 DEF Outcome
  <2>3. taken = call.input /\ written = call.total
    BY <1>3, <2>1, <2>2 DEF IInv, Ends, InputEnded
  <2>4. \A k \in Stream : InPipe(k) = 0
    BY <1>3, <2>1, <2>2 DEF IInv, Closes, Closed, Stream
  <2>5. \A k \in Stream : got[k] = call.total[k]
    BY <1>1, <2>3, <2>4 DEF IInv, Counts, InPipe
  <2>6. \A k \in Stream : Limited(k) => call.total[k] <= LimitOf(k)
    BY <1>1, <2>2, <2>5 DEF TooMuch, LimitOf, Stream
  <2> QED BY <2>2, <2>3, <2>5, <2>6 DEF Stream
<1>4. result = "output too large" => call.total["out"] > Limit
  BY <1>2 DEF IInv, Ends, Returns, Outcome, LimitOf, Stream
<1>5. result = "errors too large" => call.total["err"] > ErrorLimit
  BY <1>2 DEF IInv, Ends, Returns, Outcome, LimitOf, Stream
<1>6. NoGitLeft
  BY DEF IInv, Ends, Returns, NoGitLeft
<1> QED BY <1>3, <1>4, <1>5, <1>6 DEF IInv, ResultTellsOutcome

LEMMA InvInit == Init => IInv
<1> SUFFICES ASSUME Init PROVE IInv
  OBVIOUS
<1>1. call.input \in Nat /\ call.total \in [Stream -> Nat]
      /\ Capacity \in Nat /\ Limit \in Nat /\ ErrorLimit \in Nat
  BY CallAssumption DEF Init
<1>2. Counts /\ \A k \in Stream : got[k] = 0 /\ written[k] = 0 /\ InPipe(k) = 0
  BY DEF Init, Counts, InPipe
<1>3. \A k \in Stream : call.total[k] \in Nat /\ LimitOf(k) \in Nat
  BY <1>1 DEF LimitOf
<1>4. TypeOK
  <2>1. \A k \in Stream :
          /\ got[k] <= written[k] /\ written[k] <= call.total[k]
          /\ InPipe(k) <= Capacity
          /\ Limited(k) => got[k] <= LimitOf(k) + 1
    BY <1>1, <1>2, <1>3
  <2>2. taken <= given /\ given <= call.input /\ given - taken <= Capacity
    BY <1>1 DEF Init
  <2> QED BY <2>1, <2>2 DEF Init, TypeOK
<1>5. Ends /\ Closes /\ Returns
  BY DEF Init, Ends, Closes, Returns
<1> QED BY <1>2, <1>4, <1>5 DEF IInv

-----------------------------------------------------------------------------
(* Steps of git. *)

LEMMA InvGitReads == ASSUME IInv, GitReads PROVE IInv'
<1>1. call.input \in Nat /\ Capacity \in Nat
  BY CallAssumption DEF IInv, TypeOK
<1>2. TypeOK' /\ Counts'
  BY <1>1 DEF IInv, TypeOK, Counts, GitReads, caller, InPipe, Limited, LimitOf
<1>3. Ends' /\ Closes' /\ Returns'
  BY DEF IInv, Ends, Closes, Closed, Returns, GitReads, caller, InPipe, TooMuch, Limited, Outcome
<1> QED BY <1>2, <1>3 DEF IInv

LEMMA InvGitWrites == ASSUME IInv, NEW k \in Stream, GitWrites(k) PROVE IInv'
<1>1. /\ call.total \in [Stream -> Nat] /\ call.early \in [Stream -> Nat]
      /\ call.early[k] <= call.total[k] /\ Capacity \in Nat
  BY CallAssumption DEF IInv, TypeOK
<1>2. /\ written[k] + 1 <= call.total[k] /\ written[k] + 1 - got[k] <= Capacity
      /\ Alive /\ UNCHANGED <<call, taken, git>> /\ UNCHANGED caller
      /\ written' = [written EXCEPT ![k] = @ + 1]
  BY <1>1 DEF IInv, Counts, GitWrites, MayWrite, InPipe
<1>3. Counts'
  BY <1>2 DEF IInv, Counts, caller
<1>4. TypeOK'
  BY <1>1, <1>2 DEF IInv, TypeOK, Counts, caller, InPipe, Limited, LimitOf
<1>5. Ends' /\ Returns'
  BY <1>2 DEF IInv, Ends, Returns, caller, Outcome, TooMuch, Limited
<1>6. Closes'
  BY <1>2 DEF IInv, Closes, Closed, caller, TooMuch, Limited
<1> QED BY <1>3, <1>4, <1>5, <1>6 DEF IInv

LEMMA InvGitEnds ==
    ASSUME IInv, Alive, UNCHANGED <<call, taken, written>>, UNCHANGED caller,
           git' \in {"leaving", "succeeded", "failed"},
           git' = "succeeded" => InputEnded /\ written = call.total
    PROVE  IInv'
<1>1. TypeOK' /\ Counts'
  BY DEF IInv, TypeOK, Counts, caller, InPipe, Limited, LimitOf
<1>2. Ends' /\ Returns'
  BY DEF IInv, Ends, Returns, caller, InputEnded
<1>3. Closes'
  BY DEF IInv, Closes, Closed, caller, TooMuch, Limited, InPipe
<1> QED BY <1>1, <1>2, <1>3 DEF IInv

LEMMA InvGitStep == ASSUME IInv, GitStep PROVE IInv'
<1>1. CASE GitReads
  BY <1>1, InvGitReads
<1>2. CASE GitExits
  BY <1>2, InvGitEnds DEF GitExits
<1>3. CASE GitLeaves \/ GitLeft \/ GitDies
  BY <1>3, InvGitEnds DEF GitLeaves, GitLeft, GitDies
<1>4. ASSUME NEW k \in Stream, GitWrites(k) PROVE IInv'
  BY <1>4, InvGitWrites
<1>5. ASSUME NEW k \in Stream, PipeBroken(k) PROVE IInv'
  BY <1>5, InvGitEnds DEF PipeBroken, MayWrite
<1> QED BY <1>1, <1>2, <1>3, <1>4, <1>5 DEF GitStep

-----------------------------------------------------------------------------
(* Steps of the caller. *)

LEMMA InvWriteInput == ASSUME IInv, WriteInput PROVE IInv'
<1>1. call.input \in Nat /\ Capacity \in Nat
  BY CallAssumption DEF IInv, TypeOK
<1>2. TypeOK' /\ Counts'
  BY <1>1 DEF IInv, TypeOK, Counts, WriteInput, InPipe, Limited, LimitOf
<1>3. Ends' /\ Closes' /\ Returns'
  BY DEF IInv, Ends, Closes, Closed, Returns, WriteInput, InputEnded, InPipe, TooMuch, Limited
<1> QED BY <1>2, <1>3 DEF IInv

LEMMA InvInputWritten == ASSUME IInv, InputWritten PROVE IInv'
<1>1. TypeOK' /\ Counts'
  BY DEF IInv, TypeOK, Counts, InputWritten, InPipe, Limited, LimitOf
<1>2. Ends' /\ Closes' /\ Returns'
  BY DEF IInv, Ends, Closes, Closed, Returns, InputWritten, InputEnded, InPipe, TooMuch, Limited
<1> QED BY <1>1, <1>2 DEF IInv

LEMMA InvInputBroken == ASSUME IInv, InputBroken PROVE IInv'
<1>1. TypeOK' /\ Counts'
  BY DEF IInv, TypeOK, Counts, InputBroken, InPipe, Limited, LimitOf
<1>2. Ends' /\ Closes' /\ Returns'
  BY DEF IInv, Ends, Closes, Returns, InputBroken, InputEnded
<1> QED BY <1>1, <1>2 DEF IInv

LEMMA InvRead == ASSUME IInv, NEW k \in Stream, Read(k) PROVE IInv'
<1>1. Limit \in Nat /\ ErrorLimit \in Nat /\ Capacity \in Nat
  BY CallAssumption
<1>2. /\ pc = "read" /\ k \in open /\ got[k] + 1 <= written[k]
      /\ Limited(k) => got[k] <= LimitOf(k)
      /\ got' = [got EXCEPT ![k] = @ + 1]
      /\ UNCHANGED <<call, pc, given, taken, written, open, git, reaped, result>>
  BY DEF IInv, Counts, Read, Reading, InPipe, TakesMore
<1>3. TypeOK' /\ Counts'
  BY <1>1, <1>2 DEF IInv, TypeOK, Counts, InPipe, Limited, LimitOf
<1>4. Ends' /\ Returns'
  BY <1>2 DEF IInv, Ends, Returns, InputEnded
<1>5. \A j \in Stream : TooMuch(j) => TooMuch(j)'
  BY <1>1, <1>2 DEF IInv, Counts, TooMuch, Limited, LimitOf
<1>6. \A j \in Stream \ open : InPipe(j)' = InPipe(j)
  BY <1>2 DEF IInv, Counts, InPipe
<1>7. Closes'
  BY <1>2, <1>5, <1>6 DEF IInv, Closes, Closed, Stream
<1> QED BY <1>3, <1>4, <1>7 DEF IInv

LEMMA InvEndRead == ASSUME IInv, NEW k \in Stream, EndRead(k) PROVE IInv'
<1> DEFINE over == k = "out" /\ TooMuch(k)
<1>1. Limit \in Nat /\ ErrorLimit \in Nat
  BY CallAssumption
<1>2. /\ pc = "read" /\ k \in open
      /\ ~TakesMore(k) \/ (~Alive /\ InPipe(k) = 0)
      /\ open' = IF over /\ call.mode = "bounded" THEN {} ELSE open \ {k}
      /\ git' = IF over /\ Alive THEN "killed" ELSE git
      /\ UNCHANGED <<call, pc, given, taken, written, got, reaped, result>>
  BY DEF EndRead, Reading
<1>3. TypeOK' /\ Counts'
  BY <1>2 DEF IInv, TypeOK, Counts, InPipe, Limited, LimitOf
<1>4. Ends' /\ Returns'
  BY <1>2 DEF IInv, Ends, Returns, InputEnded
<1>5. ~TakesMore(k) => TooMuch(k)
  BY <1>1 DEF IInv, Counts, TakesMore, TooMuch, LimitOf
<1>6. Closes'
  <2>1. \A j \in Stream : (TooMuch(j)' <=> TooMuch(j)) /\ InPipe(j)' = InPipe(j)
    BY <1>2 DEF TooMuch, Limited, InPipe
  <2>2. TooMuch("out")' <=> TooMuch("out")
    BY <1>2 DEF TooMuch, Limited
  <2>3. ~Alive => ~Alive'
    BY <1>2
  <2>4. ASSUME NEW j \in Stream \ open PROVE result # "broken input" => Closed(j)'
    BY <1>2, <2>1, <2>2, <2>3 DEF IInv, Closes, Closed
  <2>5. Closed(k)'
    BY <1>2, <1>5, <2>1, <2>3 DEF Closed
  <2>6. ASSUME over, call.mode = "bounded", NEW j \in Stream PROVE Closed(j)'
    BY <1>2, <2>2, <2>6 DEF Closed
  <2> QED BY <1>2, <2>4, <2>5, <2>6 DEF Closes
<1> QED BY <1>3, <1>4, <1>6 DEF IInv

LEMMA InvFinish == ASSUME IInv, Finish PROVE IInv'
<1>1. TypeOK' /\ Counts'
  BY DEF IInv, TypeOK, Counts, Finish, InPipe, Limited, LimitOf
<1>2. result' = Outcome /\ Outcome' = Outcome /\ Outcome # "broken input"
  BY DEF Finish, Outcome, TooMuch, Limited
<1>3. Ends' /\ Returns'
  BY <1>2 DEF IInv, Ends, Returns, Finish, InputEnded
<1>4. Closes'
  BY DEF IInv, Ends, Closes, Closed, Finish, TooMuch, Limited, InPipe
<1> QED BY <1>1, <1>3, <1>4 DEF IInv

LEMMA InvUnchanged == ASSUME IInv, UNCHANGED vars PROVE IInv'
BY DEF vars, IInv, TypeOK, Counts, Ends, Closes, Closed, Returns, InputEnded, InPipe, Limited,
       LimitOf, TooMuch, Outcome

LEMMA Inductive == Spec => []IInv
<1>1. IInv /\ [Next]_vars => IInv'
  <2> SUFFICES ASSUME IInv, [Next]_vars PROVE IInv'
    OBVIOUS
  <2>1. CASE GitStep
    BY <2>1, InvGitStep
  <2>2. CASE WriteInput \/ InputWritten \/ InputBroken \/ Finish
    BY <2>2, InvWriteInput, InvInputWritten, InvInputBroken, InvFinish
  <2>3. ASSUME NEW k \in Stream, Read(k) \/ EndRead(k) PROVE IInv'
    BY <2>3, InvRead, InvEndRead
  <2>4. CASE UNCHANGED vars
    BY <2>4, InvUnchanged
  <2> QED BY <2>1, <2>2, <2>3, <2>4 DEF Next, CallerStep, Returned
<1> QED BY InvInit, <1>1, PTL DEF Spec

-----------------------------------------------------------------------------
(* No pipe holds more than it can, and nothing is read beyond the limits   *)
(* but the one byte that shows they are passed.                            *)
THEOREM PipesBounded == Spec => []TypeOK
BY Inductive, Promised, PTL

(* An output is returned whole or not at all, whatever the sizes, the      *)
(* limits and the moment git dies at.                                      *)
THEOREM ResultsAreTrue == Spec => []ResultTellsOutcome
BY Inductive, Promised, PTL

(* When a call has returned its git is dead and waited for, unless it is a *)
(* store's call whose input broke, and then its git is dead or leaving.    *)
THEOREM NoGitOutlives == Spec => []NoGitLeft
BY Inductive, Promised, PTL
=============================================================================
