------------------------ MODULE OverlappedWrite_proofs ------------------------
(***************************************************************************)
(* Theorems about OverlappedWrite for data of every size.                  *)
(***************************************************************************)
EXTENDS OverlappedWrite, TLAPS

(***************************************************************************)
(* A write has been started exactly from the wait on, and is pending only  *)
(* before the return; what became of it decides the outcome.               *)
(***************************************************************************)
WriteInv ==
    /\ TypeOK
    /\ pc \in {"event", "write"} => io = "none" /\ written = 0
    /\ pc # "returned" => outcome = "none"
    /\ pc \in {"wait", "cancel", "result"} => io # "none"
    /\ io = "cancelled" => cancelling
    /\ cancelling => pc \in {"result", "returned"}
    /\ NothingPendingOnReturn
    /\ SentIfTaken

LEMMA InitWriteInv == Init => WriteInv
<1> SUFFICES ASSUME Init PROVE WriteInv
  OBVIOUS
<1>1. 0 \in 0 .. size
  BY SizesAssumption DEF Init
<1> QED BY <1>1 DEF Init, WriteInv, TypeOK, NothingPendingOnReturn, SentIfTaken

LEMMA FunctionWriteInv == WriteInv /\ Function => WriteInv'
<1> SUFFICES ASSUME WriteInv, Function PROVE WriteInv'
  OBVIOUS
<1>0. size \in Nat \ {0}
  BY SizesAssumption DEF WriteInv, TypeOK
<1> USE DEF WriteInv, TypeOK, NothingPendingOnReturn, SentIfTaken, Return
<1>1. CASE CreateEvent
  BY <1>0, <1>1 DEF CreateEvent
<1>2. CASE WriteFile
  BY <1>0, <1>2 DEF WriteFile
<1>3. CASE WaitEvent
  BY <1>3 DEF WaitEvent
<1>4. CASE WaitTimeout
  BY <1>4 DEF WaitTimeout
<1>5. CASE WaitFailed
  BY <1>5 DEF WaitFailed
<1>6. CASE CancelIo
  BY <1>6 DEF CancelIo
<1>7. CASE GetOverlappedResult
  BY <1>7 DEF GetOverlappedResult
<1> QED BY <1>1, <1>2, <1>3, <1>4, <1>5, <1>6, <1>7 DEF Function

(***************************************************************************)
(* The system touches the write only while it is pending, so only before   *)
(* the return.                                                             *)
(***************************************************************************)
LEMMA SystemWriteInv == WriteInv /\ System => WriteInv'
<1> SUFFICES ASSUME WriteInv, System PROVE WriteInv'
  OBVIOUS
<1>0. size \in Nat /\ written \in 0 .. size
  BY SizesAssumption DEF WriteInv, TypeOK
<1>p. pc \in {"wait", "cancel", "result"} /\ io = "pending"
  BY DEF System, Complete, Progress, Break, Cancelled, WriteInv, TypeOK,
         NothingPendingOnReturn
<1> USE DEF WriteInv, TypeOK, NothingPendingOnReturn, SentIfTaken
<1>1. CASE Complete
  <2>1. written' \in 0 .. size
    BY <1>0, <1>1 DEF Complete
  <2> QED BY <1>p, <1>1, <2>1 DEF Complete
<1>2. CASE Progress
  <2>1. written' \in 0 .. size
    BY <1>0, <1>2 DEF Progress
  <2> QED BY <1>p, <1>2, <2>1 DEF Progress
<1>3. CASE Break
  BY <1>p, <1>3 DEF Break
<1>4. CASE Cancelled
  BY <1>p, <1>4 DEF Cancelled
<1> QED BY <1>1, <1>2, <1>3, <1>4 DEF System

LEMMA WriteInvariant == Spec => []WriteInv
<1>1. WriteInv /\ UNCHANGED vars => WriteInv'
  BY DEF WriteInv, TypeOK, NothingPendingOnReturn, SentIfTaken, vars
<1> QED BY InitWriteInv, FunctionWriteInv, SystemWriteInv, <1>1, PTL DEF Spec, Next

\* The variables of send_report keep their types; no more bytes are ever
\* written than there are.
THEOREM WriteTypeCorrect == Spec => []TypeOK
<1>1. WriteInv => TypeOK
  BY DEF WriteInv
<1> QED BY WriteInvariant, <1>1, PTL

\* send_report returns, or throws, only when the system no longer uses the
\* OVERLAPPED, the event and the data of its stack frame (lines 253-280).
THEOREM ReturnIsSafe == Spec => []NothingPendingOnReturn
<1>1. WriteInv => NothingPendingOnReturn
  BY DEF WriteInv
<1> QED BY WriteInvariant, <1>1, PTL

\* send_report succeeds only if the device has taken the whole report, and fails
\* for one that it has taken only if the device broke off the write or the
\* cancellation was faster than its end (lines 268-296).
THEOREM SentIsTaken == Spec => []SentIfTaken
<1>1. WriteInv => SentIfTaken
  BY DEF WriteInv
<1> QED BY WriteInvariant, <1>1, PTL

(***************************************************************************)
(* Only the step that returns is one of ReportWrite.  It needs the         *)
(* invariant twice: CreateEvent and WriteFile have failed before anything  *)
(* was written, and what the system does later is no longer possible.      *)
(***************************************************************************)
LEMMA FunctionRefines ==
    WriteInv /\ Function => Write!Next \/ UNCHANGED (Write!vars)
<1> SUFFICES ASSUME WriteInv, Function
             PROVE  Write!Next \/ UNCHANGED (Write!vars)
  OBVIOUS
<1>0. /\ size \in Nat /\ written \in 0 .. size
      /\ pc # "returned" => outcome = "none"
      /\ pc \in {"event", "write"} => written = 0
  BY SizesAssumption DEF WriteInv, TypeOK
<1> USE DEF Write!vars
<1>1. CASE CreateEvent
  BY <1>0, <1>1 DEF CreateEvent, Return, Write!Next, Write!NotBegun, Write!Return
<1>2. CASE WriteFile
  BY <1>0, <1>2 DEF WriteFile, Return, Write!Next, Write!NotBegun, Write!Return
<1>3. CASE WaitEvent \/ WaitTimeout \/ WaitFailed \/ CancelIo
  BY <1>0, <1>3 DEF WaitEvent, WaitTimeout, WaitFailed, CancelIo
<1>4. CASE GetOverlappedResult
  <2>1. /\ pc = "result" /\ pc' = "returned" /\ outcome = "none"
        /\ UNCHANGED <<size, written>>
        /\ \/ outcome' = "sent" /\ written = size
           \/ outcome' = "IOError"
    BY <1>0, <1>4 DEF GetOverlappedResult, Return
  <2>2. Write!Sent \/ Write!Failed
    BY <1>0, <2>1 DEF Write!Sent, Write!Failed, Write!Return
  <2> QED BY <2>2 DEF Write!Next
<1> QED BY <1>1, <1>2, <1>3, <1>4 DEF Function

LEMMA SystemRefines == WriteInv /\ System => UNCHANGED (Write!vars)
<1> SUFFICES ASSUME WriteInv, System PROVE UNCHANGED (Write!vars)
  OBVIOUS
<1>1. pc # "returned" /\ UNCHANGED <<pc, size, outcome>>
  BY DEF System, Complete, Progress, Break, Cancelled, WriteInv,
         NothingPendingOnReturn
<1> QED BY <1>1 DEF Write!vars

\* send_report is one write as ReportWrite describes it, for reports of every
\* size: taken as a whole, never begun or failed, and over when it returns
\* (lines 242-296).
THEOREM WriteIsOneStep == Spec => Write!Init /\ [][Write!Next]_(Write!vars)
<1>1. Init => Write!Init
  BY DEF Init, Write!Init
<1>2. UNCHANGED vars => UNCHANGED (Write!vars)
  BY DEF vars, Write!vars
<1>3. WriteInv /\ [Next]_vars => [Write!Next]_(Write!vars)
  BY FunctionRefines, SystemRefines, <1>2 DEF Next
<1> QED BY WriteInvariant, <1>1, <1>3, PTL DEF Spec
-----------------------------------------------------------------------------
(* Why the function returns.                                               *)

\* GetOverlappedResult waits for the device alone only if the write has been
\* cancelled, so that the system ends it whatever the device does; and nothing
\* is cancelled without a write, or once the write has ended by itself and been
\* looked at (lines 253-280).
WaitIsBounded ==
    /\ pc = "result" /\ io = "pending" => cancelling
    /\ cancelling => io # "none" /\ pc \in {"result", "returned"}
    /\ event <=> io \in {"done", "broken", "cancelled"}

LEMMA NextBounded == ASSUME WriteInv, WaitIsBounded, Next PROVE WaitIsBounded'
<1> USE DEF WriteInv, TypeOK, WaitIsBounded, Return
<1>1. CASE CreateEvent \/ WriteFile
  BY <1>1 DEF CreateEvent, WriteFile
<1>2. CASE WaitEvent \/ WaitTimeout \/ WaitFailed
  BY <1>2 DEF WaitEvent, WaitTimeout, WaitFailed
<1>3. CASE CancelIo \/ GetOverlappedResult
  BY <1>3 DEF CancelIo, GetOverlappedResult
<1>4. CASE System
  BY <1>4 DEF System, Complete, Progress, Break, Cancelled
<1> QED BY <1>1, <1>2, <1>3, <1>4 DEF Next, Function

\* However the time-out, the end of the write and the cancellation race, the
\* thread of the service is never left to a device that does not answer.
THEOREM NeverWaitsForTheDevice == Spec => []WaitIsBounded
<1>1. Init => WaitIsBounded
  BY DEF Init, WaitIsBounded
<1>2. WaitIsBounded /\ UNCHANGED vars => WaitIsBounded'
  BY DEF WaitIsBounded, vars
<1> QED BY <1>1, <1>2, NextBounded, WriteInvariant, PTL DEF Spec

\* The steps that the function has before it, at most.
StepsLeft(label) ==
    CASE label = "event" -> 5
      [] label = "write" -> 4
      [] label = "wait" -> 3
      [] label = "cancel" -> 2
      [] label = "result" -> 1
      [] label = "returned" -> 0

\* The function does not wait twice: each of its steps brings it nearer to its
\* return, no step of the system takes it back, and nothing happens to the
\* write, the event or the data after it (ImplementsReportWrite).
THEOREM ReturnsInFiveSteps ==
    Spec => [][/\ Function => StepsLeft(pc') < StepsLeft(pc)
               /\ System => pc' = pc /\ pc # "returned"]_vars
<1>1. ASSUME WriteInv, Function PROVE StepsLeft(pc') < StepsLeft(pc)
  BY <1>1 DEF Function, CreateEvent, WriteFile, WaitEvent, WaitTimeout, WaitFailed,
              CancelIo, GetOverlappedResult, Return, StepsLeft
<1>2. ASSUME WriteInv, System PROVE pc' = pc /\ pc # "returned"
  BY <1>2 DEF System, Complete, Progress, Break, Cancelled, WriteInv,
              NothingPendingOnReturn
<1>3. WriteInv /\ [Next]_vars =>
          [/\ Function => StepsLeft(pc') < StepsLeft(pc)
           /\ System => pc' = pc /\ pc # "returned"]_vars
  BY <1>1, <1>2
<1> QED BY <1>3, WriteInvariant, PTL DEF Spec
=============================================================================
