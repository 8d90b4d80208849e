--------------------------- MODULE OverlappedWrite ---------------------------
(***************************************************************************)
(* WindowsHIDDevice::send_report: a write that the system carries out      *)
(* while the thread waits for it, for no longer than a second.  The        *)
(* OVERLAPPED, its event and the data belong to the stack frame of the     *)
(* function, and the system may use them until the write has ended.        *)
(***************************************************************************)
EXTENDS Naturals

CONSTANT Sizes  \* the sizes data may have

ASSUME SizesAssumption == Sizes \subseteq Nat \ {0}

VARIABLES
    pc,         \* where the function is
    size,       \* data.size()
    io,         \* what has become of the write
    written,    \* the number of bytes that the device has taken
    event,      \* the event, of manual reset
    cancelling, \* CancelIo has been called while the write was pending
    outcome     \* how the function has ended

vars == <<pc, size, io, written, event, cancelling, outcome>>

TypeOK ==
    /\ pc \in {"event", "write", "wait", "cancel", "result", "returned"}
    /\ size \in Sizes
    /\ io \in {"none", "pending", "done", "broken", "cancelled"}
    /\ written \in 0 .. size
    /\ event \in BOOLEAN
    /\ cancelling \in BOOLEAN
    /\ outcome \in {"none", "sent", "OSError", "IOError"}

Init ==
    /\ pc = "event"
    /\ size \in Sizes
    /\ io = "none"
    /\ written = 0
    /\ event = FALSE
    /\ cancelling = FALSE
    /\ outcome = "none"
-----------------------------------------------------------------------------
(* The function. *)

Return(how) == pc' = "returned" /\ outcome' = how

CreateEvent ==
    /\ pc = "event"
    /\ \/ pc' = "write" /\ UNCHANGED outcome
       \/ Return("OSError")
    /\ UNCHANGED <<size, io, written, event, cancelling>>

\* Mutant of WriteFile: one byte more is written than there is.
WriteFileTooMuch ==
    /\ pc = "write"
    /\ \/ /\ io' = "done"
          /\ written' \in 0 .. size + 1
          /\ event' = TRUE
       \/ /\ io' = "pending"
          /\ UNCHANGED <<written, event>>
    /\ pc' = "wait"
    /\ UNCHANGED <<size, cancelling, outcome>>

\* WriteFile has written at once, has started to, or has failed.
WriteFile ==
    /\ pc = "write"
    /\ \/ /\ io' = "done"
          /\ written' \in 0 .. size
          /\ event' = TRUE
          /\ pc' = "wait"
          /\ UNCHANGED outcome
       \/ /\ io' = "pending"
          /\ pc' = "wait"
          /\ UNCHANGED <<written, event, outcome>>
       \/ /\ Return("OSError")
          /\ UNCHANGED <<io, written, event>>
    /\ UNCHANGED <<size, cancelling>>

\* WaitForSingleObject: the event, the second is over, or an error.
WaitEvent ==
    /\ pc = "wait"
    /\ event
    /\ pc' = "result"
    /\ UNCHANGED <<size, io, written, event, cancelling, outcome>>

\* Mutant of WaitTimeout: the write is not cancelled.
WaitTimeoutOnly ==
    /\ pc = "wait"
    /\ ~event
    /\ pc' = "result"
    /\ UNCHANGED <<size, io, written, event, cancelling, outcome>>

WaitTimeout ==
    /\ pc = "wait"
    /\ ~event
    /\ pc' = "cancel"
    /\ UNCHANGED <<size, io, written, event, cancelling, outcome>>

WaitFailed ==
    /\ pc = "wait"
    /\ pc' = "cancel"
    /\ UNCHANGED <<size, io, written, event, cancelling, outcome>>

\* Mutant of CancelIo: the exception is thrown here.
CancelIoAndThrow ==
    /\ pc = "cancel"
    /\ cancelling' = (io = "pending")
    /\ Return("IOError")
    /\ UNCHANGED <<size, io, written, event>>

\* The write may have ended since the wait: nothing is left to cancel then.
CancelIo ==
    /\ pc = "cancel"
    /\ cancelling' = (io = "pending")
    /\ pc' = "result"
    /\ UNCHANGED <<size, io, written, event, outcome>>

\* Mutant of GetOverlappedResult: it does not wait.
GetOverlappedResultAtOnce ==
    /\ pc = "result"
    /\ Return(IF io = "done" /\ written = size THEN "sent" ELSE "IOError")
    /\ UNCHANGED <<size, io, written, event, cancelling>>

\* GetOverlappedResult waits for the end of the write.
GetOverlappedResult ==
    /\ pc = "result"
    /\ io # "pending"
    /\ Return(IF io = "done" /\ written = size THEN "sent" ELSE "IOError")
    /\ UNCHANGED <<size, io, written, event, cancelling>>
-----------------------------------------------------------------------------
(* The system and the device.                                              *)

Complete ==
    /\ io = "pending"
    /\ io' = "done"
    /\ written' \in written .. size
    /\ event' = TRUE
    /\ UNCHANGED <<pc, size, cancelling, outcome>>

\* The device takes some of the data.
Progress ==
    /\ io = "pending"
    /\ written < size
    /\ written' = written + 1
    /\ UNCHANGED <<pc, size, io, event, cancelling, outcome>>

\* The device fails or is unplugged, whatever it has taken by then.
Break ==
    /\ io = "pending"
    /\ io' = "broken"
    /\ event' = TRUE
    /\ UNCHANGED <<pc, size, written, cancelling, outcome>>

\* So may a write be cancelled of which the device has taken everything.
Cancelled ==
    /\ cancelling
    /\ io = "pending"
    /\ io' = "cancelled"
    /\ event' = TRUE
    /\ UNCHANGED <<pc, size, written, cancelling, outcome>>

Function ==
    \/ CreateEvent
    \/ WriteFile
    \/ WaitEvent
    \/ WaitTimeout
    \/ WaitFailed
    \/ CancelIo
    \/ GetOverlappedResult

System ==
    \/ Complete
    \/ Progress
    \/ Break
    \/ Cancelled

Next == Function \/ System

\* The second passes, and the system honours a cancellation; the device may
\* never complete the write by itself.
Spec == Init /\ [][Next]_vars /\ WF_vars(Function) /\ WF_vars(Cancelled)
-----------------------------------------------------------------------------
(* Properties.                                                             *)

\* The function returns only after the write has ended, on every path: what
\* the system still writes to is not freed (line 253, "Must cancel and wait
\* for finish of I/O operation before freeing this").
NothingPendingOnReturn == pc = "returned" => io # "pending"

\* A success means that the device has taken the whole report.  A report that it
\* has taken as a whole is a failure only if the device broke off the write or
\* if the cancellation, after the second, was faster than the end of the write:
\* one that ends as it should between the time-out, or a failed wait, and the
\* cancellation is a success (lines 268-296).
SentIfTaken ==
    pc = "returned" =>
        /\ outcome = "sent" => written = size
        /\ written = size =>
              \/ outcome = "sent"
              \/ io = "broken"
              \/ io = "cancelled" /\ cancelling

Write == INSTANCE ReportWrite WITH taken <- IF pc = "returned" THEN written ELSE 0

\* To its caller the function is one write that was taken as a whole, was never
\* begun or has failed at some point: after the return the device takes nothing
\* more, and the thread of the service is not lost to a device that never
\* answers (lines 242-296).
ImplementsReportWrite == Write!Spec
=============================================================================
