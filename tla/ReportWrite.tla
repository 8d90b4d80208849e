----------------------------- MODULE ReportWrite -----------------------------
(***************************************************************************)
(* What WindowsHIDDevice::send_report promises to its caller: one write,   *)
(* which has been taken as a whole, was never begun or has failed at some  *)
(* point, and nothing of which happens after the function has returned.    *)
(* OverlappedWrite implements it; WindowsWrite of HIDDevice relies on it.  *)
(***************************************************************************)
EXTENDS Naturals

CONSTANT Sizes  \* the sizes data may have

VARIABLES
    size,    \* data.size()
    taken,   \* the number of bytes that the device has taken
    outcome  \* "none" until the function returns

vars == <<size, taken, outcome>>

Init ==
    /\ size \in Sizes
    /\ taken = 0
    /\ outcome = "none"

Return(how, number) ==
    /\ outcome = "none"
    /\ outcome' = how
    /\ taken' = number
    /\ UNCHANGED size

Sent == Return("sent", size)
NotBegun == Return("OSError", 0)
Failed == \E n \in 0 .. size : Return("IOError", n)

Next == Sent \/ NotBegun \/ Failed

\* The function returns.
Spec == Init /\ [][Next]_vars /\ WF_vars(Next)
=============================================================================
