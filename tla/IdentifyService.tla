--------------------------- MODULE IdentifyService ---------------------------
(***************************************************************************)
(* What the Windows service promises, without threads, events or queues:   *)
(* every HID device that is connected is sent the identify report, again   *)
(* after a power resume; a service that is told to stop sends at most one  *)
(* more report and then stops.  WindowsHIDService implements this module.  *)
(***************************************************************************)
CONSTANTS
    Device,     \* the HID device interfaces that may be plugged in
    MayFail     \* whether a call to the operating system may fail

VARIABLES
    connected,  \* the devices that are plugged in
    installed,  \* those of them whose driver has been installed
    owed,       \* the connected devices that are still to be sent a report
    mode        \* what the service is doing

vars == <<connected, installed, owed, mode>>

Mode == {"starting", "serving", "stopping", "spent", "stopped", "failed"}

TypeOK ==
    /\ connected \subseteq Device
    /\ installed \subseteq connected
    /\ owed \subseteq connected
    /\ mode \in Mode

Init ==
    /\ connected \in SUBSET Device
    /\ installed \in SUBSET connected
    /\ owed = connected
    /\ mode = "starting"
-----------------------------------------------------------------------------
(* The environment: the user plugs devices, the computer sleeps and wakes. *)

Plug(d) ==
    /\ d \notin connected
    /\ connected' = connected \cup {d}
    /\ installed' \in {installed, installed \cup {d}}
    /\ owed' = owed \cup {d}
    /\ UNCHANGED mode

Install(d) ==
    /\ d \in connected \ installed
    /\ installed' = installed \cup {d}
    /\ UNCHANGED <<connected, owed, mode>>

Unplug(d) ==
    /\ d \in connected
    /\ connected' = connected \ {d}
    /\ installed' = installed \ {d}
    /\ owed' = owed \ {d}
    /\ UNCHANGED mode

\* A device may have lost what it was told while the computer was asleep.
Resume ==
    /\ owed' = connected
    /\ UNCHANGED <<connected, installed, mode>>
-----------------------------------------------------------------------------
(* The service. *)

\* A service in which something failed may begin by stopping.
Start ==
    /\ mode = "starting"
    /\ mode' \in {"serving"} \cup (IF MayFail THEN {"stopping"} ELSE {})
    /\ UNCHANGED <<connected, installed, owed>>

Report(d) ==
    /\ mode = "serving"
    /\ d \in owed
    /\ owed' = owed \ {d}
    /\ UNCHANGED <<connected, installed, mode>>

\* Of the devices that are there when it starts or wakes up, the service may
\* pass over those that are still being installed, and those it cannot ask.
PassOver(D) ==
    /\ mode \in {"serving", "stopping"}
    /\ MayFail \/ D \cap installed = {}
    /\ owed' = owed \ D
    /\ UNCHANGED <<connected, installed, mode>>

\* The stop is seen at once, or only after the report that is being prepared.
Stop ==
    /\ mode = "serving"
    /\ mode' \in {"stopping", "spent"}
    /\ UNCHANGED <<connected, installed, owed>>

\* The one report a stopping service may still send.
LastReport ==
    /\ mode = "stopping"
    /\ mode' = "spent"
    /\ owed' \in {owed} \cup {owed \ {d} : d \in owed}
    /\ UNCHANGED <<connected, installed>>

Finish ==
    /\ mode = "spent"
    /\ mode' = "stopped"
    /\ UNCHANGED <<connected, installed, owed>>

Fail ==
    /\ MayFail
    /\ mode \in {"starting", "serving", "stopping", "spent"}
    /\ mode' = "failed"
    /\ UNCHANGED <<connected, installed, owed>>

Next ==
    \/ \E d \in Device : Plug(d) \/ Install(d) \/ Unplug(d) \/ Report(d)
    \/ \E D \in SUBSET Device : PassOver(D)
    \/ Resume
    \/ Start
    \/ Stop
    \/ LastReport
    \/ Finish
    \/ Fail

\* A device is served in the end if it is installed; one that never will be may
\* be passed over whenever the service looks for it.
Fairness ==
    /\ WF_vars(Start)
    /\ WF_vars(LastReport)
    /\ WF_vars(Finish)
    /\ \A d \in Device : WF_vars(d \in installed /\ Report(d))

Spec == Init /\ [][Next]_vars /\ Fairness
=============================================================================
