--------------------------- MODULE ServiceControl ---------------------------
(***************************************************************************)
(* The commands "install" and "uninstall" (src/windows/service-control.cc) *)
(* against the service control manager, the service, and another           *)
(* administrator, who starts, stops and deletes the service with other     *)
(* tools meanwhile and runs the commands "register" and "unregister".      *)
(***************************************************************************)
EXTENDS Integers

CONSTANTS
    Ticks,        \* GetTickCount counts modulo this
    MaxSleep,     \* the longest that Sleep(100) takes, in ticks
    StartHint,    \* the wait hint of a service that is being started
    PendingHint,  \* the wait hint that the service reports (5000 ms)
    MaxOther      \* how often the other administrator interferes

ASSUME TimeAssumption ==
    /\ {Ticks, StartHint, PendingHint, MaxOther} \subseteq Nat
    /\ MaxSleep \in Nat \ {0}
    /\ StartHint + MaxSleep < Ticks /\ PendingHint + MaxSleep < Ticks

VARIABLES
    installed,   \* whether the manager has the service
    service,     \* the status of the service
    event_log,   \* the event source is registered
    others,      \* what the other administrator has done so far
    command,     \* the command that runs, or has run last
    pc,          \* where it is
    handle,      \* it has a handle of the service
    status,      \* what it knows of the status
    start_time, check_point, wait_hint,  \* the locals of wait_service_status
    clock,       \* GetTickCount
    elapsed,     \* the time that has really passed since start_time
    exit,        \* how the command has ended
    restarted,   \* (history) someone else has started the service since the
                 \* command has read its status
    unregistered \* (history) the event source was removed since it was registered

manager == <<installed, service, event_log, others>>
waiting == <<start_time, check_point, wait_hint, clock, elapsed>>
history == <<restarted, unregistered>>
vars == <<manager, command, pc, handle, status, waiting, exit, history>>

State == {"STOPPED", "START_PENDING", "RUNNING", "STOP_PENDING"}
Status(state, cp, hint) == [state |-> state, check_point |-> cp, wait_hint |-> hint]
Hints == {0, StartHint, PendingHint}

Label == {"idle", "register", "manager", "create", "open", "config", "describe",
          "start", "query", "control", "wait", "sleep", "poll", "waited", "delete"}

TypeOK ==
    /\ installed \in {"absent", "installed", "deleting"}
    /\ {service, status} \subseteq [state : State, check_point : 0 .. 1, wait_hint : Hints]
    /\ event_log \in BOOLEAN
    /\ others \in 0 .. MaxOther
    /\ command \in {"none", "install", "uninstall"}
    /\ pc \in Label
    /\ handle \in BOOLEAN
    /\ {start_time, clock} \subseteq 0 .. Ticks - 1
    /\ check_point \in 0 .. 1
    /\ wait_hint \in Hints
    /\ elapsed \in 0 .. Ticks - 1
    /\ exit \in {"none", "ok", "failed"}
    /\ restarted \in BOOLEAN
    /\ unregistered \in BOOLEAN

Init ==
    /\ installed = "absent"
    /\ service = Status("STOPPED", 0, 0)
    /\ event_log = FALSE
    /\ others = 0
    /\ command = "none"
    /\ pc = "idle"
    /\ handle = FALSE
    /\ status = Status("STOPPED", 0, 0)
    /\ start_time = 0
    /\ check_point = 0
    /\ wait_hint = 0
    /\ clock \in 0 .. Ticks - 1
    /\ elapsed = 0
    /\ exit = "none"
    /\ restarted = FALSE
    /\ unregistered = FALSE
-----------------------------------------------------------------------------
(* The end of a command, and the steps that both commands take.            *)

\* The command returns or throws; its handles are closed.
Finish(how) ==
    /\ pc' = "idle"
    /\ exit' = how
    /\ handle' = FALSE

\* A call to the system is made: it may fail.
Calls(label, next) ==
    /\ pc = label
    /\ \/ pc' = next /\ UNCHANGED <<handle, exit>>
       \/ Finish("failed")

Begin(name, label) ==
    /\ pc = "idle"
    /\ command' = name
    /\ pc' = label
    /\ exit' = "none"
    /\ UNCHANGED <<manager, handle, status, waiting, history>>

OpenSCManager ==
    /\ Calls("manager", IF command = "install" THEN "create" ELSE "open")
    /\ UNCHANGED <<manager, command, status, waiting, history>>

\* OpenService: an uninstall is done when there is no service.
OpenService ==
    /\ pc = "open"
    /\ \/ /\ installed # "absent"
          /\ handle' = TRUE
          /\ pc' = IF command = "install" THEN "config" ELSE "query"
          /\ UNCHANGED exit
       \/ installed = "absent" /\ command = "uninstall" /\ Finish("ok")
       \/ Finish("failed")
    /\ UNCHANGED <<manager, command, status, waiting, history>>
-----------------------------------------------------------------------------
(* wait_service_status.                                                    *)

Pending == IF command = "install" THEN "START_PENDING" ELSE "STOP_PENDING"

\* query_service_status.
ReadStatus == status' = service /\ restarted' = FALSE

\* start_time_ms, check_point and wait_hint_ms are set from the status.
StartWaiting ==
    /\ start_time' = clock
    /\ check_point' = service.check_point
    /\ wait_hint' = service.wait_hint
    /\ elapsed' = 0
    /\ UNCHANGED clock

Wait ==
    /\ pc = "wait"
    /\ \/ /\ ReadStatus
          /\ StartWaiting
          /\ pc' = IF service.state = Pending THEN "sleep" ELSE "waited"
          /\ UNCHANGED <<handle, exit>>
       \/ Finish("failed") /\ UNCHANGED <<status, restarted, waiting>>
    /\ UNCHANGED <<manager, command, unregistered>>

Sleep ==
    /\ pc = "sleep"
    /\ \E t \in 1 .. MaxSleep :
          /\ clock' = (clock + t) % Ticks
          /\ elapsed' = elapsed + t
    /\ pc' = "poll"
    /\ UNCHANGED <<manager, command, handle, status, start_time, check_point,
                   wait_hint, exit, history>>

\* Mutant of TimedOut: the ticks are compared instead of their difference.
TimedOutAtTick == clock > (start_time + wait_hint) % Ticks

\* Mutant of TimedOut: the difference is signed.
TimedOutWithoutWrap == clock - start_time > wait_hint

\* The difference of two DWORDs.
TimedOut == (clock + Ticks - start_time) % Ticks > wait_hint

\* Mutant of Poll: every poll starts the time anew.
PollForEver ==
    /\ pc = "poll"
    /\ ReadStatus
    /\ StartWaiting
    /\ pc' = IF service.state = Pending THEN "sleep" ELSE "waited"
    /\ UNCHANGED <<manager, command, handle, exit, unregistered>>

\* A new check point starts the time anew; otherwise it may run out.
Poll ==
    /\ pc = "poll"
    /\ \/ /\ ReadStatus
          /\ IF service.check_point # check_point
             THEN StartWaiting ELSE UNCHANGED waiting
          /\ pc' = IF service.state = Pending
                      /\ (service.check_point # check_point \/ ~TimedOut)
                   THEN "sleep" ELSE "waited"
          /\ UNCHANGED <<handle, exit>>
       \/ Finish("failed") /\ UNCHANGED <<status, restarted, waiting>>
    /\ UNCHANGED <<manager, command, unregistered>>
-----------------------------------------------------------------------------
(* service_install.                                                        *)

Install == Begin("install", "register")

\* Mutant of Register: a failure is ignored.
RegisterIfPossible ==
    /\ pc = "register"
    /\ event_log' \in {event_log, TRUE}
    /\ unregistered' = FALSE
    /\ pc' = "manager"
    /\ UNCHANGED <<installed, service, others, command, handle, status, waiting, exit, restarted>>

\* registry_add_event_log, see EventLogRegistry.
Register ==
    /\ pc = "register"
    /\ \/ /\ event_log' = TRUE /\ unregistered' = FALSE
          /\ pc' = "manager"
          /\ UNCHANGED <<handle, exit>>
       \/ Finish("failed") /\ UNCHANGED <<event_log, unregistered>>
    /\ UNCHANGED <<installed, service, others, command, status, waiting, restarted>>

\* CreateService finds a service that exists, and fails over one that is
\* marked for deletion.
CreateService ==
    /\ pc = "create"
    /\ \/ /\ installed = "absent"
          /\ installed' = "installed"
          /\ handle' = TRUE
          /\ pc' = "describe"
          /\ UNCHANGED exit
       \/ /\ installed = "installed"
          /\ pc' = "open"
          /\ UNCHANGED <<installed, handle, exit>>
       \/ Finish("failed") /\ UNCHANGED installed
    /\ UNCHANGED <<service, event_log, others, command, status, waiting, history>>

ChangeServiceConfig ==
    /\ Calls("config", "describe")
    /\ pc' = "describe" => installed = "installed"
    /\ UNCHANGED <<manager, command, status, waiting, history>>

ChangeServiceConfig2 ==
    /\ Calls("describe", "start")
    /\ pc' = "start" => installed = "installed"
    /\ UNCHANGED <<manager, command, status, waiting, history>>

\* StartService: a service that is not stopped is already running.
StartService ==
    /\ pc = "start"
    /\ \/ /\ installed = "installed"
          /\ service.state = "STOPPED"
          /\ service' = Status("START_PENDING", 0, StartHint)
          /\ pc' = "wait"
          /\ UNCHANGED <<handle, exit>>
       \/ service.state # "STOPPED" /\ Finish("ok") /\ UNCHANGED service
       \/ Finish("failed") /\ UNCHANGED service
    /\ UNCHANGED <<installed, event_log, others, command, status, waiting, history>>

\* "Failed to start service" is not an error of the command.
InstallWaited ==
    /\ pc = "waited"
    /\ command = "install"
    /\ Finish("ok")
    /\ UNCHANGED <<manager, command, status, waiting, history>>
-----------------------------------------------------------------------------
(* service_uninstall.                                                      *)

Uninstall == Begin("uninstall", "manager")

Query ==
    /\ pc = "query"
    /\ \/ /\ ReadStatus
          /\ pc' = CASE service.state = "STOPPED" -> "delete"
                     [] service.state = "STOP_PENDING" -> "wait"
                     [] OTHER -> "control"
          /\ UNCHANGED <<handle, exit>>
       \/ Finish("failed") /\ UNCHANGED <<status, restarted>>
    /\ UNCHANGED <<manager, command, waiting, unregistered>>

\* ControlService returns after the handler of the service has, which has
\* reported STOP_PENDING; only a service that is RUNNING accepts the control.
ControlService ==
    /\ pc = "control"
    /\ \/ /\ service.state = "RUNNING"
          /\ service' = Status("STOP_PENDING", 1, PendingHint)
          /\ pc' = "wait"
          /\ UNCHANGED <<handle, exit>>
       \/ Finish("failed") /\ UNCHANGED service
    /\ UNCHANGED <<installed, event_log, others, command, status, waiting, history>>

\* Mutant of UninstallWaited: the status is not looked at.
UninstallWaitedOnly ==
    /\ pc = "waited"
    /\ command = "uninstall"
    /\ pc' = "delete"
    /\ UNCHANGED <<manager, command, handle, status, waiting, exit, history>>

\* "Failed to stop service" is not an error of the command either.
UninstallWaited ==
    /\ pc = "waited"
    /\ command = "uninstall"
    /\ \/ status.state = "STOPPED" /\ pc' = "delete" /\ UNCHANGED <<handle, exit>>
       \/ status.state # "STOPPED" /\ Finish("ok")
    /\ UNCHANGED <<manager, command, status, waiting, history>>

DeleteService ==
    /\ pc = "delete"
    /\ \/ installed = "installed" /\ installed' = "deleting" /\ Finish("ok")
       \/ Finish("failed") /\ UNCHANGED installed
    /\ UNCHANGED <<service, event_log, others, command, status, waiting, history>>
-----------------------------------------------------------------------------
(* The service, the manager and the other administrator.                   *)

ServiceReports(from, to) ==
    /\ service.state \in from
    /\ service' = to
    /\ UNCHANGED <<installed, event_log, others, command, pc, handle, status, waiting, exit,
                   history>>

\* What WindowsHIDService reports by itself: it may hang, and it may end at
\* any time.
ServiceStarting == ServiceReports({"START_PENDING"}, Status("START_PENDING", 1, PendingHint))
ServiceRunning ==
    /\ service.check_point = 1
    /\ ServiceReports({"START_PENDING"}, Status("RUNNING", 0, 0))
ServiceStopped == ServiceReports(State \ {"STOPPED"}, Status("STOPPED", 0, 0))

\* A service that is marked goes when it is stopped and nobody has a handle.
Purge ==
    /\ installed = "deleting" /\ service.state = "STOPPED" /\ ~handle
    /\ installed' = "absent"
    /\ UNCHANGED <<service, event_log, others, command, pc, handle, status, waiting, exit,
                   history>>

\* The other administrator does something.
Other ==
    /\ others < MaxOther
    /\ others' = others + 1
    /\ UNCHANGED <<command, pc, handle, status, waiting, exit>>

OtherStarts ==
    /\ Other
    /\ installed = "installed" /\ service.state = "STOPPED"
    /\ service' = Status("START_PENDING", 0, StartHint)
    /\ restarted' = TRUE
    /\ UNCHANGED <<installed, event_log, unregistered>>

OtherStops ==
    /\ Other
    /\ service.state = "RUNNING"
    /\ service' = Status("STOP_PENDING", 1, PendingHint)
    /\ UNCHANGED <<installed, event_log, history>>

OtherDeletes ==
    /\ Other
    /\ installed = "installed"
    /\ installed' = "deleting"
    /\ UNCHANGED <<service, event_log, history>>

\* The commands "register" and "unregister" of the program in other processes,
\* see EventLogRegistry.
OtherRegisters ==
    /\ Other
    /\ ~event_log
    /\ event_log' = TRUE /\ unregistered' = FALSE
    /\ UNCHANGED <<installed, service, restarted>>

OtherUnregisters ==
    /\ Other
    /\ event_log
    /\ event_log' = FALSE /\ unregistered' = TRUE
    /\ UNCHANGED <<installed, service, restarted>>

CommandStep ==
    \/ OpenSCManager \/ OpenService
    \/ Wait \/ Sleep \/ Poll
    \/ Register \/ CreateService \/ ChangeServiceConfig \/ ChangeServiceConfig2
    \/ StartService \/ InstallWaited
    \/ Query \/ ControlService \/ UninstallWaited \/ DeleteService

Next ==
    \/ Install \/ Uninstall
    \/ CommandStep
    \/ ServiceStarting \/ ServiceRunning \/ ServiceStopped \/ Purge
    \/ OtherStarts \/ OtherStops \/ OtherDeletes
    \/ OtherRegisters \/ OtherUnregisters

\* A command runs as long as it can; the service may hang.
Spec == Init /\ [][Next]_vars /\ WF_vars(CommandStep)
-----------------------------------------------------------------------------
(* Properties.                                                             *)

\* A command gives up only after the whole of the wait hint has really passed
\* without a new check point, also when the tick count has started again at 0
\* meanwhile (lines 75-88).
TimeoutJustified ==
    (pc = "waited" /\ status.state = Pending) => elapsed > wait_hint

\* An uninstall never deletes a service that still runs because of what it saw
\* or did before: whoever stopped it or deleted it meanwhile, it is stopped
\* when it is deleted, unless someone else has started it again between the
\* last look at its status and the deletion (lines 209-234).
StoppedBeforeDelete ==
    (pc = "delete" /\ ~restarted) => service.state = "STOPPED"

\* An install goes on to the service only with its event source, so that the
\* service is never there, let alone running, without it, also after an install
\* that has failed half-way (line 98 before line 109); unless someone has
\* removed the event source after it was registered (main.cc lines 100-103).
EventSourceFirst ==
    (installed # "absent" \/ pc \in {"create", "config", "describe", "start"}) =>
        event_log \/ unregistered

\* Every command ends, though the service may hang in any state (lines 70-89).
CommandEnds == pc # "idle" ~> pc = "idle"
=============================================================================
