-------------------------- MODULE WindowsHIDService --------------------------
(***************************************************************************)
(* The Windows service of src/windows/service.cc: the main thread (main,   *)
(* run, startup, queue_all_devices, process_events, report_one_device),    *)
(* the control handler that the dispatcher thread runs (control,           *)
(* device_arrival), the queue and the events they share, and around them   *)
(* the service control manager and the devices.                            *)
(***************************************************************************)
EXTENDS Naturals, Sequences, Functions

CONSTANTS
    Device,      \* the HID device interfaces that may be plugged in
    NoDevice,    \* in place of a device where there is none
    MaxBacklog,  \* the environment waits while this much work is pending
    Faults       \* the calls to the operating system that may fail

Handle == {"stop_event", "power_resume_event", "device_event",
           "devices_mutex", "device_notification"}

FaultPoint ==
    Handle \cup {"handler", "enumerate", "next_interface", "device_details",
                 "check_stop", "acquire", "wait"}

ASSUME NoDeviceAssumption == NoDevice \notin Device
ASSUME FaultsAssumption == Faults \subseteq FaultPoint
ASSUME MaxBacklogAssumption == MaxBacklog \in Nat

VARIABLES
    connected,          \* the devices that are plugged in
    installed,          \* those of them whose driver has been installed
    owed,               \* those the service still has to identify
    announced,          \* those not identified since their arrival was notified
    controls,           \* controls sent by the manager, not yet dispatched
    status,             \* what the manager knows: the last SetServiceStatus
    pc,                 \* where the main thread is
    handles,            \* the handles that have been created
    stop_event,         \* manual reset event
    power_resume_event, \* auto reset event
    device_event,       \* auto reset event
    devices_mutex,      \* the thread that owns the mutex, or "none"
    devices,            \* the queue devices_
    listing,            \* what WindowsHIDEnumeration has still to return
    current,            \* the device the main thread has in hand
    drained,            \* report_one_device returned ERROR_NO_MORE_FILES
    hpc,                \* where the control handler is
    hdevice,            \* the device whose arrival it handles
    arrival_failed      \* device_arrival has thrown an exception

environment == <<connected, installed, owed, announced, controls>>
main == <<pc, listing, current, drained>>
handler == <<hpc, hdevice, arrival_failed>>
events == <<stop_event, power_resume_event, device_event>>
queue == <<devices_mutex, devices>>
vars == <<environment, status, main, handles, events, queue, handler>>
-----------------------------------------------------------------------------
State == {"START_PENDING", "RUNNING", "STOP_PENDING", "STOPPED"}

Control ==
    [kind : {"stop", "resume", "other"}, device : {NoDevice}]
        \cup [kind : {"arrival"}, device : Device]

Arrival(d) == [kind |-> "arrival", device |-> d]
Simple(k) == [kind |-> k, device |-> NoDevice]

\* Labels of the main thread, grouped by the function that it executes.
Startup == {"main", "run", "started"} \cup Handle
QueueAll == {"enumerate", "next_device", "check_stop", "queue_lock", "queue"}
ReportOne == {"report_lock", "report", "identify"}
Failing == {"throw", "terminate", "dead"}
MainLabel ==
    Startup \cup QueueAll \cup ReportOne \cup Failing \cup {"wait", "stopped", "done"}

HandlerLabel == {"idle", "arrival_lock", "arrival_queue", "arrival_signal",
                 "arrival_unlock", "stop_report", "stop_signal", "resume_signal"}

TypeOK ==
    /\ connected \subseteq Device
    /\ installed \subseteq connected
    /\ owed \subseteq connected
    /\ announced \subseteq owed
    /\ controls \in Seq(Control)
    /\ status \in [state : State, exit : {"none", "ok", "error"}]
    /\ pc \in MainLabel
    /\ handles \subseteq Handle
    /\ stop_event \in BOOLEAN
    /\ power_resume_event \in BOOLEAN
    /\ device_event \in BOOLEAN
    /\ devices_mutex \in {"none", "main", "handler"}
    /\ devices \in Seq(Device)
    /\ listing \subseteq Device
    /\ current \in Device \cup {NoDevice}
    /\ drained \in BOOLEAN
    /\ hpc \in HandlerLabel
    /\ hdevice \in Device \cup {NoDevice}
    /\ arrival_failed \in BOOLEAN

Init ==
    /\ connected \in SUBSET Device
    /\ installed \in SUBSET connected
    /\ owed = connected
    /\ announced = {}
    /\ controls = <<>>
    /\ status = [state |-> "START_PENDING", exit |-> "none"]
    /\ pc = "main"
    /\ handles = {}
    /\ stop_event = FALSE
    /\ power_resume_event = FALSE
    /\ device_event = FALSE
    /\ devices_mutex = "none"
    /\ devices = <<>>
    /\ listing = {}
    /\ current = NoDevice
    /\ drained = FALSE
    /\ hpc = "idle"
    /\ hdevice = NoDevice
    /\ arrival_failed = FALSE
-----------------------------------------------------------------------------
(* report_status and its three callers.                                    *)

ReportStatus(state, exit) == status' = [state |-> state, exit |-> exit]
StatusPending(state) == ReportStatus(state, "none")
StatusOk(state) ==
    ReportStatus(state, IF state = "STOPPED" THEN "ok" ELSE "none")
StatusError == ReportStatus("STOPPED", "error")

\* Mutant of AcceptsControls: also while the service is starting.
AcceptsControlsWhileStarting == status.state \in {"START_PENDING", "RUNNING"}

\* STOP and POWEREVENT are accepted only by a service that is RUNNING.
AcceptsControls == status.state = "RUNNING"
-----------------------------------------------------------------------------
(* main, run and startup.                                                  *)

\* RegisterEventSource in the constructor and RegisterServiceCtrlHandlerEx:
\* when one of them fails, OSError leaves the noexcept entry point of
\* command_service at once.
RegisterHandler ==
    /\ pc = "main"
    /\ \/ pc' = "run"
       \/ "handler" \in Faults /\ pc' = "terminate"
    /\ UNCHANGED <<environment, status, listing, current, drained, handles,
                   events, queue, handler>>

Run ==
    /\ pc = "run"
    /\ StatusPending("START_PENDING")
    /\ pc' = "stop_event"
    /\ UNCHANGED <<environment, listing, current, drained, handles, events,
                   queue, handler>>

\* The handle startup looks at after it has tried to create h.
Tested(h) == IF h = "devices_mutex" THEN "device_event" ELSE h

AfterCreate(h) ==
    CASE h = "stop_event" -> "power_resume_event"
      [] h = "power_resume_event" -> "device_event"
      [] h = "device_event" -> "devices_mutex"
      [] h = "devices_mutex" -> "device_notification"
      [] h = "device_notification" -> "started"

\* CreateEvent, CreateMutex or RegisterDeviceNotification.
CreateHandle(h) ==
    /\ pc = h
    /\ \/ handles' = handles \cup {h}
       \/ h \in Faults /\ UNCHANGED handles
    /\ pc' = IF Tested(h) \in handles' THEN AfterCreate(h) ELSE "throw"
    /\ UNCHANGED <<environment, status, listing, current, drained, events,
                   queue, handler>>

Started ==
    /\ pc = "started"
    /\ StatusOk("RUNNING")
    /\ pc' = "enumerate"
    /\ UNCHANGED <<environment, listing, current, drained, handles, events,
                   queue, handler>>
-----------------------------------------------------------------------------
(* acquire_mutex and the release by the wrapper's destructor.              *)

\* Mutant of Acquire: the owner is not waited for.
AcquireWithoutWaiting(thread) ==
    /\ "devices_mutex" \in handles
    /\ devices_mutex' = thread

Acquire(thread) ==
    /\ "devices_mutex" \in handles
    /\ devices_mutex = "none"
    /\ devices_mutex' = thread

Release(thread) ==
    /\ devices_mutex = thread
    /\ devices_mutex' = "none"

\* Mutant of MainAcquires: a null mutex is not noticed.
MainAcquiresUnchecked(label, critical) ==
    /\ pc = label
    /\ Acquire("main") /\ pc' = critical
    /\ UNCHANGED <<environment, status, listing, current, drained, handles,
                   events, devices, handler>>

\* acquire_mutex waits without a limit.  It throws when the wait fails, as it
\* always does for a null mutex; WAIT_ABANDONED, for which it throws as well, is
\* not among the results, since no thread ends while it owns the mutex.
AcquireThrows ==
    /\ "devices_mutex" \notin handles \/ "acquire" \in Faults
    /\ UNCHANGED devices_mutex

MainAcquires(label, critical) ==
    /\ pc = label
    /\ \/ Acquire("main") /\ pc' = critical
       \/ AcquireThrows /\ pc' = "throw"
    /\ UNCHANGED <<environment, status, listing, current, drained, handles,
                   events, devices, handler>>
-----------------------------------------------------------------------------
(* queue_all_devices, and the enumeration it goes through.                 *)

\* The constructor of WindowsHIDEnumeration takes a snapshot of the devices.
Enumerate ==
    /\ pc = "enumerate"
    /\ \/ listing' = connected /\ pc' = "next_device"
       \/ "enumerate" \in Faults /\ pc' = "throw" /\ UNCHANGED listing
    /\ UNCHANGED <<environment, status, current, drained, handles, events,
                   queue, handler>>

\* A resume that the main thread has not yet taken up.
ResumePending ==
    \/ Simple("resume") \in Range(controls)
    \/ power_resume_event \/ hpc = "resume_signal"

\* The members of D are passed over by the enumeration.  The service owes them
\* no report any more, unless it has been notified of them or of a resume.
PassOver(D) == owed' = IF ResumePending THEN owed ELSE owed \ (D \ announced)

\* Mutant of NextDevice: the end iterator is dereferenced as well.
NextDeviceUpToEnd ==
    /\ pc = "next_device"
    /\ \/ \E d \in listing :
            listing' = listing \ {d} /\ current' = d /\ pc' = "check_stop"
       \/ listing = {} /\ current' = NoDevice /\ pc' = "queue_lock" /\ UNCHANGED listing
    /\ UNCHANGED <<environment, status, drained, handles, events, queue,
                   handler>>

\* populate_device_path passes over a device that is not installed, is no
\* longer there or cannot be asked, and takes any failure to enumerate the next
\* one for the end.
NextDevice ==
    /\ pc = "next_device"
    /\ \/ \E d \in listing :
            /\ listing' = listing \ {d}
            /\ \/ /\ d \in installed \/ d \notin connected
                  /\ current' = d
                  /\ pc' = "check_stop"
                  /\ UNCHANGED owed
               \/ /\ d \notin installed \/ "device_details" \in Faults
                  /\ PassOver({d})
                  /\ UNCHANGED <<current, pc>>
       \/ /\ listing = {} \/ "next_interface" \in Faults
          /\ listing' = {}
          /\ pc' = "report_lock"
          /\ PassOver(listing)
          /\ UNCHANGED current
    /\ UNCHANGED <<connected, installed, announced, controls, status, drained,
                   handles, events, queue, handler>>

CheckStop ==
    /\ pc = "check_stop"
    /\ \/ stop_event /\ pc' = "report_lock" /\ listing' = {} /\ current' = NoDevice
       \/ ~stop_event /\ pc' = "queue_lock" /\ UNCHANGED <<listing, current>>
       \/ "check_stop" \in Faults /\ pc' = "throw" /\ UNCHANGED <<listing, current>>
    /\ UNCHANGED <<environment, status, drained, handles, events, queue,
                   handler>>

QueueLock == MainAcquires("queue_lock", "queue")

Queue ==
    /\ pc = "queue"
    /\ devices' = Append(devices, current)
    /\ current' = NoDevice
    /\ Release("main")
    /\ pc' = "next_device"
    /\ UNCHANGED <<environment, status, listing, drained, handles, events,
                   handler>>
-----------------------------------------------------------------------------
(* process_events and report_one_device.                                   *)

ReportLock == MainAcquires("report_lock", "report")

\* Mutant of Report: what is left in the queue is not looked at.
ReportAlwaysEmpty ==
    /\ pc = "report"
    /\ devices # <<>>
    /\ current' = Head(devices)
    /\ devices' = Tail(devices)
    /\ drained' = TRUE
    /\ pc' = "identify"
    /\ Release("main")
    /\ UNCHANGED <<environment, status, listing, handles, events, handler>>

\* Mutant of Report: the mutex is held while the device is identified.
ReportUnderLock ==
    /\ pc = "report"
    /\ devices # <<>>
    /\ current' = Head(devices)
    /\ devices' = Tail(devices)
    /\ drained' = (devices' = <<>>)
    /\ pc' = "identify"
    /\ UNCHANGED <<environment, status, listing, handles, events,
                   devices_mutex, handler>>

\* Whether the queue is empty is decided before the mutex is released, which
\* is before the device is opened.
Report ==
    /\ pc = "report"
    /\ \/ /\ devices = <<>>
          /\ pc' = "wait"
          /\ drained' = TRUE
          /\ UNCHANGED <<devices, current>>
       \/ /\ devices # <<>>
          /\ current' = Head(devices)
          /\ devices' = Tail(devices)
          /\ drained' = (devices' = <<>>)
          /\ pc' = "identify"
    /\ Release("main")
    /\ UNCHANGED <<environment, status, listing, handles, events, handler>>

\* WindowsHIDDevice(device).identify(): whatever Exception it throws is ignored.
Identify ==
    /\ pc = "identify"
    /\ owed' = owed \ {current}
    /\ announced' = announced \ {current}
    /\ current' = NoDevice
    /\ pc' = "wait"
    /\ UNCHANGED <<connected, installed, controls, status, listing, drained, handles,
                   events, queue, handler>>

\* WaitForMultipleObjects returns for the first handle of the array that is
\* signalled and resets it if it is an auto reset event.
WaitStop ==
    /\ stop_event
    /\ pc' = "stopped"
    /\ UNCHANGED events

\* Mutant of WaitResume: the devices are not enumerated again.
WaitResumeOnly ==
    /\ ~stop_event
    /\ power_resume_event
    /\ power_resume_event' = FALSE
    /\ pc' = "report_lock"
    /\ UNCHANGED <<stop_event, device_event>>

WaitResume ==
    /\ ~stop_event
    /\ power_resume_event
    /\ power_resume_event' = FALSE
    /\ pc' = "enumerate"
    /\ UNCHANGED <<stop_event, device_event>>

\* Mutant of WaitDevice: the device event is the first of the handles.
WaitDeviceFirst ==
    /\ device_event
    /\ device_event' = FALSE
    /\ pc' = "report_lock"
    /\ UNCHANGED <<stop_event, power_resume_event>>

WaitDevice ==
    /\ ~stop_event
    /\ ~power_resume_event
    /\ device_event
    /\ device_event' = FALSE
    /\ pc' = "report_lock"
    /\ UNCHANGED <<stop_event, power_resume_event>>

\* wait_ms is 0 when the queue was not empty and INFINITE when it was.
WaitTimeout ==
    /\ ~(stop_event \/ power_resume_event \/ device_event)
    /\ ~drained
    /\ pc' = "report_lock"
    /\ UNCHANGED events

\* Mutant of WaitFailed: any other result of the wait is taken for a stop.
WaitFailedAsStop ==
    /\ "wait" \in Faults
    /\ pc' = "stopped"
    /\ UNCHANGED events

WaitFailed ==
    /\ "wait" \in Faults
    /\ pc' = "throw"
    /\ UNCHANGED events

Wait ==
    /\ pc = "wait"
    /\ WaitStop \/ WaitResume \/ WaitDevice \/ WaitTimeout \/ WaitFailed
    /\ UNCHANGED <<environment, status, listing, current, drained, handles,
                   queue, handler>>
-----------------------------------------------------------------------------
(* The end of main.                                                        *)

Stopped ==
    /\ pc = "stopped"
    /\ StatusOk("STOPPED")
    /\ pc' = "done"
    /\ UNCHANGED <<environment, listing, current, drained, handles, events,
                   queue, handler>>

\* An exception is reported as an error and thrown again ...
Throw ==
    /\ pc = "throw"
    /\ StatusError
    /\ pc' = "terminate"
    /\ UNCHANGED <<environment, listing, current, drained, handles, events,
                   queue, handler>>

\* ... through the noexcept entry point: the process is terminated, and the
\* manager marks the service as stopped.
Terminate ==
    /\ pc = "terminate"
    /\ StatusError
    /\ pc' = "dead"
    /\ UNCHANGED <<environment, listing, current, drained, handles, events,
                   queue, handler>>
-----------------------------------------------------------------------------
(* The control handler.  The dispatcher thread runs one control at a time, *)
(* for as long as the process lives.                                       *)

ProcessLives == pc \notin {"done", "dead"}

HandlerLabelOf(kind) ==
    CASE kind = "stop" -> "stop_report"
      [] kind = "resume" -> "resume_signal"
      [] kind = "arrival" -> "arrival_lock"
      [] kind = "other" -> "idle"

Dispatch ==
    /\ ProcessLives
    /\ hpc = "idle"
    /\ controls # <<>>
    /\ controls' = Tail(controls)
    /\ hpc' = HandlerLabelOf(Head(controls).kind)
    /\ hdevice' = Head(controls).device
    /\ UNCHANGED <<connected, installed, owed, announced, status, main, handles,
                   events, queue, arrival_failed>>

\* Mutant of StopReport: the event is not set.
StopReportOnly ==
    /\ hpc = "stop_report"
    /\ StatusPending("STOP_PENDING")
    /\ hpc' = "idle"
    /\ UNCHANGED <<environment, main, handles, events, queue, hdevice,
                   arrival_failed>>

\* SERVICE_CONTROL_STOP, sent by the manager or by the handler to itself.
StopReport ==
    /\ hpc = "stop_report"
    /\ StatusPending("STOP_PENDING")
    /\ hpc' = "stop_signal"
    /\ UNCHANGED <<environment, main, handles, events, queue, hdevice,
                   arrival_failed>>

StopSignal ==
    /\ hpc = "stop_signal"
    /\ stop_event' = TRUE
    /\ hpc' = "idle"
    /\ UNCHANGED <<environment, status, main, handles, power_resume_event,
                   device_event, queue, hdevice, arrival_failed>>

ResumeSignal ==
    /\ hpc = "resume_signal"
    /\ power_resume_event' = TRUE
    /\ hpc' = "idle"
    /\ UNCHANGED <<environment, status, main, handles, stop_event,
                   device_event, queue, hdevice, arrival_failed>>

\* device_arrival: an exception of acquire_mutex makes the handler stop the
\* service (the catch clauses of the lambda in main).
ArrivalLock ==
    /\ hpc = "arrival_lock"
    /\ \/ Acquire("handler") /\ hpc' = "arrival_queue" /\ UNCHANGED arrival_failed
       \/ AcquireThrows /\ hpc' = "stop_report" /\ arrival_failed' = TRUE
    /\ UNCHANGED <<environment, status, main, handles, events, devices,
                   hdevice>>

ArrivalQueue ==
    /\ hpc = "arrival_queue"
    /\ devices' = Append(devices, hdevice)
    /\ hpc' = "arrival_signal"
    /\ UNCHANGED <<environment, status, main, handles, events, devices_mutex,
                   hdevice, arrival_failed>>

ArrivalSignal ==
    /\ hpc = "arrival_signal"
    /\ device_event' = TRUE
    /\ hpc' = "arrival_unlock"
    /\ UNCHANGED <<environment, status, main, handles, stop_event,
                   power_resume_event, queue, hdevice, arrival_failed>>

ArrivalUnlock ==
    /\ hpc = "arrival_unlock"
    /\ Release("handler")
    /\ hpc' = "idle"
    /\ hdevice' = NoDevice
    /\ UNCHANGED <<environment, status, main, handles, events, devices,
                   arrival_failed>>
-----------------------------------------------------------------------------
(* The environment: the devices, the power, and the service control        *)
(* manager that turns what happens into controls.                          *)

\* The environment pauses while there is a backlog, and what happens when the
\* process has ended is of no concern.
Throttle == ProcessLives /\ Len(controls) + Len(devices) < MaxBacklog

Notified == "device_notification" \in handles

Plug(d) ==
    /\ Throttle
    /\ d \notin connected
    /\ connected' = connected \cup {d}
    /\ installed' \in {installed, installed \cup {d}}
    /\ owed' = owed \cup {d}
    /\ \/ /\ Notified
          /\ controls' = Append(controls, Arrival(d))
          /\ announced' = announced \cup {d}
       \/ ~Notified /\ UNCHANGED <<controls, announced>>
    /\ UNCHANGED <<status, main, handles, events, queue, handler>>

\* The computer has finished with the driver of a device; nobody is notified.
Install(d) ==
    /\ ProcessLives
    /\ d \in connected \ installed
    /\ installed' = installed \cup {d}
    /\ UNCHANGED <<connected, owed, announced, controls, status, main, handles,
                   events, queue, handler>>

\* The notification of a removal is one of the controls that control ignores.
Unplug(d) ==
    /\ Throttle
    /\ d \in connected
    /\ connected' = connected \ {d}
    /\ installed' = installed \ {d}
    /\ owed' = owed \ {d}
    /\ announced' = announced \ {d}
    /\ controls' = IF Notified THEN Append(controls, Simple("other")) ELSE controls
    /\ UNCHANGED <<status, main, handles, events, queue, handler>>

Resume ==
    /\ Throttle
    /\ owed' = connected
    /\ controls' = IF AcceptsControls
                   THEN Append(controls, Simple("resume"))
                   ELSE controls
    /\ UNCHANGED <<connected, installed, announced, status, main, handles, events,
                   queue, handler>>

StopRequested ==
    \/ Simple("stop") \in Range(controls)
    \/ hpc \in {"stop_report", "stop_signal"}

\* The manager sends a stop to a service that accepts it, and no second one
\* before the handler has returned from the first.
RequestStop ==
    /\ AcceptsControls
    /\ ProcessLives
    /\ ~StopRequested
    /\ controls' = Append(controls, Simple("stop"))
    /\ UNCHANGED <<connected, installed, owed, announced, status, main, handles,
                   events, queue, handler>>
-----------------------------------------------------------------------------
Main ==
    \/ RegisterHandler
    \/ Run
    \/ \E h \in Handle : CreateHandle(h)
    \/ Started
    \/ Enumerate
    \/ NextDevice
    \/ CheckStop
    \/ QueueLock
    \/ Queue
    \/ ReportLock
    \/ Report
    \/ Identify
    \/ Wait
    \/ Stopped
    \/ Throw
    \/ Terminate

\* A terminated process runs no handler.
Handler ==
    /\ pc # "dead"
    /\ \/ Dispatch
       \/ StopReport
       \/ StopSignal
       \/ ResumeSignal
       \/ ArrivalLock
       \/ ArrivalQueue
       \/ ArrivalSignal
       \/ ArrivalUnlock

Environment ==
    \/ \E d \in Device : Plug(d) \/ Install(d) \/ Unplug(d)
    \/ Resume
    \/ RequestStop

Next == Main \/ Handler \/ Environment

\* A thread waits for a mutex that the other one owns, or the main thread for its
\* events.  Such a wait may fail, but nobody can rely on it.
MutexIsTaken == "devices_mutex" \in handles /\ devices_mutex # "none"
MainWaits ==
    \/ pc \in {"queue_lock", "report_lock"} /\ MutexIsTaken
    \/ pc = "wait" /\ drained /\ ~(stop_event \/ power_resume_event \/ device_event)
HandlerWaits == hpc = "arrival_lock" /\ MutexIsTaken

\* Both threads run as long as they can; the environment owes nothing.
Spec ==
    Init /\ [][Next]_vars /\ WF_vars(Main /\ ~MainWaits) /\ WF_vars(Handler /\ ~HandlerWaits)

\* The same, but the device may keep Identify waiting for ever.
SlowDeviceSpec ==
    /\ Init /\ [][Next]_vars
    /\ WF_vars(Main /\ ~MainWaits /\ pc # "identify")
    /\ WF_vars(Handler /\ ~HandlerWaits)
-----------------------------------------------------------------------------
(* Properties.                                                             *)

\* The main thread never goes to sleep over a queue that is not empty: once
\* the handler that appended has returned, device_event is set (service.cc
\* lines 253-282 against 322-330).
NoLostWakeup ==
    (pc = "wait" /\ drained /\ devices # <<>> /\ hpc # "arrival_signal")
        => device_event

\* A device on its way from its notification, or from the queue, to identify().
OnItsWay(d) ==
    \/ Arrival(d) \in Range(controls)
    \/ hpc \in {"arrival_lock", "arrival_queue"} /\ hdevice = d
    \/ d \in Range(devices)
    \/ d = current /\ pc = "identify"

Covered(d) ==
    \/ OnItsWay(d)
    \/ pc \in Startup \cup {"enumerate"}
    \/ d \in listing
    \/ d = current /\ pc \in {"check_stop", "queue_lock", "queue"}
    \/ ResumePending

Stopping == stop_event \/ hpc \in {"stop_report", "stop_signal"}

\* As long as the service does not stop and has not failed, every device whose
\* arrival was notified is on its way to a report, and every other device that
\* is owed one is before the snapshot, in the enumeration, in the queue or behind
\* a resume.  This is why startup registers for notifications before run
\* enumerates, and why a resume during an enumeration is not lost.  What the
\* enumeration passes over, because it is not installed or because a call fails
\* (hid-enumerate.cc lines 74-78 and 94-112), is owed nothing unless it was
\* notified: see PassOver.
AccountedFor ==
    ~Stopping /\ pc \notin Failing
        => /\ \A d \in announced : OnItsWay(d)
           /\ \A d \in owed : Covered(d)

InQueueSection == pc \in {"queue", "report"}
InArrivalSection == hpc \in {"arrival_queue", "arrival_signal", "arrival_unlock"}

\* The two threads never work on devices_ at the same time: every access is
\* made by the owner of devices_mutex_, on every path that acquires it or
\* leaves it (lines 203-209, 253-268 and 322-330).
QueueExclusive ==
    /\ devices_mutex = "main" <=> InQueueSection
    /\ devices_mutex = "handler" <=> InArrivalSection

\* The service stops with success only when it was told to stop, by the manager
\* or by its own handler (lines 91-100 and 276); every other end is an error
\* (main, lines 109-130).
CleanStopOnlyOnRequest ==
    status.exit = "ok" => stop_event /\ pc = "done"

StatusStep ==
    \/ status'.state = status.state
    \/ status.state = "START_PENDING" /\ status'.state \in {"RUNNING", "STOPPED"}
    \/ status.state = "RUNNING" /\ status'.state \in {"STOP_PENDING", "STOPPED"}
    \/ status.state = "STOP_PENDING" /\ status'.state = "STOPPED"
    \/ status.exit = "error" /\ status'.state = "STOP_PENDING"
    \/ arrival_failed /\ status'.state = "STOP_PENDING"
    \/ arrival_failed /\ status.state = "STOP_PENDING" /\ status'.state = "RUNNING"

\* What the manager is told moves only forward: START_PENDING, RUNNING,
\* STOP_PENDING, STOPPED.  There are two exceptions.  A handler may report
\* STOP_PENDING over the STOPPED of a main thread that failed at the same time
\* (line 290 against 374-376).  And a handler that cannot have the mutex stops
\* the service in whatever state it is (lines 91-100): while it is starting, so
\* that the main thread reports RUNNING afterwards, or when it has stopped.
StatusOrder == [][StatusStep]_status

\* The control handler always returns to the manager, which waits for it, even
\* when a device keeps the main thread in identify(): the mutex is not held
\* there (line 268).
HandlerReturns == hpc # "idle" ~> hpc = "idle" \/ ~ProcessLives

\* A stop that was accepted is completed: the manager is not left waiting.
StopCompletes == status.state = "STOP_PENDING" ~> status.state = "STOPPED"

\* A service that lost one of its handles ends, and ends with an error, also
\* when startup did not notice (line 174): no thread waits for a null mutex.
IncompleteStartupFails ==
    handles # Handle /\ pc \notin Startup ~> status = [state |-> "STOPPED", exit |-> "error"]

\* A service that says it is RUNNING has everything startup creates (each
\* creation in startup, lines 153-188, is followed by a test that throws).
StartedComplete == status.state = "RUNNING" => handles = Handle
-----------------------------------------------------------------------------
(* The abstract service that this one implements.                          *)

Mode ==
    CASE pc \in Failing -> "failed"
      [] pc = "done" -> "stopped"
      [] pc \in Startup -> "starting"
      [] stop_event /\ pc \in {"wait", "stopped"} -> "spent"
      [] stop_event /\ pc \in QueueAll \cup ReportOne -> "stopping"
      [] OTHER -> "serving"

Promise == INSTANCE IdentifyService WITH mode <- Mode, MayFail <- Faults # {}

\* The service keeps the whole promise of IdentifyService: every device that
\* stays connected is reported, again after a resume, at most one report is
\* sent once the stop is signalled, and the stop is completed.
ImplementsPromise == Promise!Spec

\* The part of it that says what a step may do.
ImplementsSteps == Promise!Init /\ [][Promise!Next]_(Promise!vars)
=============================================================================
