----------------------- MODULE WindowsHIDService_proofs -----------------------
(***************************************************************************)
(* Theorems about WindowsHIDService for every set of devices and every     *)
(* bound, with machine-checked proofs.                                     *)
(***************************************************************************)
EXTENDS WindowsHIDService, SequenceTheorems, TLAPS

(***************************************************************************)
(* TypeOK is not inductive: what is appended to the queue is a device only *)
(* because of where the threads are when they have one in hand.            *)
(***************************************************************************)
InHand ==
    /\ pc \in {"check_stop", "queue_lock", "queue", "identify"} => current \in Device
    /\ hpc \in {"arrival_lock", "arrival_queue"} => hdevice \in Device

TypeInv == TypeOK /\ InHand

USE DEF environment, main, handler, events, queue

LEMMA ControlFacts ==
    /\ \A d \in Device : Arrival(d) \in Control
    /\ \A k \in {"stop", "resume", "other"} : Simple(k) \in Control
    /\ \A c \in Control :
          /\ c.device \in Device \cup {NoDevice}
          /\ HandlerLabelOf(c.kind) \in HandlerLabel
          /\ HandlerLabelOf(c.kind) \in {"idle", "stop_report", "resume_signal", "arrival_lock"}
          /\ HandlerLabelOf(c.kind) = "arrival_lock" => c.kind = "arrival" /\ c.device \in Device
BY DEF Control, Arrival, Simple, HandlerLabelOf, HandlerLabel

LEMMA InitTypeInv == Init => TypeInv
<1> SUFFICES ASSUME Init PROVE TypeInv
  OBVIOUS
<1>1. controls \in Seq(Control) /\ devices \in Seq(Device)
  BY DEF Init
<1>2. status \in [state : State, exit : {"none", "ok", "error"}]
  BY DEF Init, State
<1>3. pc \in MainLabel /\ hpc \in HandlerLabel
  BY DEF Init, MainLabel, Startup, HandlerLabel
<1> QED BY <1>1, <1>2, <1>3 DEF Init, TypeInv, TypeOK, InHand

LEMMA MainTypeInv == TypeInv /\ Main => TypeInv'
<1> SUFFICES ASSUME TypeInv, Main PROVE TypeInv'
  OBVIOUS
<1> USE DEF TypeInv, TypeOK, InHand, State, MainLabel, Startup, QueueAll,
            ReportOne, Failing, HandlerLabel, Handle
<1>1. CASE RegisterHandler
  BY <1>1 DEF RegisterHandler
<1>2. CASE Run
  BY <1>2 DEF Run, StatusPending, ReportStatus
<1>3. CASE \E h \in Handle : CreateHandle(h)
  <2> PICK h \in Handle : CreateHandle(h)
    BY <1>3
  <2>1. AfterCreate(h) \in {"power_resume_event", "device_event", "devices_mutex",
                            "device_notification", "started"}
    BY DEF AfterCreate
  <2>2. pc' \in {"power_resume_event", "device_event", "devices_mutex",
                 "device_notification", "started", "throw"}
    BY <2>1 DEF CreateHandle
  <2>3. handles' \subseteq Handle
    BY DEF CreateHandle
  <2> QED BY <2>2, <2>3 DEF CreateHandle
<1>4. CASE Started
  BY <1>4 DEF Started, StatusOk, ReportStatus
<1>5. CASE Enumerate
  BY <1>5 DEF Enumerate
<1>6. CASE NextDevice
  <2>1. UNCHANGED <<connected, installed, announced, controls, status, drained,
                    handles, events, queue, handler>>
    BY <1>6 DEF NextDevice
  <2>2. /\ listing' \subseteq Device /\ current' \in Device \cup {NoDevice}
        /\ pc' \in {"next_device", "check_stop", "report_lock"}
        /\ pc' = "check_stop" => current' \in Device
    BY <1>6 DEF NextDevice
  <2>3. announced' \subseteq owed' /\ owed' \subseteq connected
    BY <1>6 DEF NextDevice, PassOver
  <2> QED BY <2>1, <2>2, <2>3
<1>7. CASE CheckStop
  BY <1>7 DEF CheckStop
<1>8. CASE QueueLock
  BY <1>8 DEF QueueLock, MainAcquires, Acquire, AcquireThrows
<1>9. CASE Queue
  BY <1>9 DEF Queue, Release
<1>10. CASE ReportLock
  BY <1>10 DEF ReportLock, MainAcquires, Acquire, AcquireThrows
<1>11. CASE Report
  <2>1. devices' \in Seq(Device) /\ current' \in Device \cup {NoDevice}
    BY <1>11 DEF Report
  <2>2. drained' \in BOOLEAN
    BY <1>11 DEF Report
  <2>3. pc' = "wait" \/ (pc' = "identify" /\ current' \in Device)
    BY <1>11 DEF Report
  <2> QED BY <1>11, <2>1, <2>2, <2>3 DEF Report, Release
<1>12. CASE Identify
  BY <1>12 DEF Identify
<1>13. CASE Wait
  <2> USE <1>13 DEF Wait
  <2>1. pc' \in {"stopped", "enumerate", "report_lock", "throw"}
    BY DEF WaitStop, WaitResume, WaitDevice, WaitTimeout, WaitFailed
  <2>2. stop_event' \in BOOLEAN /\ power_resume_event' \in BOOLEAN /\ device_event' \in BOOLEAN
    BY Zenon DEF WaitStop, WaitResume, WaitDevice, WaitTimeout, WaitFailed
  <2> QED BY <2>1, <2>2
<1>14. CASE Stopped
  BY <1>14 DEF Stopped, StatusOk, ReportStatus
<1>15. CASE Throw
  BY <1>15 DEF Throw, StatusError, ReportStatus
<1>16. CASE Terminate
  BY <1>16 DEF Terminate, StatusError, ReportStatus
<1> QED
  BY <1>1, <1>2, <1>3, <1>4, <1>5, <1>6, <1>7, <1>8, <1>9, <1>10, <1>11, <1>12,
     <1>13, <1>14, <1>15, <1>16 DEF Main

LEMMA HandlerTypeInv == TypeInv /\ Handler => TypeInv'
<1> SUFFICES ASSUME TypeInv, Handler PROVE TypeInv'
  OBVIOUS
<1> USE DEF TypeInv, TypeOK, InHand, State
<1>1. CASE Dispatch
  <2>1. Head(controls) \in Control /\ Tail(controls) \in Seq(Control)
    BY <1>1 DEF Dispatch
  <2> QED BY <1>1, <2>1, ControlFacts DEF Dispatch
<1>2. CASE StopReport
  BY <1>2 DEF StopReport, StatusPending, ReportStatus, HandlerLabel
<1>3. CASE StopSignal
  BY <1>3 DEF StopSignal, HandlerLabel
<1>4. CASE ResumeSignal
  BY <1>4 DEF ResumeSignal, HandlerLabel
<1>5. CASE ArrivalLock
  <2>1. /\ hpc' \in {"arrival_queue", "stop_report"} /\ hpc = "arrival_lock"
        /\ devices_mutex' \in {"none", "main", "handler"}
        /\ UNCHANGED <<environment, status, main, handles, events, devices, hdevice>>
    BY <1>5 DEF ArrivalLock, Acquire, AcquireThrows
  <2>2. arrival_failed' \in BOOLEAN
    BY <1>5, Zenon DEF ArrivalLock
  <2> QED BY <2>1, <2>2 DEF HandlerLabel
<1>6. CASE ArrivalQueue
  BY <1>6 DEF ArrivalQueue, HandlerLabel
<1>7. CASE ArrivalSignal
  BY <1>7 DEF ArrivalSignal, HandlerLabel
<1>8. CASE ArrivalUnlock
  BY <1>8 DEF ArrivalUnlock, Release, HandlerLabel
<1> QED
  BY <1>1, <1>2, <1>3, <1>4, <1>5, <1>6, <1>7, <1>8 DEF Handler

LEMMA EnvironmentTypeInv == TypeInv /\ Environment => TypeInv'
<1> SUFFICES ASSUME TypeInv, Environment PROVE TypeInv'
  OBVIOUS
<1> USE DEF TypeInv, TypeOK, InHand
<1>a. ASSUME NEW c \in Control PROVE Append(controls, c) \in Seq(Control)
  OBVIOUS
<1>1. ASSUME NEW d \in Device, Plug(d) PROVE TypeInv'
  <2>a. Arrival(d) \in Control
    BY ControlFacts
  <2>b. controls' = controls \/ controls' = Append(controls, Arrival(d))
    BY <1>1 DEF Plug
  <2>c. controls' \in Seq(Control)
    BY <1>a, <2>a, <2>b
  <2>d. announced' \subseteq owed'
    BY <1>1 DEF Plug
  <2>2. connected' \subseteq Device /\ installed' \subseteq connected' /\ owed' \subseteq connected'
    BY <1>1 DEF Plug
  <2> QED BY <1>1, <2>c, <2>d, <2>2 DEF Plug
<1>2. ASSUME NEW d \in Device, Install(d) \/ Unplug(d) PROVE TypeInv'
  <2>1. controls' \in Seq(Control)
    BY <1>2, <1>a, ControlFacts DEF Install, Unplug
  <2>2. /\ connected' \subseteq Device /\ installed' \subseteq connected'
        /\ owed' \subseteq connected' /\ announced' \subseteq owed'
    BY <1>2 DEF Install, Unplug
  <2> QED BY <1>2, <2>1, <2>2 DEF Install, Unplug
<1>3. CASE Resume
  BY <1>3, ControlFacts DEF Resume
<1>4. CASE RequestStop
  BY <1>4, ControlFacts DEF RequestStop
<1> QED BY <1>1, <1>2, <1>3, <1>4 DEF Environment

LEMMA TypeInvInductive == TypeInv /\ [Next]_vars => TypeInv'
<1> SUFFICES ASSUME TypeInv, [Next]_vars PROVE TypeInv'
  OBVIOUS
<1>1. CASE UNCHANGED vars
  BY <1>1 DEF vars, TypeInv, TypeOK, InHand
<1> QED
  BY <1>1, MainTypeInv, HandlerTypeInv, EnvironmentTypeInv DEF Next

\* Every variable keeps its type, and owed names connected devices only.
THEOREM TypeCorrect == Spec => []TypeOK
<1>1. TypeInv => TypeOK
  BY DEF TypeInv
<1> QED BY <1>1, InitTypeInv, TypeInvInductive, PTL DEF Spec
-----------------------------------------------------------------------------
(* Mutual exclusion on the queue, and the wakeup of the main thread.       *)

\* NoLostWakeup, from the moment report_one_device has released the mutex.
Wakeup ==
    pc \in {"identify", "wait"} /\ drained /\ devices # <<>>
        => device_event \/ hpc = "arrival_signal"

QueueInv == TypeOK /\ QueueExclusive /\ Wakeup

LEMMA InitQueueInv == Init => QueueInv
BY InitTypeInv DEF Init, TypeInv, QueueInv, QueueExclusive, Wakeup,
   InQueueSection, InArrivalSection

LEMMA MainQueueInv == TypeInv /\ QueueInv /\ Main => QueueInv'
<1> SUFFICES ASSUME TypeInv, QueueInv, Main PROVE QueueInv'
  OBVIOUS
<1>0. TypeOK'
  BY MainTypeInv DEF TypeInv
<1> USE <1>0 DEF QueueInv, QueueExclusive, Wakeup, InQueueSection, InArrivalSection
<1>1. CASE RegisterHandler
  BY <1>1 DEF RegisterHandler
<1>2. CASE Run
  BY <1>2 DEF Run
<1>3. CASE \E h \in Handle : CreateHandle(h)
  BY <1>3 DEF CreateHandle, AfterCreate, Handle
<1>4. CASE Started
  BY <1>4 DEF Started
<1>5. CASE Enumerate
  BY <1>5 DEF Enumerate
<1>6. CASE NextDevice
  BY <1>6 DEF NextDevice
<1>7. CASE CheckStop
  BY <1>7 DEF CheckStop
<1>8. CASE QueueLock
  BY <1>8 DEF QueueLock, MainAcquires, Acquire, AcquireThrows
<1>9. CASE Queue
  BY <1>9 DEF Queue, Release
<1>10. CASE ReportLock
  BY <1>10 DEF ReportLock, MainAcquires, Acquire, AcquireThrows
<1>11. CASE Report
  BY <1>11 DEF Report, Release
<1>12. CASE Identify
  BY <1>12 DEF Identify
<1>13. CASE Wait
  BY <1>13 DEF Wait, WaitStop, WaitResume, WaitDevice, WaitTimeout, WaitFailed
<1>14. CASE Stopped
  BY <1>14 DEF Stopped
<1>15. CASE Throw
  BY <1>15 DEF Throw
<1>16. CASE Terminate
  BY <1>16 DEF Terminate
<1> QED
  BY <1>1, <1>2, <1>3, <1>4, <1>5, <1>6, <1>7, <1>8, <1>9, <1>10, <1>11, <1>12,
     <1>13, <1>14, <1>15, <1>16 DEF Main

LEMMA HandlerQueueInv == TypeInv /\ QueueInv /\ Handler => QueueInv'
<1> SUFFICES ASSUME TypeInv, QueueInv, Handler PROVE QueueInv'
  OBVIOUS
<1>0. TypeOK'
  BY HandlerTypeInv DEF TypeInv
<1> USE <1>0 DEF QueueInv, QueueExclusive, Wakeup, InQueueSection, InArrivalSection
<1>1. CASE Dispatch
  <2>1. Head(controls) \in Control
    BY <1>1 DEF Dispatch, TypeOK
  <2>2. hpc' \in {"idle", "stop_report", "resume_signal", "arrival_lock"}
    BY <1>1, <2>1, ControlFacts DEF Dispatch
  <2> QED BY <1>1, <2>2 DEF Dispatch
<1>2. CASE StopReport
  BY <1>2 DEF StopReport
<1>3. CASE StopSignal
  BY <1>3 DEF StopSignal
<1>4. CASE ResumeSignal
  BY <1>4 DEF ResumeSignal
<1>5. CASE ArrivalLock
  BY <1>5 DEF ArrivalLock, Acquire, AcquireThrows
<1>6. CASE ArrivalQueue
  BY <1>6 DEF ArrivalQueue
<1>7. CASE ArrivalSignal
  BY <1>7 DEF ArrivalSignal
<1>8. CASE ArrivalUnlock
  BY <1>8 DEF ArrivalUnlock, Release
<1> QED
  BY <1>1, <1>2, <1>3, <1>4, <1>5, <1>6, <1>7, <1>8 DEF Handler

LEMMA QueueInvInductive == TypeInv /\ QueueInv /\ [Next]_vars => QueueInv'
<1> SUFFICES ASSUME TypeInv, QueueInv, [Next]_vars PROVE QueueInv'
  OBVIOUS
<1>0. TypeOK'
  BY TypeInvInductive DEF TypeInv
<1>1. CASE UNCHANGED vars
  BY <1>0, <1>1 DEF vars, QueueInv, QueueExclusive, Wakeup, InQueueSection, InArrivalSection
<1>2. CASE Environment
  BY <1>0, <1>2 DEF Environment, Plug, Install, Unplug, Resume, RequestStop,
     QueueInv, QueueExclusive, Wakeup, InQueueSection, InArrivalSection
<1> QED
  BY <1>1, <1>2, MainQueueInv, HandlerQueueInv DEF Next

LEMMA QueueInvariant == Spec => []QueueInv
BY InitTypeInv, TypeInvInductive, InitQueueInv, QueueInvInductive, PTL DEF Spec

\* No two threads are ever inside a critical section on devices_, whatever
\* calls fail.
THEOREM QueueIsExclusive == Spec => []QueueExclusive
BY QueueInvariant, PTL DEF QueueInv

\* The main thread never sleeps over a device in the queue that nobody is
\* about to signal.
THEOREM WakeupIsNotLost == Spec => []NoLostWakeup
<1>1. QueueInv => NoLostWakeup
  BY DEF QueueInv, Wakeup, NoLostWakeup
<1> QED BY <1>1, QueueInvariant, PTL
-----------------------------------------------------------------------------
(* How far startup has got, and what follows for the controls and the      *)
(* status.                                                                 *)

Serving == QueueAll \cup ReportOne \cup {"wait"}
Ended == {"stopped", "done"}

\* Nothing is dispatched before the notification is registered, and the mutex,
\* which comes before it, can be missing only if CreateMutex may fail.
CreatedInv ==
    /\ pc = "devices_mutex" => "device_event" \in handles
    /\ pc \in {"started"} \cup Serving \cup Ended => "device_notification" \in handles
    /\ status.state = "RUNNING" => "device_notification" \in handles
    /\ hpc # "idle" \/ controls # <<>> => "device_notification" \in handles
    /\ pc = "device_notification" => "devices_mutex" \in handles \cup Faults
    /\ "device_notification" \in handles => "devices_mutex" \in handles \cup Faults
    /\ arrival_failed => Faults # {} /\ "device_notification" \in handles

\* The status that goes with each label of the main thread.
StatusInv ==
    /\ pc \in Ended => stop_event
    /\ status.exit = "error" => pc \in {"terminate", "dead"}
    /\ status.exit = "ok" => pc = "done"
    /\ status.state = "START_PENDING" => pc \in Startup \cup {"throw", "terminate"}
    /\ status.state = "STOP_PENDING" => stop_event \/ hpc = "stop_signal"
    /\ status.state = "STOPPED" => status.exit # "none"
    /\ pc \in {"main", "run"} \cup Handle
           => "device_notification" \notin handles /\ status.state = "START_PENDING"
    /\ pc = "started" => \/ status.state = "START_PENDING"
                         \/ arrival_failed /\ status.state = "STOP_PENDING"

OneStop(s) ==
    \A i, j \in 1 .. Len(s) : s[i] = Simple("stop") /\ s[j] = Simple("stop") => i = j

StopInHand == hpc \in {"stop_report", "stop_signal"}

\* Unless the handler stops the service by itself, there is at most one stop, it
\* is sent to a service that is RUNNING, and its signal follows its report.
StopInv ==
    \/ arrival_failed
    \/ /\ OneStop(controls)
       /\ StopInHand => Simple("stop") \notin Range(controls)
       /\ Simple("stop") \in Range(controls) \/ hpc = "stop_report"
              => status.state = "RUNNING" \/ status.exit = "error"
       /\ hpc = "stop_signal" \/ stop_event => status.state \in {"STOP_PENDING", "STOPPED"}
       /\ pc \in Startup => ~stop_event /\ ~StopRequested

OrderInv == TypeInv /\ CreatedInv /\ StatusInv /\ StopInv

LEMMA AppendFacts ==
    ASSUME NEW S, NEW s \in Seq(S), NEW e \in S
    PROVE  /\ Range(Append(s, e)) = Range(s) \cup {e}
           /\ Append(s, e) # <<>>
<1>1. Append(s, e) \in Seq(S) /\ Len(Append(s, e)) = Len(s) + 1
  OBVIOUS
<1>2. \A i \in 1 .. Len(s) : Append(s, e)[i] = s[i]
  OBVIOUS
<1>3. Append(s, e)[Len(s) + 1] = e
  OBVIOUS
<1>4. Range(s) = {s[i] : i \in 1 .. Len(s)}
  BY RangeEquality
<1>5. Range(Append(s, e)) = {Append(s, e)[i] : i \in 1 .. Len(s) + 1}
  BY <1>1, RangeEquality
<1>6. Range(Append(s, e)) = Range(s) \cup {e}
  <2>1. ASSUME NEW x \in Range(s) PROVE x \in Range(Append(s, e))
    BY <2>1, <1>2, <1>4, <1>5
  <2>2. e \in Range(Append(s, e))
    BY <1>3, <1>5
  <2>3. ASSUME NEW x \in Range(Append(s, e)) PROVE x \in Range(s) \cup {e}
    BY <2>3, <1>2, <1>3, <1>4, <1>5
  <2> QED BY <2>1, <2>2, <2>3
<1> QED BY <1>1, <1>6

LEMMA TailFacts ==
    ASSUME NEW S, NEW s \in Seq(S), s # <<>>
    PROVE  /\ Range(s) = {Head(s)} \cup Range(Tail(s))
<1>1. Tail(s) \in Seq(S) /\ Len(Tail(s)) = Len(s) - 1
      /\ \A i \in 1 .. Len(Tail(s)) : Tail(s)[i] = s[i + 1]
  BY HeadTailProperties
<1>2. Head(s) = s[1] /\ 1 \in 1 .. Len(s)
  OBVIOUS
<1>3. Range(s) = {s[i] : i \in 1 .. Len(s)}
  BY RangeEquality
<1>4. Range(Tail(s)) = {Tail(s)[i] : i \in 1 .. Len(Tail(s))}
  BY <1>1, RangeEquality
<1>5. ASSUME NEW x \in Range(s), x # Head(s) PROVE x \in Range(Tail(s))
  <2> PICK i \in 1 .. Len(s) : x = s[i]
    BY <1>3
  <2>1. i - 1 \in 1 .. Len(Tail(s)) /\ Tail(s)[i - 1] = x
    BY <1>1, <1>2, <1>5
  <2> QED BY <2>1, <1>4
<1>6. ASSUME NEW x \in Range(Tail(s)) PROVE x \in Range(s)
  BY <1>1, <1>3, <1>4
<1> QED BY <1>2, <1>3, <1>5, <1>6

LEMMA OneStopAppend ==
    ASSUME NEW s \in Seq(Control), NEW c \in Control, OneStop(s),
           c # Simple("stop") \/ Simple("stop") \notin Range(s)
    PROVE  OneStop(Append(s, c))
<1>1. Range(s) = {s[i] : i \in 1 .. Len(s)}
  BY RangeEquality
<1> QED BY <1>1 DEF OneStop

LEMMA OneStopTail ==
    ASSUME NEW s \in Seq(Control), s # <<>>, OneStop(s)
    PROVE  /\ OneStop(Tail(s))
           /\ Head(s) = Simple("stop") => Simple("stop") \notin Range(Tail(s))
<1>1. Tail(s) \in Seq(Control) /\ Len(Tail(s)) = Len(s) - 1
      /\ \A i \in 1 .. Len(Tail(s)) : Tail(s)[i] = s[i + 1]
  BY HeadTailProperties
<1>2. Head(s) = s[1]
  OBVIOUS
<1>3. Range(Tail(s)) = {Tail(s)[i] : i \in 1 .. Len(Tail(s))}
  BY <1>1, RangeEquality
<1>4. OneStop(Tail(s))
  BY <1>1 DEF OneStop
<1>5. ASSUME Head(s) = Simple("stop"), Simple("stop") \in Range(Tail(s)) PROVE FALSE
  <2> PICK i \in 1 .. Len(Tail(s)) : Tail(s)[i] = Simple("stop")
    BY <1>3, <1>5
  <2> QED BY <1>1, <1>2, <1>5 DEF OneStop
<1> QED BY <1>4, <1>5

LEMMA InitOrderInv == Init => OrderInv
<1> SUFFICES ASSUME Init PROVE OrderInv
  OBVIOUS
<1>1. Range(controls) = {}
  BY DEF Init, Range
<1>2. OneStop(controls)
  BY DEF Init, OneStop
<1>3. StopInv
  BY <1>1, <1>2 DEF Init, StopInv, StopInHand, StopRequested
<1>4. CreatedInv /\ StatusInv
  BY DEF Init, CreatedInv, StatusInv, Startup, Serving, QueueAll, ReportOne, Ended, Handle
<1> QED
  BY <1>3, <1>4, InitTypeInv DEF OrderInv

LEMMA MainCreatedInv ==
    ASSUME OrderInv, Main
    PROVE  CreatedInv'
<1>0. TypeOK /\ CreatedInv /\ StatusInv
  BY DEF OrderInv, TypeInv
<1> USE <1>0 DEF CreatedInv, StatusInv, Startup, Handle, Serving, QueueAll, ReportOne, Ended
<1>1. CASE RegisterHandler
  BY <1>1 DEF RegisterHandler
<1>2. CASE Run
  BY <1>2 DEF Run, StatusPending, ReportStatus
<1>3. CASE \E h \in Handle : CreateHandle(h)
  BY <1>3 DEF CreateHandle, AfterCreate, Tested, Handle
<1>4. CASE Started
  BY <1>4 DEF Started, StatusOk, ReportStatus
<1>5. CASE Enumerate
  BY <1>5 DEF Enumerate
<1>6. CASE NextDevice
  BY <1>6 DEF NextDevice
<1>7. CASE CheckStop
  BY <1>7 DEF CheckStop
<1>8. CASE QueueLock
  BY <1>8 DEF QueueLock, MainAcquires, Acquire, AcquireThrows
<1>9. CASE Queue
  BY <1>9 DEF Queue, Release
<1>10. CASE ReportLock
  BY <1>10 DEF ReportLock, MainAcquires, Acquire, AcquireThrows
<1>11. CASE Report
  BY <1>11 DEF Report, Release
<1>12. CASE Identify
  BY <1>12 DEF Identify
<1>13. CASE Wait
  BY <1>13 DEF Wait, WaitStop, WaitResume, WaitDevice, WaitTimeout, WaitFailed
<1>14. CASE Stopped
  BY <1>14 DEF Stopped, StatusOk, ReportStatus
<1>15. CASE Throw
  BY <1>15 DEF Throw, StatusError, ReportStatus
<1>16. CASE Terminate
  BY <1>16 DEF Terminate, StatusError, ReportStatus
<1> QED
  BY <1>1, <1>2, <1>3, <1>4, <1>5, <1>6, <1>7, <1>8, <1>9, <1>10, <1>11, <1>12,
     <1>13, <1>14, <1>15, <1>16 DEF Main

LEMMA MainStatusInv ==
    ASSUME OrderInv, Main
    PROVE  StatusInv'
<1>0. CreatedInv /\ StatusInv
  BY DEF OrderInv
<1> arrival_failed' = arrival_failed /\ hpc' = hpc /\ stop_event' = stop_event
  BY DEF Main, RegisterHandler, Run, CreateHandle, Started, Enumerate, NextDevice,
     CheckStop, QueueLock, Queue, ReportLock, MainAcquires, Report, Identify,
     Wait, WaitStop, WaitResume, WaitDevice, WaitTimeout, WaitFailed, Stopped,
     Throw, Terminate
<1> USE <1>0 DEF CreatedInv, StatusInv, Startup, Handle, Serving, QueueAll, ReportOne, Ended
<1>1. CASE RegisterHandler
  BY <1>1 DEF RegisterHandler
<1>2. CASE Run
  BY <1>2 DEF Run, StatusPending, ReportStatus
<1>3. CASE \E h \in Handle : CreateHandle(h)
  <2> PICK h \in Handle : CreateHandle(h)
    BY <1>3
  <2>1. pc = h /\ UNCHANGED <<status, controls, hpc>> /\ (pc' = "throw" \/ pc' = AfterCreate(h))
    BY DEF CreateHandle
  <2>2. pc' = "throw" \/ (pc' = "started" /\ h = "device_notification")
        \/ (pc' \in Handle /\ h # "device_notification" /\ pc' # "main" /\ pc' # "run")
    BY <2>1 DEF AfterCreate
  <2>3. h # "device_notification" => ("device_notification" \in handles' <=> "device_notification" \in handles)
    BY DEF CreateHandle
  <2> QED BY <2>1, <2>2, <2>3
<1>4. CASE Started
  BY <1>4 DEF Started, StatusOk, ReportStatus
<1>5. CASE Enumerate
  BY <1>5 DEF Enumerate
<1>6. CASE NextDevice
  <2>1. /\ UNCHANGED <<controls, status, handles>> /\ pc = "next_device"
        /\ pc' \in {"next_device", "check_stop", "report_lock"}
    BY <1>6 DEF NextDevice
  <2> QED BY <2>1
<1>7. CASE CheckStop
  BY <1>7 DEF CheckStop
<1>8. CASE QueueLock
  BY <1>8 DEF QueueLock, MainAcquires, Acquire, AcquireThrows
<1>9. CASE Queue
  BY <1>9 DEF Queue, Release
<1>10. CASE ReportLock
  BY <1>10 DEF ReportLock, MainAcquires, Acquire, AcquireThrows
<1>11. CASE Report
  BY <1>11 DEF Report, Release
<1>12. CASE Identify
  BY <1>12 DEF Identify
<1>13. CASE Wait
  BY <1>13 DEF Wait, WaitStop, WaitResume, WaitDevice, WaitTimeout, WaitFailed
<1>14. CASE Stopped
  BY <1>14 DEF Stopped, StatusOk, ReportStatus
<1>15. CASE Throw
  BY <1>15 DEF Throw, StatusError, ReportStatus
<1>16. CASE Terminate
  BY <1>16 DEF Terminate, StatusError, ReportStatus
<1> QED
  BY <1>1, <1>2, <1>3, <1>4, <1>5, <1>6, <1>7, <1>8, <1>9, <1>10, <1>11, <1>12,
     <1>13, <1>14, <1>15, <1>16 DEF Main

LEMMA MainStopInv ==
    ASSUME OrderInv, Main
    PROVE  StopInv'
<1>0. StatusInv /\ StopInv
  BY DEF OrderInv
<1> controls' = controls /\ hpc' = hpc /\ stop_event' = stop_event
    /\ arrival_failed' = arrival_failed
  BY DEF Main, RegisterHandler, Run, CreateHandle, Started, Enumerate, NextDevice,
     CheckStop, QueueLock, Queue, ReportLock, MainAcquires, Report, Identify,
     Wait, WaitStop, WaitResume, WaitDevice, WaitTimeout, WaitFailed, Stopped,
     Throw, Terminate
<1> USE <1>0 DEF StatusInv, StopInv, StopInHand, StopRequested, Startup, Handle,
        Serving, QueueAll, ReportOne, Ended
<1>1. CASE RegisterHandler
  BY <1>1 DEF RegisterHandler
<1>2. CASE Run
  BY <1>2 DEF Run, StatusPending, ReportStatus
<1>3. CASE \E h \in Handle : CreateHandle(h)
  <2> PICK h \in Handle : CreateHandle(h)
    BY <1>3
  <2>1. UNCHANGED status /\ (pc' \in Startup => pc \in Startup)
    BY DEF CreateHandle
  <2> QED BY <2>1
<1>4. CASE Started
  BY <1>4 DEF Started, StatusOk, ReportStatus
<1>5. CASE Enumerate
  BY <1>5 DEF Enumerate
<1>6. CASE NextDevice
  <2>1. /\ UNCHANGED <<controls, status, handles>> /\ pc = "next_device"
        /\ pc' \in {"next_device", "check_stop", "report_lock"}
    BY <1>6 DEF NextDevice
  <2> QED BY <2>1
<1>7. CASE CheckStop
  BY <1>7 DEF CheckStop
<1>8. CASE QueueLock
  BY <1>8 DEF QueueLock, MainAcquires, Acquire, AcquireThrows
<1>9. CASE Queue
  BY <1>9 DEF Queue, Release
<1>10. CASE ReportLock
  BY <1>10 DEF ReportLock, MainAcquires, Acquire, AcquireThrows
<1>11. CASE Report
  BY <1>11 DEF Report, Release
<1>12. CASE Identify
  BY <1>12 DEF Identify
<1>13. CASE Wait
  BY <1>13 DEF Wait, WaitStop, WaitResume, WaitDevice, WaitTimeout, WaitFailed
<1>14. CASE Stopped
  BY <1>14 DEF Stopped, StatusOk, ReportStatus
<1>15. CASE Throw
  BY <1>15 DEF Throw, StatusError, ReportStatus
<1>16. CASE Terminate
  BY <1>16 DEF Terminate, StatusError, ReportStatus
<1> QED
  BY <1>1, <1>2, <1>3, <1>4, <1>5, <1>6, <1>7, <1>8, <1>9, <1>10, <1>11, <1>12,
     <1>13, <1>14, <1>15, <1>16 DEF Main

LEMMA HandlerCreatedInv ==
    ASSUME OrderInv, Handler
    PROVE  CreatedInv'
<1>0. TypeOK /\ CreatedInv
  BY DEF OrderInv, TypeInv
<1> USE <1>0 DEF CreatedInv
<1>1. CASE Dispatch
  BY <1>1 DEF Dispatch
<1>2. CASE StopReport
  BY <1>2 DEF StopReport, StatusPending, ReportStatus
<1>3. CASE StopSignal
  BY <1>3 DEF StopSignal
<1>4. CASE ResumeSignal
  BY <1>4 DEF ResumeSignal
<1>5. CASE ArrivalLock
  <2>1. arrival_failed' => Faults # {} /\ "device_notification" \in handles
    BY <1>5 DEF ArrivalLock, Acquire, AcquireThrows
  <2> QED BY <1>5, <2>1 DEF ArrivalLock, Acquire, AcquireThrows
<1>6. CASE ArrivalQueue
  BY <1>6 DEF ArrivalQueue
<1>7. CASE ArrivalSignal
  BY <1>7 DEF ArrivalSignal
<1>8. CASE ArrivalUnlock
  BY <1>8 DEF ArrivalUnlock
<1> QED
  BY <1>1, <1>2, <1>3, <1>4, <1>5, <1>6, <1>7, <1>8 DEF Handler

LEMMA HandlerStatusInv ==
    ASSUME OrderInv, Handler
    PROVE  StatusInv'
<1>0. TypeOK /\ CreatedInv /\ StatusInv /\ StopInv
  BY DEF OrderInv, TypeInv
<1> USE <1>0 DEF StatusInv
<1>1. CASE Dispatch
  BY <1>1 DEF Dispatch
<1>2. CASE StopReport
  <2>1. "device_notification" \in handles
    BY <1>2 DEF StopReport, CreatedInv
  <2>2. pc = "started" => arrival_failed
    BY <1>2 DEF StopReport, StopInv, StopRequested, Startup
  <2> QED BY <1>2, <2>1, <2>2 DEF StopReport, StatusPending, ReportStatus
<1>3. CASE StopSignal
  BY <1>3 DEF StopSignal
<1>4. CASE ResumeSignal
  BY <1>4 DEF ResumeSignal
<1>5. CASE ArrivalLock
  BY <1>5 DEF ArrivalLock
<1>6. CASE ArrivalQueue
  BY <1>6 DEF ArrivalQueue
<1>7. CASE ArrivalSignal
  BY <1>7 DEF ArrivalSignal
<1>8. CASE ArrivalUnlock
  BY <1>8 DEF ArrivalUnlock
<1> QED
  BY <1>1, <1>2, <1>3, <1>4, <1>5, <1>6, <1>7, <1>8 DEF Handler

LEMMA HandlerStopInv ==
    ASSUME OrderInv, Handler
    PROVE  StopInv'
<1> SUFFICES ASSUME ~arrival_failed' PROVE StopInv'
  BY DEF StopInv
<1>0. TypeOK /\ StopInv /\ ~arrival_failed
  BY DEF OrderInv, TypeInv, Handler, Dispatch, StopReport, StopSignal, ResumeSignal,
     ArrivalLock, ArrivalQueue, ArrivalSignal, ArrivalUnlock
<1>1. CASE Dispatch
  <2> DEFINE c == Head(controls)
             rest == Tail(controls)
  <2>1. controls \in Seq(Control) /\ controls # <<>> /\ controls' = rest
    BY <1>0, <1>1 DEF Dispatch, TypeOK
  <2>2. c \in Control /\ Range(controls) = {c} \cup Range(rest)
    BY <2>1, TailFacts
  <2>3. OneStop(rest) /\ (c = Simple("stop") => Simple("stop") \notin Range(rest))
    BY <1>0, <2>1, OneStopTail DEF StopInv
  <2>4. hpc' = HandlerLabelOf(c.kind) /\ hpc = "idle"
    BY <1>1 DEF Dispatch
  <2>5. hpc' \in {"idle", "stop_report", "resume_signal", "arrival_lock"}
    BY <2>2, <2>4, ControlFacts
  <2>6. hpc' = "stop_report" => c = Simple("stop")
    BY <2>2, <2>4 DEF HandlerLabelOf, Control, Simple
  <2>7. UNCHANGED <<status, pc, stop_event>>
    BY <1>1 DEF Dispatch
  <2> HIDE DEF c, rest
  <2>8. StopRequested' => StopRequested
    BY <2>1, <2>2, <2>5, <2>6 DEF StopRequested
  <2> QED BY <1>0, <2>1, <2>2, <2>3, <2>4, <2>5, <2>6, <2>7, <2>8 DEF StopInv, StopInHand
<1> USE <1>0 DEF StopInv, StopInHand, StopRequested
<1>2. CASE StopReport
  BY <1>2 DEF StopReport, StatusPending, ReportStatus
<1>3. CASE StopSignal
  BY <1>3 DEF StopSignal
<1>4. CASE ResumeSignal
  BY <1>4 DEF ResumeSignal
<1>5. CASE ArrivalLock
  BY <1>5 DEF ArrivalLock, Acquire, AcquireThrows
<1>6. CASE ArrivalQueue
  BY <1>6 DEF ArrivalQueue
<1>7. CASE ArrivalSignal
  BY <1>7 DEF ArrivalSignal
<1>8. CASE ArrivalUnlock
  BY <1>8 DEF ArrivalUnlock, Release
<1> QED
  BY <1>1, <1>2, <1>3, <1>4, <1>5, <1>6, <1>7, <1>8 DEF Handler

LEMMA EnvironmentOrderInv ==
    ASSUME OrderInv, Environment
    PROVE  CreatedInv' /\ StatusInv' /\ StopInv'
<1>0. TypeOK /\ StopInv /\ StatusInv /\ CreatedInv
  BY DEF OrderInv, TypeInv
<1>1. UNCHANGED <<status, pc, handles, stop_event, hpc, arrival_failed>>
  BY DEF Environment, Plug, Install, Unplug, Resume, RequestStop
<1>a. StatusInv'
  BY <1>0, <1>1 DEF StatusInv
<1>2. CASE controls' = controls
  BY <1>0, <1>1, <1>2, <1>a DEF CreatedInv, StopInv, StopInHand, StopRequested
<1>3. ASSUME NEW c \in Control, controls' = Append(controls, c),
             "device_notification" \in handles,
             c = Simple("stop") => status.state = "RUNNING" /\ ~StopRequested
      PROVE  CreatedInv' /\ StatusInv' /\ StopInv'
  <2>1. controls \in Seq(Control)
    BY <1>0 DEF TypeOK
  <2>2. Range(controls') = Range(controls) \cup {c} /\ controls' # <<>>
    BY <1>3, <2>1, AppendFacts
  <2>3. CreatedInv'
    BY <1>0, <1>1, <1>3, <2>2 DEF CreatedInv
  <2>4. StopInv'
    <3> SUFFICES ASSUME ~arrival_failed PROVE StopInv'
      BY <1>1 DEF StopInv
    <3>1. OneStop(controls')
      BY <1>0, <1>3, <2>1, OneStopAppend DEF StopInv, StopRequested
    <3>2. pc \in Startup => c # Simple("stop")
      <4> SUFFICES ASSUME pc \in Startup, status.state = "RUNNING" PROVE FALSE
        BY <1>3
      <4>1. pc \in {"main", "run"} \cup Handle \/ pc = "started"
        BY DEF Startup
      <4> QED BY <1>0, <4>1 DEF StatusInv
    <3> QED BY <1>0, <1>1, <1>3, <2>2, <3>1, <3>2 DEF StopInv, StopInHand, StopRequested
  <2> QED BY <1>a, <2>3, <2>4
<1>4. Simple("other") # Simple("stop") /\ Simple("resume") # Simple("stop")
      /\ \A d \in Device : Arrival(d) # Simple("stop")
  BY NoDeviceAssumption DEF Simple, Arrival
<1>5. AcceptsControls => "device_notification" \in handles
  BY <1>0 DEF AcceptsControls, CreatedInv
<1>6. ASSUME NEW d \in Device, Plug(d) PROVE CreatedInv' /\ StatusInv' /\ StopInv'
  <2>1. CASE Notified
    BY <1>3, <1>4, <1>6, <2>1, ControlFacts DEF Plug, Notified
  <2>2. CASE ~Notified
    BY <1>2, <1>6, <2>2 DEF Plug
  <2> QED BY <2>1, <2>2
<1>7. ASSUME NEW d \in Device, Install(d) PROVE CreatedInv' /\ StatusInv' /\ StopInv'
  BY <1>2, <1>7 DEF Install
<1>8. ASSUME NEW d \in Device, Unplug(d) PROVE CreatedInv' /\ StatusInv' /\ StopInv'
  BY <1>2, <1>3, <1>4, <1>8, ControlFacts DEF Unplug, Notified
<1>9. CASE Resume
  BY <1>2, <1>3, <1>4, <1>5, <1>9, ControlFacts DEF Resume
<1>10. CASE RequestStop
  BY <1>3, <1>5, <1>10, ControlFacts DEF RequestStop, AcceptsControls
<1> QED BY <1>6, <1>7, <1>8, <1>9, <1>10 DEF Environment

LEMMA OrderInvInductive == OrderInv /\ [Next]_vars => OrderInv'
<1> SUFFICES ASSUME OrderInv, [Next]_vars PROVE OrderInv'
  OBVIOUS
<1>0. TypeInv'
  BY TypeInvInductive DEF OrderInv
<1>1. CASE UNCHANGED vars
  BY <1>0, <1>1 DEF vars, OrderInv, CreatedInv, StatusInv, StopInv, StopInHand, StopRequested
<1>2. CASE Main
  BY <1>0, <1>2, MainCreatedInv, MainStatusInv, MainStopInv DEF OrderInv
<1>3. CASE Handler
  BY <1>0, <1>3, HandlerCreatedInv, HandlerStatusInv, HandlerStopInv DEF OrderInv
<1>4. CASE Environment
  BY <1>0, <1>4, EnvironmentOrderInv DEF OrderInv
<1> QED
  BY <1>1, <1>2, <1>3, <1>4 DEF Next

LEMMA OrderInvariant == Spec => []OrderInv
BY InitOrderInv, OrderInvInductive, PTL DEF Spec

LEMMA StatusMovesForward == OrderInv /\ [Next]_vars => [StatusStep]_status
<1> SUFFICES ASSUME OrderInv, Next, status' # status PROVE StatusStep
  BY DEF vars
<1>0. TypeOK /\ StatusInv /\ StopInv
  BY DEF OrderInv, TypeInv
<1> USE <1>0 DEF StatusStep, ReportStatus, TypeOK, State
<1>1. CASE Run
  BY <1>1 DEF Run, StatusPending, StatusInv
<1>2. CASE Started
  BY <1>2 DEF Started, StatusOk, StatusInv
<1>3. CASE Stopped
  BY <1>3 DEF Stopped, StatusOk
<1>4. CASE Throw
  BY <1>4 DEF Throw, StatusError
<1>5. CASE Terminate
  BY <1>5 DEF Terminate, StatusError
<1>6. CASE StopReport
  BY <1>6 DEF StopReport, StatusPending, StopInv
<1> QED
  BY <1>1, <1>2, <1>3, <1>4, <1>5, <1>6
     DEF Next, Main, Handler, Environment, RegisterHandler, CreateHandle,
         Enumerate, NextDevice, CheckStop, QueueLock, Queue, ReportLock,
         MainAcquires, Report, Identify, Wait, Dispatch, StopSignal,
         ResumeSignal, ArrivalLock, ArrivalQueue, ArrivalSignal,
         ArrivalUnlock, Plug, Install, Unplug, Resume, RequestStop

\* Whatever calls fail, the manager sees the service move forward, but for the
\* two exceptions that StatusStep names.
THEOREM StatusIsOrdered == Spec => StatusOrder
BY StatusMovesForward, OrderInvariant, PTL DEF Spec, StatusOrder
-----------------------------------------------------------------------------
(* No device is forgotten.  AccountedFor is inductive once it is known how *)
(* far startup has got: each step moves a device from one place of Covered *)
(* to the next, and only an identification or a removal takes it out.      *)

LEMMA MainAccountedFor ==
    ASSUME OrderInv, AccountedFor, Main
    PROVE  AccountedFor'
<1>0. TypeOK /\ InHand /\ StatusInv /\ CreatedInv
  BY DEF OrderInv, TypeInv
<1> SUFFICES ASSUME ~Stopping', pc' \notin Failing
             PROVE  (\A d \in announced : OnItsWay(d))' /\ (\A d \in owed : Covered(d))'
  BY DEF AccountedFor
<1>a. UNCHANGED <<controls, hpc, hdevice, stop_event>>
  BY DEF Main, RegisterHandler, Run, CreateHandle, Started, Enumerate, NextDevice,
     CheckStop, QueueLock, Queue, ReportLock, MainAcquires, Report, Identify,
     Wait, WaitStop, WaitResume, WaitDevice, WaitTimeout, WaitFailed, Stopped,
     Throw, Terminate
<1>b. announced' \subseteq announced /\ owed' \subseteq owed
  BY <1>0 DEF Main, RegisterHandler, Run, CreateHandle, Started, Enumerate, NextDevice,
     PassOver, CheckStop, QueueLock, Queue, ReportLock, MainAcquires, Report, Identify,
     Wait, Stopped, Throw, Terminate, TypeOK
<1>c. pc \notin Failing
  BY DEF Main, RegisterHandler, Run, CreateHandle, Started, Enumerate, NextDevice,
     CheckStop, QueueLock, Queue, ReportLock, MainAcquires, Report, Identify,
     Wait, Stopped, Throw, Terminate, Failing, Handle
<1>d. ~stop_event /\ hpc \notin {"stop_report", "stop_signal"}
  BY <1>a DEF Stopping
<1>e. (\A d \in announced : OnItsWay(d)) /\ (\A d \in owed : Covered(d))
  BY <1>c, <1>d DEF AccountedFor, Stopping
<1>f. ASSUME NEW d, OnItsWay(d), d # current \/ ~Identify
      PROVE  OnItsWay(d)'
  <2>1. CASE Queue
    <3>1. Range(devices') = Range(devices) \cup {current}
      BY <1>0, <2>1, AppendFacts DEF Queue, TypeOK, InHand
    <3> QED BY <1>a, <1>f, <2>1, <3>1 DEF Queue, OnItsWay
  <2>2. CASE Report
    <3>1. devices # <<>> => Range(devices) = {Head(devices)} \cup Range(Tail(devices))
      BY <1>0, TailFacts DEF TypeOK
    <3> QED BY <1>a, <1>f, <2>2, <3>1 DEF Report, OnItsWay
  <2>3. CASE Identify
    BY <1>a, <1>f, <2>3 DEF Identify, OnItsWay
  <2>4. CASE ~Queue /\ ~Report /\ ~Identify
    <3>1. UNCHANGED devices /\ pc # "identify"
      BY <2>4 DEF Main, RegisterHandler, Run, CreateHandle, Started, Enumerate, NextDevice,
         CheckStop, QueueLock, ReportLock, MainAcquires, Wait, Stopped, Throw, Terminate, Handle
    <3> QED BY <1>a, <1>f, <3>1 DEF OnItsWay
  <2> QED BY <2>1, <2>2, <2>3, <2>4
<1>g. ASSUME NEW d \in announced' PROVE OnItsWay(d)'
  BY <1>b, <1>e, <1>f, <1>g DEF Identify
<1>h. ASSUME NEW d \in owed' PROVE Covered(d)'
  <2>a. Covered(d) /\ (Identify => d # current)
    BY <1>b, <1>e, <1>h DEF Identify
  <2>b. OnItsWay(d) => Covered(d)'
    BY <1>f, <2>a DEF Covered
  <2>c. ResumePending /\ ~(pc = "wait" /\ WaitResume) => ResumePending'
    BY <1>a DEF ResumePending, Main, RegisterHandler, Run, CreateHandle, Started, Enumerate,
       NextDevice, CheckStop, QueueLock, Queue, ReportLock, MainAcquires, Report, Identify,
       Wait, WaitStop, WaitDevice, WaitTimeout, WaitFailed, Stopped, Throw, Terminate
  <2> SUFFICES ASSUME ~OnItsWay(d), ~ResumePending \/ (pc = "wait" /\ WaitResume),
                      pc' \notin Startup \cup {"enumerate"}
               PROVE  Covered(d)'
    BY <2>b, <2>c DEF Covered
  <2> USE <1>a, <2>a DEF Covered, Startup, QueueAll, ReportOne, Failing, Handle
  <2>1. CASE RegisterHandler
    BY <2>1 DEF RegisterHandler
  <2>2. CASE Run
    BY <2>2 DEF Run
  <2>3. CASE \E h \in Handle : CreateHandle(h)
    BY <2>3 DEF CreateHandle, AfterCreate
  <2>4. CASE Started
    BY <2>4 DEF Started
  <2>5. CASE Enumerate
    BY <1>0, <1>b, <1>h, <2>5 DEF Enumerate, TypeOK
  <2>6. CASE NextDevice
    <3>1. d \in listing
      BY <2>6 DEF NextDevice, WaitResume
    <3>2. d \notin announced
      BY <1>e
    <3>3. ~ResumePending
      BY <2>6 DEF NextDevice
    <3>4. ASSUME NEW D, PassOver(D), d \in D PROVE FALSE
      BY <1>h, <3>2, <3>3, <3>4 DEF PassOver
    <3> QED BY <2>6, <3>1, <3>4 DEF NextDevice
  <2>7. CASE CheckStop
    BY <1>d, <2>7 DEF CheckStop
  <2>8. CASE QueueLock
    BY <2>8 DEF QueueLock, MainAcquires
  <2>9. CASE Queue
    <3>1. Range(devices') = Range(devices) \cup {current}
      BY <1>0, <2>9, AppendFacts DEF Queue, TypeOK, InHand
    <3> QED BY <2>9, <3>1 DEF Queue, OnItsWay
  <2>10. CASE ReportLock
    BY <2>10 DEF ReportLock, MainAcquires
  <2>11. CASE Report
    BY <2>11 DEF Report
  <2>12. CASE Identify
    BY <2>12 DEF Identify
  <2>13. CASE Wait
    BY <2>13 DEF Wait, WaitStop, WaitResume, WaitDevice, WaitTimeout, WaitFailed
  <2>14. CASE Stopped
    BY <1>0, <1>d, <2>14 DEF Stopped, StatusInv, Ended
  <2>15. CASE Throw \/ Terminate
    BY <2>15 DEF Throw, Terminate
  <2> QED
    BY <2>1, <2>2, <2>3, <2>4, <2>5, <2>6, <2>7, <2>8, <2>9, <2>10, <2>11, <2>12,
       <2>13, <2>14, <2>15 DEF Main
<1> QED BY <1>g, <1>h

LEMMA HandlerAccountedFor ==
    ASSUME OrderInv, AccountedFor, Handler
    PROVE  AccountedFor'
<1>0. TypeOK /\ InHand
  BY DEF OrderInv, TypeInv
<1> SUFFICES ASSUME ~Stopping', pc' \notin Failing
             PROVE  (\A d \in announced : OnItsWay(d))' /\ (\A d \in owed : Covered(d))'
  BY DEF AccountedFor
<1>a. UNCHANGED <<announced, owed, pc, listing, current>>
  BY DEF Handler, Dispatch, StopReport, StopSignal, ResumeSignal, ArrivalLock,
     ArrivalQueue, ArrivalSignal, ArrivalUnlock
<1>b. ~Stopping
  BY DEF Stopping, Handler, Dispatch, StopReport, StopSignal, ResumeSignal, ArrivalLock,
     ArrivalQueue, ArrivalSignal, ArrivalUnlock
<1>c. (\A d \in announced : OnItsWay(d)) /\ (\A d \in owed : Covered(d))
  BY <1>a, <1>b DEF AccountedFor
<1>d. ASSUME NEW d
      PROVE  (OnItsWay(d) => OnItsWay(d)') /\ (ResumePending => ResumePending')
  <2>1. CASE Dispatch
    <3>1. Range(controls) = {Head(controls)} \cup Range(controls')
      BY <1>0, <2>1, TailFacts DEF Dispatch, TypeOK
    <3>2. Head(controls) = Arrival(d) => hpc' = "arrival_lock" /\ hdevice' = d
      BY <2>1 DEF Dispatch, HandlerLabelOf, Arrival
    <3>3. Head(controls) = Simple("resume") => hpc' = "resume_signal"
      BY <2>1 DEF Dispatch, HandlerLabelOf, Simple
    <3>4. hpc = "idle" /\ UNCHANGED <<devices, power_resume_event>>
      BY <2>1 DEF Dispatch, events, queue
    <3> QED BY <1>a, <3>1, <3>2, <3>3, <3>4 DEF OnItsWay, ResumePending
  <2>2. CASE StopReport \/ StopSignal \/ ResumeSignal
    BY <1>a, <2>2 DEF StopReport, StopSignal, ResumeSignal, OnItsWay, ResumePending
  <2>3. CASE ArrivalLock
    BY <1>a, <2>3 DEF ArrivalLock, OnItsWay, ResumePending, Stopping
  <2>4. CASE ArrivalQueue
    <3>1. Range(devices') = Range(devices) \cup {hdevice}
      BY <1>0, <2>4, AppendFacts DEF ArrivalQueue, TypeOK, InHand
    <3> QED BY <1>a, <2>4, <3>1 DEF ArrivalQueue, OnItsWay, ResumePending
  <2>5. CASE ArrivalSignal \/ ArrivalUnlock
    BY <1>a, <2>5 DEF ArrivalSignal, ArrivalUnlock, OnItsWay, ResumePending
  <2> QED BY <2>1, <2>2, <2>3, <2>4, <2>5 DEF Handler
<1> QED BY <1>a, <1>c, <1>d DEF Covered

LEMMA EnvironmentAccountedFor ==
    ASSUME OrderInv, AccountedFor, Environment
    PROVE  AccountedFor'
<1>0. TypeOK /\ StatusInv /\ CreatedInv
  BY DEF OrderInv, TypeInv
<1> SUFFICES ASSUME ~Stopping', pc' \notin Failing
             PROVE  (\A d \in announced : OnItsWay(d))' /\ (\A d \in owed : Covered(d))'
  BY DEF AccountedFor
<1>a. UNCHANGED <<status, pc, handles, listing, current, devices, power_resume_event,
                  stop_event, hpc, hdevice>>
  BY DEF Environment, Plug, Install, Unplug, Resume, RequestStop
<1>b. ~stop_event /\ hpc \notin {"stop_report", "stop_signal"} /\ pc \notin Failing
  BY <1>a DEF Stopping
<1>c. (\A d \in announced : OnItsWay(d)) /\ (\A d \in owed : Covered(d))
  BY <1>b DEF AccountedFor, Stopping
<1>e. ASSUME NEW c \in Control, controls' = Append(controls, c)
      PROVE  Range(controls') = Range(controls) \cup {c}
  BY <1>0, <1>e, AppendFacts DEF TypeOK
<1>f. ASSUME NEW d, Range(controls) \subseteq Range(controls')
      PROVE  (OnItsWay(d) => OnItsWay(d)') /\ (Covered(d) => Covered(d)')
  BY <1>a, <1>f DEF OnItsWay, Covered, ResumePending
<1>g. pc \notin Startup => Notified /\ AcceptsControls
  BY <1>0, <1>b DEF Notified, AcceptsControls, CreatedInv, StatusInv, TypeOK, MainLabel,
     State, Serving, Ended, Failing
<1>1. ASSUME NEW e \in Device, Plug(e)
      PROVE  (\A d \in announced : OnItsWay(d))' /\ (\A d \in owed : Covered(d))'
  <2>0. owed' = owed \cup {e}
    BY <1>1 DEF Plug
  <2>1. CASE Notified
    <3>1. Range(controls') = Range(controls) \cup {Arrival(e)} /\ announced' = announced \cup {e}
      BY <1>1, <1>e, <2>1, ControlFacts DEF Plug
    <3>2. OnItsWay(e)'
      BY <3>1 DEF OnItsWay
    <3> QED BY <1>c, <1>f, <2>0, <3>1, <3>2 DEF Covered
  <2>2. CASE ~Notified
    <3>1. pc \in Startup /\ UNCHANGED <<announced, controls>>
      BY <1>1, <1>g, <2>2 DEF Plug
    <3> QED BY <1>a, <1>c, <1>f, <3>1 DEF Covered
  <2> QED BY <2>1, <2>2
<1>2. ASSUME NEW e \in Device, Unplug(e) \/ Install(e)
      PROVE  (\A d \in announced : OnItsWay(d))' /\ (\A d \in owed : Covered(d))'
  <2>1. Range(controls) \subseteq Range(controls')
    BY <1>2, <1>e, ControlFacts DEF Unplug, Install
  <2>2. announced' \subseteq announced /\ owed' \subseteq owed
    BY <1>2 DEF Unplug, Install
  <2> QED BY <1>c, <1>f, <2>1, <2>2
<1>3. CASE Resume
  <2>1. Range(controls) \subseteq Range(controls') /\ UNCHANGED announced
    BY <1>3, <1>e, ControlFacts DEF Resume
  <2>2. CASE AcceptsControls
    <3>1. Range(controls') = Range(controls) \cup {Simple("resume")}
      BY <1>3, <1>e, <2>2, ControlFacts DEF Resume
    <3> QED BY <1>c, <1>f, <2>1, <3>1 DEF Covered, ResumePending
  <2>3. CASE ~AcceptsControls
    BY <1>a, <1>c, <1>f, <1>g, <2>1, <2>3 DEF Covered
  <2> QED BY <2>2, <2>3
<1>4. CASE RequestStop
  <2>1. Range(controls) \subseteq Range(controls') /\ UNCHANGED <<announced, owed>>
    BY <1>4, <1>e, ControlFacts DEF RequestStop
  <2> QED BY <1>c, <1>f, <2>1
<1> QED BY <1>1, <1>2, <1>3, <1>4 DEF Environment

LEMMA InitAccountedFor == Init => AccountedFor
BY DEF Init, AccountedFor, Covered, Startup

LEMMA AccountedForInductive == OrderInv /\ AccountedFor /\ [Next]_vars => AccountedFor'
<1> SUFFICES ASSUME OrderInv, AccountedFor, [Next]_vars PROVE AccountedFor'
  OBVIOUS
<1>1. CASE UNCHANGED vars
  BY <1>1 DEF vars, environment, main, handler, events, queue, AccountedFor, Covered,
     OnItsWay, ResumePending, Stopping
<1> QED
  BY <1>1, MainAccountedFor, HandlerAccountedFor, EnvironmentAccountedFor DEF Next

\* As long as the service neither stops nor fails, every device that was notified
\* and not identified since is on its way to identify(), and every other connected
\* device that is owed a report is in the enumeration, in the queue or behind a
\* resume.  Nothing is assumed of the calls: each of them may fail.
THEOREM NoDeviceIsForgotten == Spec => []AccountedFor
BY InitAccountedFor, AccountedForInductive, OrderInvariant, PTL DEF Spec
-----------------------------------------------------------------------------
(* Every step of the service is a step of the promise, or none of it.      *)

LEMMA ModeOf ==
    /\ pc \in Failing => Mode = "failed"
    /\ pc = "done" => Mode = "stopped"
    /\ pc \in Startup => Mode = "starting"
    /\ stop_event /\ pc \in {"wait", "stopped"} => Mode = "spent"
    /\ stop_event /\ pc \in QueueAll \cup ReportOne => Mode = "stopping"
    /\ ~stop_event /\ pc \in Serving => Mode = "serving"
BY DEF Mode, Failing, Startup, Handle, Serving, QueueAll, ReportOne

LEMMA MainImplementsStep ==
    ASSUME OrderInv, Main
    PROVE  [Promise!Next]_(Promise!vars)
<1>0. TypeOK /\ InHand /\ StatusInv /\ StopInv /\ CreatedInv /\ TypeInv'
  BY MainTypeInv DEF OrderInv, TypeInv
<1>a. UNCHANGED <<connected, installed>>
  BY DEF Main, RegisterHandler, Run, CreateHandle, Started, Enumerate, NextDevice,
     CheckStop, QueueLock, Queue, ReportLock, MainAcquires, Report, Identify,
     Wait, Stopped, Throw, Terminate
<1>b. ASSUME UNCHANGED <<owed, Mode>> PROVE [Promise!Next]_(Promise!vars)
  BY <1>a, <1>b DEF Promise!vars
<1>c. ASSUME Faults # {}, UNCHANGED owed, Mode' = "failed",
             Mode \in {"starting", "serving", "stopping", "spent"}
      PROVE  [Promise!Next]_(Promise!vars)
  BY <1>a, <1>c DEF Promise!Next, Promise!Fail
<1>d. UNCHANGED owed \/ Identify \/ NextDevice
  BY DEF Main, RegisterHandler, Run, CreateHandle, Started, Enumerate,
     CheckStop, QueueLock, Queue, ReportLock, MainAcquires, Report,
     Wait, Stopped, Throw, Terminate
<1>e. UNCHANGED stop_event
  BY DEF Main, RegisterHandler, Run, CreateHandle, Started, Enumerate, NextDevice,
     CheckStop, QueueLock, Queue, ReportLock, MainAcquires, Report, Identify,
     Wait, WaitStop, WaitResume, WaitDevice, WaitTimeout, WaitFailed, Stopped,
     Throw, Terminate
<1>f. /\ pc' \in Failing => Mode' = "failed"
      /\ pc' = "done" => Mode' = "stopped"
      /\ pc' \in Startup => Mode' = "starting"
      /\ stop_event' /\ pc' \in {"wait", "stopped"} => Mode' = "spent"
      /\ stop_event' /\ pc' \in QueueAll \cup ReportOne => Mode' = "stopping"
      /\ ~stop_event' /\ pc' \in Serving => Mode' = "serving"
  BY DEF Mode, Failing, Startup, Handle, Serving, QueueAll, ReportOne
<1>g. stop_event \in BOOLEAN
  BY <1>0 DEF TypeOK
<1> USE <1>e, <1>f, <1>g, ModeOf
    DEF Startup, QueueAll, ReportOne, Failing, Handle, Serving, Ended
<1>1. CASE RegisterHandler
  BY <1>1, <1>b, <1>c, <1>d DEF RegisterHandler
<1>2. CASE Run
  BY <1>2, <1>b DEF Run
<1>3. CASE \E h \in Handle : CreateHandle(h)
  <2> PICK h \in Handle : CreateHandle(h)
    BY <1>3
  <2>1. pc \in Startup /\ UNCHANGED owed
    BY DEF CreateHandle
  <2>2. CASE pc' = "throw"
    <3>1. Faults # {}
      BY <1>0, <2>2 DEF CreateHandle, Tested, AfterCreate, CreatedInv
    <3> QED BY <1>c, <2>1, <2>2, <3>1
  <2>3. CASE pc' # "throw"
    <3>1. pc' \in Startup
      BY <2>3 DEF CreateHandle, AfterCreate
    <3> QED BY <1>b, <2>1, <3>1
  <2> QED BY <2>2, <2>3
<1>4. CASE Started
  <2>1. pc = "started" /\ pc' = "enumerate" /\ UNCHANGED owed
    BY <1>4 DEF Started
  <2>2. stop_event => Faults # {}
    BY <1>0, <2>1 DEF StopInv, CreatedInv
  <2>3. Mode = "starting" /\ Mode' = (IF stop_event THEN "stopping" ELSE "serving")
    BY <2>1
  <2> QED BY <1>a, <2>1, <2>2, <2>3 DEF Promise!Next, Promise!Start
<1>5. CASE Enumerate
  BY <1>5, <1>b, <1>c DEF Enumerate
<1>6. CASE NextDevice
  <2>1. pc = "next_device" /\ pc' \in {"next_device", "check_stop", "report_lock"}
    BY <1>6 DEF NextDevice
  <2>2. UNCHANGED Mode /\ Mode \in {"serving", "stopping"}
    BY <2>1
  <2>3. ASSUME NEW D \in SUBSET Device, PassOver(D), Faults # {} \/ D \cap installed = {}
        PROVE  [Promise!Next]_(Promise!vars)
    <3>1. CASE ResumePending
      BY <1>b, <2>2, <2>3, <3>1 DEF PassOver
    <3>2. CASE ~ResumePending
      <4>1. owed' = owed \ (D \ announced) /\ D \ announced \in SUBSET Device
        BY <2>3, <3>2 DEF PassOver
      <4>2. Promise!PassOver(D \ announced)
        BY <1>a, <2>2, <2>3, <4>1 DEF Promise!PassOver
      <4> QED BY <4>1, <4>2 DEF Promise!Next
    <3> QED BY <3>1, <3>2
  <2>4. CASE UNCHANGED owed
    BY <1>b, <2>2, <2>4
  <2>5. CASE \E d \in listing : d \notin installed \/ "device_details" \in Faults
    <3>1. listing \subseteq Device
      BY <1>0 DEF TypeOK
    <3>2. ASSUME NEW d \in listing, PassOver({d}), d \notin installed \/ "device_details" \in Faults
          PROVE  [Promise!Next]_(Promise!vars)
      BY <2>3, <3>1, <3>2
    <3>3. ASSUME PassOver(listing), listing = {} \/ "next_interface" \in Faults
          PROVE  [Promise!Next]_(Promise!vars)
      BY <2>3, <3>1, <3>3
    <3> QED BY <1>6, <2>4, <3>2, <3>3 DEF NextDevice
  <2>6. CASE ~\E d \in listing : d \notin installed \/ "device_details" \in Faults
    <3>1. listing \subseteq Device
      BY <1>0 DEF TypeOK
    <3>3. ASSUME PassOver(listing), listing = {} \/ "next_interface" \in Faults
          PROVE  [Promise!Next]_(Promise!vars)
      BY <2>3, <3>1, <3>3
    <3> QED BY <1>6, <2>4, <2>6, <3>3 DEF NextDevice
  <2> QED BY <2>5, <2>6
<1>7. CASE CheckStop
  BY <1>7, <1>b, <1>c DEF CheckStop
<1>8. CASE QueueLock
  <2>1. pc' = "throw" => Faults # {}
    BY <1>0, <1>8 DEF QueueLock, MainAcquires, AcquireThrows, CreatedInv
  <2> QED BY <1>8, <1>b, <1>c, <2>1 DEF QueueLock, MainAcquires
<1>9. CASE Queue
  BY <1>9, <1>b DEF Queue
<1>10. CASE ReportLock
  <2>1. pc' = "throw" => Faults # {}
    BY <1>0, <1>10 DEF ReportLock, MainAcquires, AcquireThrows, CreatedInv
  <2> QED BY <1>10, <1>b, <1>c, <2>1 DEF ReportLock, MainAcquires
<1>11. CASE Report
  <2>1. UNCHANGED owed /\ pc' \in {"wait", "identify"}
    BY <1>11 DEF Report
  <2>2. CASE stop_event /\ pc' = "wait"
    <3>1. Mode = "stopping" /\ Mode' = "spent"
      BY <1>11, <2>2 DEF Report
    <3> QED BY <1>a, <2>1, <3>1 DEF Promise!Next, Promise!LastReport
  <2>3. CASE ~stop_event \/ pc' = "identify"
    BY <1>11, <1>b, <2>1, <2>3 DEF Report
  <2> QED BY <2>1, <2>2, <2>3
<1>12. CASE Identify
  <2>1. owed' = owed \ {current} /\ pc = "identify" /\ pc' = "wait" /\ current \in Device
    BY <1>0, <1>12 DEF Identify, InHand
  <2>2. CASE stop_event
    <3>1. Mode = "stopping" /\ Mode' = "spent"
      BY <2>1, <2>2
    <3>2. owed' \in {owed} \cup {owed \ {d} : d \in owed}
      BY <2>1
    <3> QED BY <1>a, <3>1, <3>2 DEF Promise!Next, Promise!LastReport
  <2>3. CASE ~stop_event
    <3>1. Mode = "serving" /\ Mode' = "serving"
      BY <2>1, <2>3
    <3>2. CASE current \in owed
      BY <1>a, <2>1, <3>1, <3>2 DEF Promise!Next, Promise!Report
    <3>3. CASE current \notin owed
      BY <1>b, <2>1, <3>1, <3>3
    <3> QED BY <3>2, <3>3
  <2> QED BY <2>2, <2>3
<1>13. CASE Wait
  <2>1. pc = "wait" /\ UNCHANGED owed
    BY <1>13 DEF Wait
  <2>2. CASE WaitFailed
    BY <2>1, <2>2, <1>c DEF WaitFailed
  <2>3. CASE WaitStop
    BY <2>1, <2>3, <1>b DEF WaitStop
  <2>4. CASE WaitResume \/ WaitDevice \/ WaitTimeout
    BY <2>1, <2>4, <1>b DEF WaitResume, WaitDevice, WaitTimeout
  <2> QED BY <1>13, <2>2, <2>3, <2>4 DEF Wait
<1>14. CASE Stopped
  <2>1. Mode = "spent" /\ Mode' = "stopped" /\ UNCHANGED owed
    BY <1>0, <1>14 DEF Stopped, StatusInv
  <2> QED BY <1>a, <2>1 DEF Promise!Next, Promise!Finish
<1>15. CASE Throw
  BY <1>15, <1>b DEF Throw
<1>16. CASE Terminate
  BY <1>16, <1>b DEF Terminate
<1> QED
  BY <1>1, <1>2, <1>3, <1>4, <1>5, <1>6, <1>7, <1>8, <1>9, <1>10, <1>11, <1>12,
     <1>13, <1>14, <1>15, <1>16 DEF Main

LEMMA HandlerImplementsStep ==
    ASSUME OrderInv, Handler
    PROVE  [Promise!Next]_(Promise!vars)
<1>0. TypeOK /\ StatusInv
  BY DEF OrderInv, TypeInv
<1>1. UNCHANGED <<connected, installed, owed, pc>>
  BY DEF Handler, Dispatch, StopReport, StopSignal, ResumeSignal, ArrivalLock,
     ArrivalQueue, ArrivalSignal, ArrivalUnlock
<1>2. CASE UNCHANGED stop_event
  <2>1. UNCHANGED Mode
    BY <1>1, <1>2 DEF Mode
  <2> QED BY <1>1, <2>1 DEF Promise!vars
<1>3. CASE StopSignal
  <2>1. stop_event'
    BY <1>3 DEF StopSignal
  <2>2. CASE pc \in Failing \cup Startup \cup {"done"}
    <3>1. UNCHANGED Mode
      BY <1>1, <2>2 DEF Mode, Failing, Startup, Handle, QueueAll, ReportOne
    <3> QED BY <1>1, <3>1 DEF Promise!vars
  <2>3. CASE stop_event
    <3>1. UNCHANGED Mode
      BY <1>1, <2>1, <2>3 DEF Mode
    <3> QED BY <1>1, <3>1 DEF Promise!vars
  <2>4. CASE ~stop_event /\ pc \in Serving
    <3>1. Mode = "serving"
      BY <2>4, ModeOf
    <3>2. Mode' \in {"stopping", "spent"}
      BY <1>1, <2>1, <2>4 DEF Mode, Failing, Startup, Handle, Serving, QueueAll, ReportOne
    <3> QED BY <1>1, <3>1, <3>2 DEF Promise!Next, Promise!Stop
  <2> QED
    BY <1>0, <2>2, <2>3, <2>4 DEF StatusInv, TypeOK, MainLabel, Serving, Ended
<1> QED
  BY <1>2, <1>3 DEF Handler, Dispatch, StopReport, ResumeSignal, ArrivalLock,
     ArrivalQueue, ArrivalSignal, ArrivalUnlock

LEMMA EnvironmentImplementsStep ==
    ASSUME Environment
    PROVE  [Promise!Next]_(Promise!vars)
<1>1. UNCHANGED Mode
  <2>1. UNCHANGED <<pc, stop_event>>
    BY DEF Environment, Plug, Install, Unplug, Resume, RequestStop
  <2> QED BY <2>1 DEF Mode
<1>2. ASSUME NEW d \in Device, Plug(d) PROVE Promise!Next
  BY <1>1, <1>2 DEF Plug, Promise!Next, Promise!Plug
<1>3. ASSUME NEW d \in Device, Unplug(d) \/ Install(d) PROVE Promise!Next
  BY <1>1, <1>3 DEF Unplug, Install, Promise!Next, Promise!Unplug, Promise!Install
<1>4. CASE Resume
  BY <1>1, <1>4 DEF Resume, Promise!Next, Promise!Resume
<1>5. CASE RequestStop
  BY <1>1, <1>5 DEF RequestStop, Promise!vars
<1> QED BY <1>2, <1>3, <1>4, <1>5 DEF Environment

LEMMA InitImplements == Init => Promise!Init
BY ModeOf DEF Init, Promise!Init, Startup

LEMMA StepImplements == OrderInv /\ [Next]_vars => [Promise!Next]_(Promise!vars)
<1> SUFFICES ASSUME OrderInv, [Next]_vars PROVE [Promise!Next]_(Promise!vars)
  OBVIOUS
<1>1. CASE UNCHANGED vars
  <2>1. UNCHANGED Mode
    BY <1>1 DEF vars, Mode
  <2> QED BY <1>1, <2>1 DEF vars, Promise!vars
<1> QED
  BY <1>1, MainImplementsStep, HandlerImplementsStep, EnvironmentImplementsStep DEF Next

\* Every step of the service, with its threads interleaved in any way and with any
\* of its calls failing, is one that IdentifyService allows: a report is sent only
\* while the service serves, and at most once after the stop is signalled; only
\* what is not installed is passed over, as long as no call fails.
THEOREM ServiceImplementsPromise == Spec => ImplementsSteps
BY InitImplements, StepImplements, OrderInvariant, PTL DEF Spec, ImplementsSteps
-----------------------------------------------------------------------------
(* What startup has created.  No assumption on the faults is made here.    *)

\* Every handle but the mutex is there once its test has passed; the mutex is
\* needed by whoever wants to go on from where it is acquired.
StartupInv ==
    /\ pc \in {"power_resume_event", "device_event", "devices_mutex", "device_notification"}
           => "stop_event" \in handles
    /\ pc \in {"device_event", "devices_mutex", "device_notification"}
           => "power_resume_event" \in handles
    /\ pc \in {"devices_mutex", "device_notification"} => "device_event" \in handles
    /\ pc \in {"started"} \cup Serving \cup Ended => Handle \ {"devices_mutex"} \subseteq handles
    /\ status.state = "RUNNING" => Handle \ {"devices_mutex"} \subseteq handles
    /\ pc \in {"queue", "report", "identify", "wait"} \cup Ended => "devices_mutex" \in handles
    /\ pc \in Ended => stop_event
    /\ status.exit = "ok" => pc = "done"
    /\ status.state = "STOP_PENDING" => stop_event \/ hpc = "stop_signal"

\* How far the main thread is from its end, once the stop is signalled.
Distance(label) ==
    CASE label \in {"done", "dead"} -> 0
      [] label = "terminate" -> 1
      [] label \in {"throw", "stopped"} -> 2
      [] label = "wait" -> 3
      [] label = "identify" -> 4
      [] label = "report" -> 5
      [] label = "report_lock" -> 6
      [] label = "check_stop" -> 7
      [] label = "next_device" -> 8
      [] label = "queue" -> 9
      [] label = "queue_lock" -> 10
      [] label = "enumerate" -> 11
      [] label = "started" -> 12
      [] label = "device_notification" -> 13
      [] label = "devices_mutex" -> 14
      [] label = "device_event" -> 15
      [] label = "power_resume_event" -> 16
      [] label = "stop_event" -> 17
      [] label = "run" -> 18
      [] label = "main" -> 19

\* One more device of the enumeration is behind the main thread.
ListingShrinks ==
    pc = "next_device" /\ pc' = pc /\ listing' \subseteq listing /\ listing' # listing

\* How far the control handler is from its return.
HandlerDistance(label) ==
    CASE label = "idle" -> 0
      [] label \in {"stop_signal", "resume_signal", "arrival_unlock"} -> 1
      [] label \in {"stop_report", "arrival_signal"} -> 2
      [] label = "arrival_queue" -> 3
      [] label = "arrival_lock" -> 4

\* How far the main thread is from the report of an incomplete startup: it fails
\* where it first acquires the mutex, if not before.
FailureDistance(label) ==
    CASE label = "dead" -> 0
      [] label = "terminate" -> 1
      [] label = "throw" -> 2
      [] label \in {"queue_lock", "report_lock"} -> 3
      [] label = "check_stop" -> 4
      [] label = "next_device" -> 5
      [] label = "enumerate" -> 6

Incomplete == handles # Handle /\ pc \notin Startup

LEMMA MainStartupInv == ASSUME StartupInv, Main PROVE StartupInv'
<1> USE DEF StartupInv, Serving, QueueAll, ReportOne, Ended, Handle
<1>1. CASE RegisterHandler
  BY <1>1 DEF RegisterHandler
<1>2. CASE Run
  BY <1>2 DEF Run, StatusPending, ReportStatus
<1>3. CASE \E h \in Handle : CreateHandle(h)
  BY <1>3 DEF CreateHandle, AfterCreate, Tested, Handle
<1>4. CASE Started
  BY <1>4 DEF Started, StatusOk, ReportStatus
<1>5. CASE Enumerate
  BY <1>5 DEF Enumerate
<1>6. CASE NextDevice
  BY <1>6 DEF NextDevice
<1>7. CASE CheckStop
  BY <1>7 DEF CheckStop
<1>8. CASE QueueLock
  BY <1>8 DEF QueueLock, MainAcquires, Acquire, AcquireThrows
<1>9. CASE Queue
  BY <1>9 DEF Queue, Release
<1>10. CASE ReportLock
  BY <1>10 DEF ReportLock, MainAcquires, Acquire, AcquireThrows
<1>11. CASE Report
  BY <1>11 DEF Report, Release
<1>12. CASE Identify
  BY <1>12 DEF Identify
<1>13. CASE Wait
  BY <1>13 DEF Wait, WaitStop, WaitResume, WaitDevice, WaitTimeout, WaitFailed
<1>14. CASE Stopped
  BY <1>14 DEF Stopped, StatusOk, ReportStatus
<1>15. CASE Throw
  BY <1>15 DEF Throw, StatusError, ReportStatus
<1>16. CASE Terminate
  BY <1>16 DEF Terminate, StatusError, ReportStatus
<1> QED
  BY <1>1, <1>2, <1>3, <1>4, <1>5, <1>6, <1>7, <1>8, <1>9, <1>10, <1>11, <1>12,
     <1>13, <1>14, <1>15, <1>16 DEF Main

LEMMA StartupInvariant == Spec => []StartupInv
<1>1. Init => StartupInv
  BY DEF Init, StartupInv, Serving, QueueAll, ReportOne, Ended
<1>2. ASSUME StartupInv, Handler PROVE StartupInv'
  BY <1>2 DEF StartupInv, Handler, Dispatch, StopReport, StatusPending, ReportStatus, StopSignal,
     ResumeSignal, ArrivalLock, ArrivalQueue, ArrivalSignal, ArrivalUnlock
<1>3. ASSUME StartupInv, Environment \/ UNCHANGED vars PROVE StartupInv'
  BY <1>3 DEF StartupInv, Environment, Plug, Install, Unplug, Resume, RequestStop, vars
<1>4. StartupInv /\ [Next]_vars => StartupInv'
  BY <1>2, <1>3, MainStartupInv DEF Next
<1> QED BY <1>1, <1>4, PTL DEF Spec

\* Success is reported only for a stop that was signalled, whatever calls fail.
THEOREM CleanStopIsRequested == Spec => []CleanStopOnlyOnRequest
<1>1. StartupInv => CleanStopOnlyOnRequest
  BY DEF StartupInv, Ended, CleanStopOnlyOnRequest
<1> QED BY <1>1, StartupInvariant, PTL

\* A service that says it is RUNNING has every handle, unless the mutex could
\* not be created: its handle is the only one whose test is missing (line 174).
THEOREM OnlyTheMutexIsMissed ==
    Spec => [](status.state = "RUNNING" => Handle \ {"devices_mutex"} \subseteq handles)
<1>1. StartupInv => (status.state = "RUNNING" => Handle \ {"devices_mutex"} \subseteq handles)
  BY DEF StartupInv
<1> QED BY <1>1, StartupInvariant, PTL

\* StartedComplete holds as soon as CreateMutex does not fail, whatever else
\* does: the run that violates it has the only counterexample there is.
THEOREM RunningIsComplete ==
    ASSUME "devices_mutex" \notin Faults
    PROVE  Spec => []StartedComplete
<1>1. TypeInv /\ StartupInv /\ OrderInv => StartedComplete
  BY DEF StartupInv, OrderInv, CreatedInv, TypeInv, TypeOK, StartedComplete, Handle
<1>2. OrderInv => TypeInv
  BY DEF OrderInv
<1> QED BY <1>1, <1>2, StartupInvariant, OrderInvariant, PTL

\* Without one of its handles the service never gets to its queue, to a device
\* or to an orderly end; it can only go on to the report of an error.
LEMMA IncompleteIsLost ==
    ASSUME TypeInv, StartupInv, Incomplete
    PROVE  /\ pc \in Failing \cup {"enumerate", "next_device", "check_stop",
                                   "queue_lock", "report_lock"}
           /\ pc \notin Failing => "devices_mutex" \notin handles
<1>1. pc \in MainLabel /\ handles \subseteq Handle
  BY DEF TypeInv, TypeOK
<1> QED BY <1>1 DEF StartupInv, Incomplete, MainLabel, QueueAll, ReportOne, Serving, Ended, Failing

\* A service without one of its handles touches neither its queue nor a device,
\* and never ends with success, whichever of its calls have failed.
THEOREM IncompleteNeverServes ==
    Spec => [](Incomplete => pc \notin {"queue", "report", "identify", "wait", "stopped", "done"})
<1>1. TypeInv /\ StartupInv =>
          (Incomplete => pc \notin {"queue", "report", "identify", "wait", "stopped", "done"})
  BY IncompleteIsLost DEF Failing
<1> QED BY <1>1, InitTypeInv, TypeInvInductive, StartupInvariant, PTL DEF Spec
-----------------------------------------------------------------------------
(* What the liveness properties rest on: every step brings its thread      *)
(* closer to where it has to get, and a thread that waits for the mutex    *)
(* waits for one that does not wait.                                       *)

LEMMA StopAdvances ==
    ASSUME TypeInv, Main, stop_event
    PROVE  Distance(pc') < Distance(pc) \/ ListingShrinks
<1> USE DEF Distance, ListingShrinks
<1>0. listing \subseteq Device
  BY DEF TypeInv, TypeOK
<1> USE <1>0
<1>1. CASE RegisterHandler
  BY <1>1 DEF RegisterHandler
<1>2. CASE Run
  BY <1>2 DEF Run, StatusPending, ReportStatus
<1>3. CASE \E h \in Handle : CreateHandle(h)
  BY <1>3 DEF CreateHandle, AfterCreate, Tested, Handle
<1>4. CASE Started
  BY <1>4 DEF Started, StatusOk, ReportStatus
<1>5. CASE Enumerate
  BY <1>5 DEF Enumerate
<1>6. CASE NextDevice
  <2>1. CASE \E d \in listing : listing' = listing \ {d} /\ pc' \in {"check_stop", pc}
    BY <1>6, <2>1 DEF NextDevice
  <2>2. CASE pc' = "report_lock"
    BY <1>6, <2>2 DEF NextDevice
  <2> QED BY <1>6, <2>1, <2>2 DEF NextDevice
<1>7. CASE CheckStop
  BY <1>7 DEF CheckStop
<1>8. CASE QueueLock
  BY <1>8 DEF QueueLock, MainAcquires, Acquire, AcquireThrows
<1>9. CASE Queue
  BY <1>9 DEF Queue, Release
<1>10. CASE ReportLock
  BY <1>10 DEF ReportLock, MainAcquires, Acquire, AcquireThrows
<1>11. CASE Report
  BY <1>11 DEF Report, Release
<1>12. CASE Identify
  BY <1>12 DEF Identify
<1>13. CASE Wait
  <2>1. pc = "wait" /\ pc' \in {"stopped", "throw"}
    BY ONLY <1>13, stop_event DEF Wait, WaitStop, WaitResume, WaitDevice, WaitTimeout, WaitFailed
  <2> QED BY <2>1
<1>14. CASE Stopped
  BY <1>14 DEF Stopped, StatusOk, ReportStatus
<1>15. CASE Throw
  BY <1>15 DEF Throw, StatusError, ReportStatus
<1>16. CASE Terminate
  BY <1>16 DEF Terminate, StatusError, ReportStatus
<1> QED
  BY <1>1, <1>2, <1>3, <1>4, <1>5, <1>6, <1>7, <1>8, <1>9, <1>10, <1>11, <1>12,
     <1>13, <1>14, <1>15, <1>16 DEF Main

\* With the stop signalled, each step of the main thread brings it closer to its
\* end: no path leads back to the enumeration or to the wait (StopCompletes).
THEOREM StopLeadsToTheEnd ==
    Spec => [][stop_event /\ Main => Distance(pc') < Distance(pc) \/ ListingShrinks]_vars
<1>1. TypeInv /\ [Next]_vars =>
          [stop_event /\ Main => Distance(pc') < Distance(pc) \/ ListingShrinks]_vars
  BY StopAdvances
<1> QED BY <1>1, InitTypeInv, TypeInvInductive, PTL DEF Spec

LEMMA IncompleteAdvances ==
    ASSUME TypeInv, StartupInv, Main, Incomplete
    PROVE  FailureDistance(pc') < FailureDistance(pc) \/ ListingShrinks
<1>0. /\ pc \in Failing \cup {"enumerate", "next_device", "check_stop",
                              "queue_lock", "report_lock"}
      /\ pc \notin Failing => "devices_mutex" \notin handles
      /\ listing \subseteq Device
  BY IncompleteIsLost DEF TypeInv, TypeOK
<1> USE <1>0 DEF FailureDistance, ListingShrinks, Failing
<1>1. CASE RegisterHandler
  BY <1>1 DEF RegisterHandler
<1>2. CASE Run
  BY <1>2 DEF Run, StatusPending, ReportStatus
<1>3. CASE \E h \in Handle : CreateHandle(h)
  BY <1>3 DEF CreateHandle, AfterCreate, Tested, Handle
<1>4. CASE Started
  BY <1>4 DEF Started, StatusOk, ReportStatus
<1>5. CASE Enumerate
  BY <1>5 DEF Enumerate
<1>6. CASE NextDevice
  <2>1. CASE \E d \in listing : listing' = listing \ {d} /\ pc' \in {"check_stop", pc}
    BY <1>6, <2>1 DEF NextDevice
  <2>2. CASE pc' = "report_lock"
    BY <1>6, <2>2 DEF NextDevice
  <2> QED BY <1>6, <2>1, <2>2 DEF NextDevice
<1>7. CASE CheckStop
  BY <1>7 DEF CheckStop
<1>8. CASE QueueLock
  BY <1>8 DEF QueueLock, MainAcquires, Acquire, AcquireThrows
<1>9. CASE Queue
  BY <1>9 DEF Queue, Release
<1>10. CASE ReportLock
  BY <1>10 DEF ReportLock, MainAcquires, Acquire, AcquireThrows
<1>11. CASE Report
  BY <1>11 DEF Report, Release
<1>12. CASE Identify
  BY <1>12 DEF Identify
<1>13. CASE Wait
  BY <1>13 DEF Wait, WaitStop, WaitResume, WaitDevice, WaitTimeout, WaitFailed
<1>14. CASE Stopped
  BY <1>14 DEF Stopped, StatusOk, ReportStatus
<1>15. CASE Throw
  BY <1>15 DEF Throw, StatusError, ReportStatus
<1>16. CASE Terminate
  BY <1>16 DEF Terminate, StatusError, ReportStatus
<1> QED
  BY <1>1, <1>2, <1>3, <1>4, <1>5, <1>6, <1>7, <1>8, <1>9, <1>10, <1>11, <1>12,
     <1>13, <1>14, <1>15, <1>16 DEF Main

\* A service with an incomplete startup is closer to the report of an error
\* after each step of its main thread (IncompleteStartupFails).
THEOREM IncompleteLeadsToFailure ==
    Spec => [][Incomplete /\ Main =>
                  FailureDistance(pc') < FailureDistance(pc) \/ ListingShrinks]_vars
<1>1. TypeInv /\ StartupInv /\ [Next]_vars =>
          [Incomplete /\ Main =>
              FailureDistance(pc') < FailureDistance(pc) \/ ListingShrinks]_vars
  BY IncompleteAdvances
<1> QED BY <1>1, InitTypeInv, TypeInvInductive, StartupInvariant, PTL DEF Spec

\* Each step of the control handler brings it closer to its return, and no step
\* of another thread takes it back (HandlerReturns).
THEOREM HandlerLeadsToReturn ==
    Spec => [][hpc # "idle" => \/ hpc' = hpc
                               \/ HandlerDistance(hpc') < HandlerDistance(hpc)]_vars
<1>1. ASSUME Main \/ Environment PROVE hpc' = hpc
  BY <1>1 DEF Main, RegisterHandler, Run, CreateHandle, Started, Enumerate, NextDevice,
     CheckStop, QueueLock, Queue, ReportLock, MainAcquires, Report, Identify,
     Wait, Stopped, Throw, Terminate, Environment, Plug, Install, Unplug, Resume, RequestStop
<1>2. ASSUME Handler, hpc # "idle" PROVE HandlerDistance(hpc') < HandlerDistance(hpc)
  BY <1>2 DEF HandlerDistance, Handler, Dispatch, StopReport, StopSignal, ResumeSignal,
     ArrivalLock, ArrivalQueue, ArrivalSignal, ArrivalUnlock
<1>3. [Next]_vars => [hpc # "idle" => \/ hpc' = hpc
                                      \/ HandlerDistance(hpc') < HandlerDistance(hpc)]_vars
  BY <1>1, <1>2 DEF Next
<1> QED BY <1>3, PTL DEF Spec

\* A thread that waits for the mutex waits for the other one, and that one is in
\* a section of a few steps none of which waits: the threads never wait for each
\* other, and the main thread never for a device that the handler identifies.
OwnerIsWorking ==
    /\ pc \in {"queue_lock", "report_lock"} /\ devices_mutex # "none" => InArrivalSection
    /\ hpc = "arrival_lock" /\ devices_mutex # "none" => InQueueSection

\* Whoever waits for the mutex waits for a thread that is inside of its section.
THEOREM NobodyWaitsForAWaiter == Spec => []OwnerIsWorking
<1>1. QueueInv => OwnerIsWorking
  BY DEF QueueInv, QueueExclusive, TypeOK, OwnerIsWorking, InQueueSection, InArrivalSection
<1> QED BY <1>1, QueueInvariant, PTL

\* A stop that the manager was told of is signalled, or is just about to be.
THEOREM StopIsSignalled ==
    Spec => [](status.state = "STOP_PENDING" => stop_event \/ hpc = "stop_signal")
<1>1. StartupInv => (status.state = "STOP_PENDING" => stop_event \/ hpc = "stop_signal")
  BY DEF StartupInv
<1> QED BY <1>1, StartupInvariant, PTL

\* The end of the main thread is what the manager is left with: no handler reports
\* over it, but for one that could not have the mutex and stops the service itself.
EndIsReported == pc \in {"done", "dead"} => status.state = "STOPPED"

\* With the process of the main thread at its end, the manager has been told.
THEOREM TheEndIsReported == Spec => [](arrival_failed \/ EndIsReported)
<1>1. Init => EndIsReported
  BY DEF Init, EndIsReported
<1>2. OrderInv /\ (arrival_failed \/ EndIsReported) /\ [Next]_vars
          => (arrival_failed \/ EndIsReported)'
  <2> SUFFICES ASSUME OrderInv, [Next]_vars, arrival_failed \/ EndIsReported, ~arrival_failed'
               PROVE  EndIsReported'
    OBVIOUS
  <2>0. StatusInv /\ StopInv /\ ~arrival_failed
    BY DEF OrderInv, Next, vars, Main, RegisterHandler, Run, CreateHandle, Started, Enumerate,
       NextDevice, CheckStop, QueueLock, Queue, ReportLock, MainAcquires, Report, Identify,
       Wait, Stopped, Throw, Terminate, Handler, Dispatch, StopReport, StopSignal, ResumeSignal,
       ArrivalLock, ArrivalQueue, ArrivalSignal, ArrivalUnlock, Environment, Plug, Install,
       Unplug, Resume, RequestStop
  <2>1. CASE Main
    <3>1. CASE Stopped \/ Terminate
      BY <3>1 DEF EndIsReported, Stopped, Terminate, StatusOk, StatusError, ReportStatus
    <3>2. CASE ~Stopped /\ ~Terminate
      <4>1. pc' \notin {"done", "dead"}
        BY <2>1, <3>2 DEF Main, RegisterHandler, Run, CreateHandle, AfterCreate, Handle, Started,
           Enumerate, NextDevice, CheckStop, QueueLock, Queue, ReportLock, MainAcquires, Report,
           Identify, Wait, WaitStop, WaitResume, WaitDevice, WaitTimeout, WaitFailed, Throw
      <4> QED BY <4>1 DEF EndIsReported
    <3> QED BY <3>1, <3>2
  <2>2. CASE Handler
    <3>1. CASE StopReport
      <4>1. pc' = pc /\ pc # "dead" /\ (status.state = "RUNNING" \/ status.exit = "error")
        BY <2>0, <2>2, <3>1 DEF StopReport, StopInv, Handler
      <4>2. pc # "done"
        BY <2>0, <4>1 DEF StatusInv, EndIsReported
      <4> QED BY <4>1, <4>2 DEF EndIsReported
    <3>2. CASE ~StopReport
      BY <2>0, <2>2, <3>2 DEF EndIsReported, Handler, Dispatch, StopSignal, ResumeSignal,
         ArrivalLock, ArrivalQueue, ArrivalSignal, ArrivalUnlock
    <3> QED BY <3>1, <3>2
  <2>3. CASE Environment \/ UNCHANGED vars
    BY <2>0, <2>3 DEF EndIsReported, Environment, Plug, Install, Unplug, Resume, RequestStop, vars
  <2> QED BY <2>1, <2>2, <2>3 DEF Next
<1> QED BY <1>1, <1>2, OrderInvariant, PTL DEF Spec
=============================================================================
