------------------------- MODULE ServiceControl_proofs -------------------------
(***************************************************************************)
(* Theorems about ServiceControl for any period of the tick count, any     *)
(* wait hints and any number of interferences.                             *)
(***************************************************************************)
EXTENDS ServiceControl, TLAPS

-----------------------------------------------------------------------------
(* Ticks.                                                                  *)

LEMMA HintsFit ==
    ASSUME NEW h \in Hints
    PROVE  h \in Nat /\ h + MaxSleep < Ticks
BY TimeAssumption DEF Hints

LEMMA ModuloRange ==
    ASSUME NEW n \in Nat
    PROVE  Ticks \in Nat /\ Ticks > 0 /\ n % Ticks \in 0 .. Ticks - 1
<1>1. Ticks \in Nat /\ Ticks > 0
  BY TimeAssumption
<1> QED BY <1>1

LEMMA SmallModulo ==
    ASSUME NEW n \in Nat, n < Ticks
    PROVE  n % Ticks = n /\ (n + Ticks) % Ticks = n
<1>1. Ticks \in Nat /\ Ticks > 0
  BY TimeAssumption
<1>2. PICK m \in Nat : m = Ticks
  BY <1>1
<1>3. n % m = n
  BY <1>1, <1>2
<1>4. (n + m) % m = n
  BY <1>1, <1>2
<1> QED BY <1>2, <1>3, <1>4

\* What has passed since the start of a wait is below two periods away from it.
LEMMA Wrapped ==
    ASSUME NEW s \in 0 .. Ticks - 1, NEW e \in Nat, e < Ticks
    PROVE  (s + e) % Ticks = IF s + e < Ticks THEN s + e ELSE s + e - Ticks
<1>1. Ticks \in Nat /\ Ticks > 0 /\ s \in Nat /\ s < Ticks
  BY TimeAssumption
<1>2. CASE s + e < Ticks
  BY <1>1, <1>2, SmallModulo
<1>3. CASE s + e >= Ticks
  <2>1. PICK n \in Nat : n = s + e - Ticks
    BY <1>1, <1>3
  <2>2. n < Ticks /\ s + e = n + Ticks
    BY <1>1, <2>1
  <2>3. (n + Ticks) % Ticks = n
    BY <2>2, SmallModulo
  <2> QED BY <1>1, <1>3, <2>1, <2>2, <2>3
<1> QED BY <1>1, <1>2, <1>3

\* The difference of two tick counts is the time between them, also when the
\* count has started again at 0.
LEMMA Difference ==
    ASSUME NEW s \in 0 .. Ticks - 1, NEW e \in Nat, e < Ticks,
           NEW c, c = (s + e) % Ticks
    PROVE  (c + Ticks - s) % Ticks = e
<1>1. Ticks \in Nat /\ Ticks > 0 /\ s \in Nat /\ s < Ticks
  BY TimeAssumption
<1>2. CASE s + e < Ticks
  <2>1. c + Ticks - s = e + Ticks
    BY <1>1, <1>2, Wrapped
  <2> QED BY <2>1, SmallModulo
<1>3. CASE s + e >= Ticks
  <2>1. c + Ticks - s = e
    BY <1>1, <1>3, Wrapped
  <2> QED BY <2>1, SmallModulo
<1> QED BY <1>1, <1>2, <1>3

LEMMA AddedTime ==
    ASSUME NEW s \in 0 .. Ticks - 1, NEW e \in Nat, NEW t \in Nat, e + t < Ticks
    PROVE  (((s + e) % Ticks) + t) % Ticks = (s + (e + t)) % Ticks
<1>1. Ticks \in Nat /\ Ticks > 0 /\ s \in Nat /\ s < Ticks /\ e < Ticks
  BY TimeAssumption
<1>2. PICK c \in Nat : c = (s + e) % Ticks /\ c < Ticks
  BY <1>1, ModuloRange
<1>3. c = IF s + e < Ticks THEN s + e ELSE s + e - Ticks
  BY <1>1, <1>2, Wrapped
<1>4. CASE s + e < Ticks
  BY <1>2, <1>3, <1>4
<1>5. CASE s + e >= Ticks
  <2>1. c + t < Ticks /\ c + t = s + e - Ticks + t
    BY <1>1, <1>3, <1>5
  <2>2. (c + t) % Ticks = c + t
    BY <1>2, <2>1, SmallModulo
  <2>3. (s + (e + t)) % Ticks = s + (e + t) - Ticks
    BY <1>1, <1>5, Wrapped
  <2> QED BY <1>1, <1>2, <2>1, <2>2, <2>3
<1> QED BY <1>1, <1>4, <1>5
-----------------------------------------------------------------------------
(* The inductive invariant.                                                *)

StatusType == [state : State, check_point : 0 .. 1, wait_hint : Hints]

Types ==
    /\ installed \in {"absent", "installed", "deleting"}
    /\ service \in StatusType /\ status \in StatusType
    /\ event_log \in BOOLEAN
    /\ others \in 0 .. MaxOther
    /\ command \in {"none", "install", "uninstall"}
    /\ pc \in Label
    /\ handle \in BOOLEAN
    /\ start_time \in 0 .. Ticks - 1 /\ clock \in 0 .. Ticks - 1
    /\ check_point \in 0 .. 1
    /\ wait_hint \in Hints
    /\ elapsed \in 0 .. Ticks - 1
    /\ exit \in {"none", "ok", "failed"}
    /\ restarted \in BOOLEAN /\ unregistered \in BOOLEAN

\* The tick count tells the time that has passed since the wait has started.
Timing ==
    /\ pc \in {"sleep", "poll"} => clock = (start_time + elapsed) % Ticks
    /\ pc = "sleep" => elapsed <= wait_hint
    /\ TimeoutJustified

\* What an install relies on has been registered, whoever has removed it since.
Known == event_log \/ unregistered

\* The event source has been registered before an install gets at the service.
Registered ==
    /\ pc \in {"create", "config", "describe", "start"} => command = "install"
    /\ (/\ pc \in {"manager", "create", "open", "config", "describe", "start"}
        /\ command = "install") => Known
    /\ installed # "absent" => Known

\* What the uninstall has seen still holds.
Stopped ==
    /\ pc = "delete" => status.state = "STOPPED"
    /\ (pc = "delete" \/ (pc = "waited" /\ command = "uninstall"))
           /\ ~restarted /\ status.state = "STOPPED" => service.state = "STOPPED"

Inv == Types /\ Timing /\ Registered /\ Stopped

LEMMA InitInv == ASSUME Init PROVE Inv
<1>1. 0 \in 0 .. Ticks - 1 /\ 0 \in 0 .. MaxOther
  BY TimeAssumption
<1>2. Types
  <2>1. Status("STOPPED", 0, 0) \in StatusType /\ 0 \in Hints
    BY DEF Status, StatusType, State, Hints
  <2>2. service \in StatusType /\ status \in StatusType /\ wait_hint \in Hints
    BY <2>1 DEF Init
  <2>3. others \in 0 .. MaxOther /\ start_time \in 0 .. Ticks - 1 /\ elapsed \in 0 .. Ticks - 1
    BY <1>1 DEF Init
  <2>4. check_point \in 0 .. 1
    BY DEF Init
  <2>5. pc \in Label
    BY DEF Init, Label
  <2> QED BY <2>2, <2>3, <2>4, <2>5 DEF Init, Types
<1> QED BY <1>2 DEF Init, Inv, Timing, TimeoutJustified, Registered, Known, Stopped

LEMMA InvImplies == Inv => TypeOK /\ TimeoutJustified /\ StoppedBeforeDelete /\ EventSourceFirst
<1>1. Inv => TypeOK
  BY DEF Inv, Types, StatusType, TypeOK
<1>2. Inv => TimeoutJustified /\ StoppedBeforeDelete
  BY DEF Inv, Timing, Stopped, StoppedBeforeDelete, Types
<1>3. Inv => EventSourceFirst
  BY DEF Inv, Registered, Known, EventSourceFirst
<1> QED BY <1>1, <1>2, <1>3

LEMMA StutterInv == ASSUME Inv, UNCHANGED vars PROVE Inv'
BY DEF Inv, Types, StatusType, Timing, TimeoutJustified, Pending, Registered,
       Known, Stopped, vars, manager, waiting, history
-----------------------------------------------------------------------------
(* The steps.                                                              *)

\* A command ends, however the call that ended it has left the manager.
LEMMA FinishInv ==
    ASSUME Inv, NEW how \in {"ok", "failed"}, Finish(how), Types',
           (installed # "absent" => Known)'
    PROVE  Inv'
BY DEF Inv, Finish, Timing, TimeoutJustified, Registered, Stopped

LEMMA FinishTypes ==
    ASSUME Inv, NEW how \in {"ok", "failed"}, Finish(how),
           UNCHANGED <<event_log, others, command, waiting, unregistered>>,
           status' = status, restarted' \in BOOLEAN,
           installed' \in {"absent", "installed", "deleting"}, service' \in StatusType
    PROVE  Types'
BY DEF Inv, Types, Finish, waiting, Label, StatusType

LEMMA FinishQuietly ==
    ASSUME Inv, NEW how \in {"ok", "failed"}, Finish(how),
           UNCHANGED <<manager, command, status, waiting, history>>
    PROVE  Inv'
<1>1. UNCHANGED <<installed, service, event_log, others, restarted, unregistered>>
  BY DEF manager, history
<1>2. Types'
  BY <1>1, FinishTypes DEF Inv, Types
<1>3. (installed # "absent" => Known)'
  BY <1>1 DEF Inv, Registered, Known
<1> QED BY <1>2, <1>3, FinishInv

\* A command goes on at a label where nothing has to hold but what an install
\* relies on.
LEMMA GoOnInv ==
    ASSUME Inv,
           UNCHANGED <<event_log, others, command, status, waiting, exit,
                       restarted, unregistered>>,
           installed' \in {"absent", "installed", "deleting"},
           service' \in StatusType, handle' \in BOOLEAN,
           pc' \in {"open", "config", "describe", "start", "query", "control", "wait"},
           Registered'
    PROVE  Inv'
<1>1. Types'
  BY DEF Inv, Types, waiting, Label, StatusType
<1> QED BY <1>1 DEF Inv, Timing, TimeoutJustified, Stopped

LEMMA BeginInv == ASSUME Inv, Install \/ Uninstall PROVE Inv'
<1>1. UNCHANGED <<manager, handle, status, waiting, history>> /\ pc' \in {"register", "manager"}
      /\ command' \in {"install", "uninstall"} /\ exit' = "none"
      /\ (pc' = "manager" => command' = "uninstall")
  BY DEF Install, Uninstall, Begin
<1>2. Types'
  BY <1>1 DEF Inv, Types, StatusType, manager, waiting, history, Label
<1> QED BY <1>1, <1>2
        DEF Inv, Timing, TimeoutJustified, Registered, Known, Stopped, manager, history

LEMMA WaitInv == ASSUME Inv, Wait PROVE Inv'
<1>1. pc = "wait" /\ UNCHANGED <<installed, service, event_log, others, command, unregistered>>
  BY DEF Wait, manager
<1>2. CASE Finish("failed") /\ UNCHANGED <<status, restarted, waiting>>
  BY <1>1, <1>2, FinishQuietly DEF manager, history
<1>3. CASE /\ status' = service /\ restarted' = FALSE /\ StartWaiting
           /\ pc' = IF service.state = Pending THEN "sleep" ELSE "waited"
           /\ UNCHANGED <<handle, exit>>
  <2>1. /\ start_time' = clock /\ elapsed' = 0 /\ clock' = clock
        /\ check_point' \in 0 .. 1 /\ wait_hint' \in Hints
    BY <1>3 DEF StartWaiting, Inv, Types, StatusType
  <2>2. 0 \in 0 .. Ticks - 1 /\ clock \in Nat /\ clock < Ticks
    BY TimeAssumption DEF Inv, Types
  <2>3. Types'
    BY <1>1, <1>3, <2>1, <2>2 DEF Inv, Types, StatusType, Label
  <2>4. Timing'
    <3>1. clock' = (start_time' + elapsed') % Ticks
      BY <2>1, <2>2, SmallModulo
    <3>2. elapsed' <= wait_hint'
      BY <2>1, HintsFit
    <3>3. pc' = "waited" => status'.state # Pending'
      BY <1>1, <1>3 DEF Pending
    <3> QED BY <3>1, <3>2, <3>3 DEF Timing, TimeoutJustified
  <2>5. Registered' /\ Stopped'
    BY <1>1, <1>3 DEF Inv, Registered, Known, Stopped
  <2> QED BY <2>3, <2>4, <2>5 DEF Inv
<1> QED BY <1>2, <1>3 DEF Wait, ReadStatus

LEMMA SleepInv == ASSUME Inv, Sleep PROVE Inv'
<1>1. PICK t \in 1 .. MaxSleep : clock' = (clock + t) % Ticks /\ elapsed' = elapsed + t
  BY DEF Sleep
<1>2. /\ pc = "sleep" /\ pc' = "poll"
      /\ UNCHANGED <<installed, service, event_log, others, command, handle, status,
                     start_time, check_point, wait_hint, exit, restarted, unregistered>>
  BY DEF Sleep, manager, history
<1>3. /\ elapsed \in Nat /\ t \in Nat /\ t <= MaxSleep /\ start_time \in 0 .. Ticks - 1
      /\ elapsed <= wait_hint /\ wait_hint \in Nat /\ wait_hint + MaxSleep < Ticks
      /\ MaxSleep \in Nat /\ Ticks \in Nat
      /\ clock \in Nat /\ clock = (start_time + elapsed) % Ticks
  BY <1>2, HintsFit, TimeAssumption DEF Inv, Types, Timing
<1>4. elapsed + t < Ticks
  BY <1>3
<1>5. clock' = (start_time + elapsed') % Ticks
  BY <1>1, <1>3, <1>4, AddedTime
<1>6. clock' \in 0 .. Ticks - 1 /\ elapsed' \in 0 .. Ticks - 1
  BY <1>1, <1>3, <1>4, ModuloRange
<1>7. Types'
  BY <1>2, <1>6 DEF Inv, Types, StatusType, Label
<1> QED BY <1>2, <1>5, <1>7
        DEF Inv, Timing, TimeoutJustified, Registered, Known, Stopped

LEMMA PollInv == ASSUME Inv, Poll PROVE Inv'
<1>1. pc = "poll" /\ UNCHANGED <<installed, service, event_log, others, command, unregistered>>
  BY DEF Poll, manager
<1>2. CASE Finish("failed") /\ UNCHANGED <<status, restarted, waiting>>
  BY <1>1, <1>2, FinishQuietly DEF manager, history
<1>3. /\ start_time \in 0 .. Ticks - 1 /\ elapsed \in Nat /\ elapsed < Ticks
      /\ clock \in Nat /\ clock < Ticks /\ clock = (start_time + elapsed) % Ticks
      /\ wait_hint \in Nat /\ 0 \in 0 .. Ticks - 1
  BY <1>1, HintsFit, TimeAssumption DEF Inv, Types, Timing
<1>4. TimedOut <=> elapsed > wait_hint
  BY <1>3, Difference DEF TimedOut
<1>5. CASE /\ status' = service /\ restarted' = FALSE
           /\ IF service.check_point # check_point THEN StartWaiting ELSE UNCHANGED waiting
           /\ pc' = IF service.state = Pending
                       /\ (service.check_point # check_point \/ ~TimedOut)
                    THEN "sleep" ELSE "waited"
           /\ UNCHANGED <<handle, exit>>
  <2>1. CASE service.check_point # check_point
    <3>1. /\ start_time' = clock /\ elapsed' = 0 /\ clock' = clock
          /\ check_point' \in 0 .. 1 /\ wait_hint' \in Hints
      BY <1>5, <2>1 DEF StartWaiting, Inv, Types, StatusType
    <3>2. Types'
      BY <1>1, <1>3, <1>5, <3>1 DEF Inv, Types, StatusType, Label
    <3>3. clock' = (start_time' + elapsed') % Ticks
      BY <1>3, <3>1, SmallModulo
    <3>4. elapsed' <= wait_hint'
      BY <3>1, HintsFit
    <3>5. pc' = "waited" => status'.state # Pending'
      BY <1>1, <1>5, <2>1 DEF Pending
    <3>6. Timing'
      BY <3>3, <3>4, <3>5 DEF Timing, TimeoutJustified
    <3> QED BY <1>1, <1>5, <3>2, <3>6 DEF Inv, Registered, Known, Stopped
  <2>2. CASE service.check_point = check_point
    <3>1. UNCHANGED <<start_time, check_point, wait_hint, clock, elapsed>>
      BY <1>5, <2>2 DEF waiting
    <3>2. Types'
      BY <1>1, <1>5, <3>1 DEF Inv, Types, StatusType, Label
    <3>3. pc' = "sleep" => elapsed <= wait_hint
      BY <1>3, <1>4, <1>5, <2>2
    <3>4. (pc' = "waited" /\ status'.state = Pending') => elapsed > wait_hint
      BY <1>1, <1>4, <1>5, <2>2 DEF Pending
    <3>5. Timing'
      BY <1>3, <3>1, <3>3, <3>4 DEF Timing, TimeoutJustified
    <3> QED BY <1>1, <1>5, <3>2, <3>5 DEF Inv, Registered, Known, Stopped
  <2> QED BY <2>1, <2>2
<1> QED BY <1>2, <1>5 DEF Poll, ReadStatus

\* The steps of an install.
LEMMA RegisterInv == ASSUME Inv, Register PROVE Inv'
<1>1. UNCHANGED <<installed, service, others, command, status, waiting, restarted>>
  BY DEF Register
<1>2. CASE /\ event_log' = TRUE /\ unregistered' = FALSE
           /\ pc' = "manager" /\ UNCHANGED <<handle, exit>>
  <2>1. Types'
    BY <1>1, <1>2 DEF Inv, Types, StatusType, waiting, Label
  <2> QED BY <1>1, <1>2, <2>1
          DEF Inv, Timing, TimeoutJustified, Registered, Known, Stopped
<1>3. CASE Finish("failed") /\ UNCHANGED <<event_log, unregistered>>
  BY <1>1, <1>3, FinishQuietly DEF manager, history
<1> QED BY <1>2, <1>3 DEF Register

LEMMA CreateInv == ASSUME Inv, CreateService PROVE Inv'
<1>1. /\ UNCHANGED <<service, event_log, others, command, status, waiting,
                     restarted, unregistered>>
      /\ command = "install" /\ Known
  BY DEF CreateService, history, Inv, Registered
<1>2. CASE Finish("failed") /\ UNCHANGED installed
  BY <1>1, <1>2, FinishQuietly DEF manager, history
<1>3. CASE /\ installed' \in {"installed", installed} /\ handle' \in {TRUE, handle}
           /\ pc' \in {"describe", "open"} /\ UNCHANGED exit
  <2>1. Registered'
    BY <1>1, <1>3 DEF Registered, Known
  <2> QED BY <1>1, <1>3, <2>1, GoOnInv DEF Inv, Types
<1> QED BY <1>2, <1>3 DEF CreateService

LEMMA StartInv == ASSUME Inv, StartService PROVE Inv'
<1>1. UNCHANGED <<installed, event_log, others, command, status, waiting,
                  restarted, unregistered>>
  BY DEF StartService, history
<1>2. CASE /\ service' = Status("START_PENDING", 0, StartHint)
           /\ pc' = "wait" /\ UNCHANGED <<handle, exit>>
  <2>1. service' \in StatusType
    BY <1>2 DEF Status, StatusType, State, Hints
  <2>2. Registered'
    BY <1>1, <1>2 DEF Inv, Registered, Known
  <2> QED BY <1>1, <1>2, <2>1, <2>2, GoOnInv DEF Inv, Types
<1>3. CASE (Finish("ok") \/ Finish("failed")) /\ UNCHANGED service
  BY <1>1, <1>3, FinishQuietly DEF manager, history
<1> QED BY <1>2, <1>3 DEF StartService

\* The steps of an uninstall.
LEMMA QueryInv == ASSUME Inv, Query PROVE Inv'
<1>1. UNCHANGED <<installed, service, event_log, others, command, waiting, unregistered>>
  BY DEF Query, manager
<1>2. CASE Finish("failed") /\ UNCHANGED <<status, restarted>>
  BY <1>1, <1>2, FinishQuietly DEF manager, history
<1>3. CASE /\ status' = service /\ restarted' = FALSE
           /\ pc' = CASE service.state = "STOPPED" -> "delete"
                      [] service.state = "STOP_PENDING" -> "wait"
                      [] OTHER -> "control"
           /\ UNCHANGED <<handle, exit>>
  <2>1. pc' \in {"delete", "wait", "control"} /\ (pc' = "delete" => service.state = "STOPPED")
    BY <1>3
  <2>2. Types'
    BY <1>1, <1>3, <2>1 DEF Inv, Types, StatusType, waiting, Label
  <2> QED BY <1>1, <1>3, <2>1, <2>2
          DEF Inv, Timing, TimeoutJustified, Registered, Known, Stopped
<1> QED BY <1>2, <1>3 DEF Query, ReadStatus

LEMMA ControlInv == ASSUME Inv, ControlService PROVE Inv'
<1>1. UNCHANGED <<installed, event_log, others, command, status, waiting,
                  restarted, unregistered>>
  BY DEF ControlService, history
<1>2. CASE /\ service' = Status("STOP_PENDING", 1, PendingHint)
           /\ pc' = "wait" /\ UNCHANGED <<handle, exit>>
  <2>1. service' \in StatusType
    BY <1>2 DEF Status, StatusType, State, Hints
  <2>2. Registered'
    BY <1>1, <1>2 DEF Inv, Registered, Known
  <2> QED BY <1>1, <1>2, <2>1, <2>2, GoOnInv DEF Inv, Types
<1>3. CASE Finish("failed") /\ UNCHANGED service
  BY <1>1, <1>3, FinishQuietly DEF manager, history
<1> QED BY <1>2, <1>3 DEF ControlService

LEMMA UninstallWaitedInv == ASSUME Inv, UninstallWaited PROVE Inv'
<1>1. /\ UNCHANGED <<manager, command, status, waiting, history>>
      /\ pc = "waited" /\ command = "uninstall"
  BY DEF UninstallWaited
<1>2. CASE status.state = "STOPPED" /\ pc' = "delete" /\ UNCHANGED <<handle, exit>>
  <2>1. Types'
    BY <1>1, <1>2 DEF Inv, Types, StatusType, manager, waiting, history, Label
  <2> QED BY <1>1, <1>2, <2>1
          DEF Inv, Timing, TimeoutJustified, Registered, Known, Stopped, manager, history
<1>3. CASE Finish("ok")
  BY <1>1, <1>3, FinishQuietly
<1> QED BY <1>2, <1>3 DEF UninstallWaited

LEMMA DeleteInv == ASSUME Inv, DeleteService PROVE Inv'
<1>1. UNCHANGED <<service, event_log, others, command, status, waiting,
                  restarted, unregistered>>
  BY DEF DeleteService, history
<1>2. PICK how \in {"ok", "failed"} : Finish(how)
  BY DEF DeleteService
<1>3. /\ installed' \in {"absent", "installed", "deleting"}
      /\ installed' # "absent" => installed # "absent"
  BY DEF DeleteService, Inv, Types
<1>4. Types'
  BY <1>1, <1>2, <1>3, FinishTypes DEF Inv, Types
<1>5. (installed # "absent" => Known)'
  BY <1>1, <1>3 DEF Inv, Registered, Known
<1> QED BY <1>2, <1>4, <1>5, FinishInv

\* The calls that change nothing but the place, and the returns.
LEMMA PlainInv ==
    ASSUME Inv, \/ OpenSCManager \/ OpenService \/ ChangeServiceConfig
                \/ ChangeServiceConfig2 \/ InstallWaited
    PROVE  Inv'
<1>1. UNCHANGED <<manager, command, status, waiting, history>>
  BY DEF OpenSCManager, OpenService, ChangeServiceConfig, ChangeServiceConfig2, InstallWaited
<1>2. CASE Finish("ok") \/ Finish("failed")
  BY <1>1, <1>2, FinishQuietly
<1>3. CASE /\ \/ pc \in {"manager", "open"} /\ pc' \in {"open", "query"} /\ command # "install"
              \/ pc = "open" /\ pc' = "config" /\ command = "install"
              \/ pc \in {"config", "describe"} /\ pc' \in {"describe", "start"}
           /\ handle' \in {TRUE, handle} /\ UNCHANGED exit
  <2>1. Registered'
    BY <1>1, <1>3 DEF manager, history, Inv, Registered, Known
  <2> QED BY <1>1, <1>3, <2>1, GoOnInv DEF manager, history, Inv, Types
<1>4. CASE pc = "manager" /\ pc' = "create" /\ command = "install" /\ UNCHANGED <<handle, exit>>
  <2>1. Types'
    BY <1>1, <1>4 DEF Inv, Types, StatusType, manager, waiting, history, Label
  <2> QED BY <1>1, <1>4, <2>1
          DEF Inv, Timing, TimeoutJustified, Registered, Known, Stopped, manager, history
<1>5. \/ Finish("ok") \/ Finish("failed")
      \/ /\ \/ pc \in {"manager", "open"} /\ pc' \in {"open", "query"} /\ command # "install"
            \/ pc = "open" /\ pc' = "config" /\ command = "install"
            \/ pc \in {"config", "describe"} /\ pc' \in {"describe", "start"}
         /\ handle' \in {TRUE, handle} /\ UNCHANGED exit
      \/ pc = "manager" /\ pc' = "create" /\ command = "install" /\ UNCHANGED <<handle, exit>>
  BY DEF OpenSCManager, OpenService, ChangeServiceConfig, ChangeServiceConfig2,
         InstallWaited, Calls
<1> QED BY <1>2, <1>3, <1>4, <1>5

\* What happens meanwhile: the service starts again only by the other
\* administrator, nothing comes into being, and what was registered is there or
\* was removed.
LEMMA MeanwhileInv ==
    ASSUME Inv, UNCHANGED <<command, pc, handle, status, waiting, exit>>,
           installed' \in {"absent", "installed", "deleting"}, service' \in StatusType,
           event_log' \in BOOLEAN, restarted' \in BOOLEAN, unregistered' \in BOOLEAN,
           others' \in 0 .. MaxOther,
           installed' # "absent" => installed # "absent",
           service'.state = "STOPPED" \/ service.state # "STOPPED" \/ restarted',
           restarted => restarted',
           Known => Known'
    PROVE  Inv'
<1>1. Types'
  BY DEF Inv, Types, waiting, StatusType
<1>2. Timing'
  BY DEF Inv, Timing, TimeoutJustified, Pending, waiting
<1>3. Registered'
  BY DEF Inv, Registered
<1>4. Stopped'
  BY DEF Inv, Stopped
<1> QED BY <1>1, <1>2, <1>3, <1>4 DEF Inv

LEMMA StatusTypes ==
    /\ Status("START_PENDING", 1, PendingHint) \in StatusType
    /\ Status("RUNNING", 0, 0) \in StatusType
    /\ Status("STOPPED", 0, 0) \in StatusType
    /\ Status("START_PENDING", 0, StartHint) \in StatusType
    /\ Status("STOP_PENDING", 1, PendingHint) \in StatusType
    /\ Status("STOPPED", 0, 0).state = "STOPPED"
BY DEF Status, StatusType, State, Hints

LEMMA ServiceInv ==
    ASSUME Inv, ServiceStarting \/ ServiceRunning \/ ServiceStopped PROVE Inv'
<1>1. /\ UNCHANGED <<installed, event_log, others, command, pc, handle, status, waiting, exit,
                     restarted, unregistered>>
      /\ service' \in StatusType
      /\ service.state # "STOPPED" \/ service'.state = "STOPPED"
  BY StatusTypes DEF ServiceStarting, ServiceRunning, ServiceStopped, ServiceReports, history
<1>2. Known => Known'
  BY <1>1 DEF Known
<1> QED BY <1>1, <1>2, MeanwhileInv DEF Inv, Types

LEMMA OtherInv ==
    ASSUME Inv, OtherStarts \/ OtherStops \/ OtherDeletes \/ OtherRegisters \/ OtherUnregisters
    PROVE  Inv'
<1>1. /\ UNCHANGED <<command, pc, handle, status, waiting, exit>>
      /\ others < MaxOther /\ others' = others + 1
  BY DEF OtherStarts, OtherStops, OtherDeletes, OtherRegisters, OtherUnregisters, Other
<1>2. others \in Nat /\ MaxOther \in Nat
  BY TimeAssumption DEF Inv, Types
<1>3. others' \in 0 .. MaxOther
  BY <1>1, <1>2
<1>4. CASE OtherStarts
  <2>1. /\ UNCHANGED <<installed, event_log, unregistered>> /\ restarted' = TRUE
        /\ service' \in StatusType
    BY <1>4, StatusTypes DEF OtherStarts
  <2>2. Known => Known'
    BY <2>1 DEF Known
  <2> QED BY <1>1, <1>3, <2>1, <2>2, MeanwhileInv DEF Inv, Types
<1>5. CASE OtherStops
  <2>1. /\ UNCHANGED <<installed, event_log, restarted, unregistered>>
        /\ service' \in StatusType /\ service.state # "STOPPED"
    BY <1>5, StatusTypes DEF OtherStops, history
  <2>2. Known => Known'
    BY <2>1 DEF Known
  <2> QED BY <1>1, <1>3, <2>1, <2>2, MeanwhileInv DEF Inv, Types
<1>6. CASE OtherDeletes
  <2>1. /\ UNCHANGED <<service, event_log, restarted, unregistered>>
        /\ installed = "installed" /\ installed' = "deleting"
    BY <1>6 DEF OtherDeletes, history
  <2>2. Known => Known'
    BY <2>1 DEF Known
  <2> QED BY <1>1, <1>3, <2>1, <2>2, MeanwhileInv DEF Inv, Types
<1>7. CASE OtherRegisters \/ OtherUnregisters
  <2>1. /\ UNCHANGED <<installed, service, restarted>>
        /\ event_log' \in BOOLEAN /\ unregistered' \in BOOLEAN
        /\ event_log' \/ unregistered'
    BY <1>7 DEF OtherRegisters, OtherUnregisters
  <2>2. Known => Known'
    BY <2>1 DEF Known
  <2> QED BY <1>1, <1>3, <2>1, <2>2, MeanwhileInv DEF Inv, Types
<1> QED BY <1>4, <1>5, <1>6, <1>7

LEMMA PurgeInv == ASSUME Inv, Purge PROVE Inv'
<1>1. /\ UNCHANGED <<service, event_log, others, command, pc, handle, status, waiting, exit,
                     restarted, unregistered>>
      /\ installed' = "absent"
  BY DEF Purge, history
<1>2. Known => Known'
  BY <1>1 DEF Known
<1> QED BY <1>1, <1>2, MeanwhileInv DEF Inv, Types

LEMMA NextInv == Inv /\ [Next]_vars => Inv'
<1> SUFFICES ASSUME Inv, [Next]_vars PROVE Inv'
  OBVIOUS
<1>1. CASE Install \/ Uninstall
  BY <1>1, BeginInv
<1>2. CASE CommandStep
  BY <1>2, PlainInv, WaitInv, SleepInv, PollInv, RegisterInv, CreateInv, StartInv, QueryInv,
     ControlInv, UninstallWaitedInv, DeleteInv DEF CommandStep
<1>3. CASE ServiceStarting \/ ServiceRunning \/ ServiceStopped
  BY <1>3, ServiceInv
<1>4. CASE OtherStarts \/ OtherStops \/ OtherDeletes \/ OtherRegisters \/ OtherUnregisters
  BY <1>4, OtherInv
<1>5. CASE Purge
  BY <1>5, PurgeInv
<1>6. CASE UNCHANGED vars
  BY <1>6, StutterInv
<1> QED BY <1>1, <1>2, <1>3, <1>4, <1>5, <1>6 DEF Next

LEMMA Invariant == Spec => []Inv
<1> QED BY InitInv, NextInv, PTL DEF Spec

(***************************************************************************)
(* The theorems.                                                           *)
(***************************************************************************)

\* Every variable keeps its type: the tick count stays within its period, and no
\* wait is as long as the period.
THEOREM TypeCorrect == Spec => []TypeOK
BY Invariant, InvImplies, PTL

\* A wait is given up only when the whole of its hint has passed, wherever the
\* tick count stood when it started.
THEOREM TimeoutsAreJustified == Spec => []TimeoutJustified
BY Invariant, InvImplies, PTL

\* A running service is not deleted, whoever interferes, unless someone else has
\* started it since its status was read last (lines 209-234).
THEOREM StoppedWhenDeleted == Spec => []StoppedBeforeDelete
BY Invariant, InvImplies, PTL

\* An install touches the service only when the event source was registered, and
\* there is no service without it unless someone has removed it since (line 98).
THEOREM EventSourceIsFirst == Spec => []EventSourceFirst
BY Invariant, InvImplies, PTL
-----------------------------------------------------------------------------
(* Why a command ends: each of its steps brings it closer to its end, and  *)
(* nothing that happens meanwhile takes it back, though a wait starts anew *)
(* at each check point.                                                    *)

Stage(label) ==
    CASE label = "register" -> 11
      [] label = "manager" -> 10
      [] label = "create" -> 9
      [] label = "open" -> 8
      [] label \in {"config", "query"} -> 7
      [] label \in {"describe", "control"} -> 6
      [] label = "start" -> 5
      [] label = "wait" -> 4
      [] label \in {"sleep", "poll"} -> 3
      [] label = "waited" -> 2
      [] label = "delete" -> 1
      [] label = "idle" -> 0

\* How often the service may still show another check point.
Signs ==
    4 * (MaxOther - others) +
        IF service.state = "STOPPED" THEN 0
        ELSE IF service.state = "START_PENDING" THEN 3 - service.check_point
        ELSE 1

\* With the one that the wait has not seen yet.
Pulse == 2 * Signs + IF service.check_point # check_point THEN 1 ELSE 0

\* The time that a wait without another check point has left.
Remaining == 2 * (Ticks - elapsed) + IF pc = "poll" THEN 1 ELSE 0

Nearer ==
    \/ Stage(pc') < Stage(pc)
    \/ /\ Stage(pc') = Stage(pc)
       /\ Pulse' < Pulse \/ (Pulse' = Pulse /\ Remaining' < Remaining)

NoFarther ==
    /\ pc' = pc
    /\ Pulse' < Pulse \/ (Pulse' = Pulse /\ Remaining' = Remaining)

LEMMA Measures == ASSUME Inv PROVE Signs \in Nat /\ Pulse \in Nat /\ Remaining \in Nat
<1>1. /\ others \in Nat /\ MaxOther \in Nat /\ others <= MaxOther
      /\ Ticks \in Nat /\ elapsed \in Nat /\ elapsed < Ticks
  BY TimeAssumption DEF Inv, Types
<1>2. service.check_point \in 0 .. 1
  BY DEF Inv, Types, StatusType
<1>3. Signs \in Nat
  BY <1>1, <1>2 DEF Signs
<1>4. Pulse \in Nat
  BY <1>3 DEF Pulse
<1>5. Remaining \in Nat
  BY <1>1 DEF Remaining
<1> QED BY <1>3, <1>4, <1>5

\* The steps of a command without its polling go forward.
LEMMA CommandNearer ==
    ASSUME Inv, CommandStep, ~Sleep, ~Poll
    PROVE  Nearer
<1> DEFINE Goes(from, to) == pc = from /\ pc' \in to \cup {"idle"}
<1>1. OpenSCManager => Goes("manager", {"create", "open"})
  BY DEF OpenSCManager, Calls, Finish
<1>2. OpenService => Goes("open", {"config", "query"})
  BY DEF OpenService, Finish
<1>3. Register => Goes("register", {"manager"})
  BY DEF Register, Finish
<1>4. CreateService => Goes("create", {"open", "describe"})
  BY DEF CreateService, Finish
<1>5. ChangeServiceConfig => Goes("config", {"describe"})
  BY DEF ChangeServiceConfig, Calls, Finish
<1>6. ChangeServiceConfig2 => Goes("describe", {"start"})
  BY DEF ChangeServiceConfig2, Calls, Finish
<1>7. StartService => Goes("start", {"wait"})
  BY DEF StartService, Finish
<1>8. Query => Goes("query", {"delete", "wait", "control"})
  BY DEF Query, Finish
<1>9. ControlService => Goes("control", {"wait"})
  BY DEF ControlService, Finish
<1>10. Wait => Goes("wait", {"sleep", "waited"})
  BY DEF Wait, Finish
<1>11. InstallWaited \/ UninstallWaited => Goes("waited", {"delete"})
  BY DEF InstallWaited, UninstallWaited, Finish
<1>12. DeleteService => Goes("delete", {})
  BY DEF DeleteService, Finish
<1>13. Stage(pc') < Stage(pc)
  <2>1. ASSUME NEW from \in Label, NEW to, Goes(from, to)
        PROVE  pc = from /\ pc' \in to \cup {"idle"}
    BY <2>1
  <2> HIDE DEF Goes
  <2>2. \/ Goes("manager", {"create", "open"}) \/ Goes("open", {"config", "query"})
        \/ Goes("register", {"manager"}) \/ Goes("create", {"open", "describe"})
        \/ Goes("config", {"describe"}) \/ Goes("describe", {"start"})
        \/ Goes("start", {"wait"}) \/ Goes("query", {"delete", "wait", "control"})
        \/ Goes("control", {"wait"}) \/ Goes("wait", {"sleep", "waited"})
        \/ Goes("waited", {"delete"}) \/ Goes("delete", {})
    BY <1>1, <1>2, <1>3, <1>4, <1>5, <1>6, <1>7, <1>8, <1>9, <1>10, <1>11, <1>12
       DEF CommandStep
  <2> USE DEF Goes
  <2> QED BY <2>2 DEF Stage
<1> QED BY <1>13 DEF Nearer

LEMMA PollingNearer == ASSUME Inv, Sleep \/ Poll PROVE Nearer
<1>1. CASE Sleep
  <2>1. PICK t \in 1 .. MaxSleep : elapsed' = elapsed + t
    BY <1>1 DEF Sleep
  <2>2. pc = "sleep" /\ pc' = "poll" /\ UNCHANGED <<service, others, check_point>>
    BY <1>1 DEF Sleep, manager
  <2>3. Pulse' = Pulse
    BY <2>2 DEF Pulse, Signs
  <2>4. elapsed \in Nat /\ Ticks \in Nat /\ MaxSleep \in Nat
    BY TimeAssumption DEF Inv, Types
  <2>5. Remaining' < Remaining
    BY <2>1, <2>2, <2>4 DEF Remaining
  <2> QED BY <2>2, <2>3, <2>5 DEF Nearer, Stage
<1>2. CASE Poll
  <2>1. pc = "poll" /\ UNCHANGED <<service, others>>
    BY <1>2 DEF Poll, manager
  <2>2. Signs' = Signs /\ Signs \in Nat
    BY <2>1, Measures DEF Signs
  <2>3. CASE pc' \in {"idle", "waited"}
    BY <2>1, <2>3 DEF Nearer, Stage
  <2>4. CASE pc' = "sleep" /\ service.check_point # check_point /\ StartWaiting
    <3>1. Pulse' < Pulse
      BY <2>1, <2>2, <2>4 DEF Pulse, StartWaiting
    <3> QED BY <2>1, <2>4, <3>1 DEF Nearer, Stage
  <2>5. CASE pc' = "sleep" /\ service.check_point = check_point /\ UNCHANGED waiting
    <3>1. Pulse' = Pulse
      BY <2>1, <2>2, <2>5 DEF Pulse, waiting
    <3>2. elapsed \in Nat /\ Ticks \in Nat
      BY TimeAssumption DEF Inv, Types
    <3>3. Remaining' < Remaining
      BY <2>1, <2>5, <3>2 DEF Remaining, waiting
    <3> QED BY <2>1, <2>5, <3>1, <3>3 DEF Nearer, Stage
  <2> QED BY <1>2, <2>3, <2>4, <2>5 DEF Poll, Finish, ReadStatus
<1> QED BY <1>1, <1>2

LEMMA MeanwhileNoFarther ==
    ASSUME Inv, \/ ServiceStarting \/ ServiceRunning \/ ServiceStopped \/ Purge
                \/ OtherStarts \/ OtherStops \/ OtherDeletes
                \/ OtherRegisters \/ OtherUnregisters
    PROVE  NoFarther
<1>1. UNCHANGED <<pc, check_point, elapsed>>
  BY DEF ServiceStarting, ServiceRunning, ServiceStopped, ServiceReports, Purge,
         OtherStarts, OtherStops, OtherDeletes, OtherRegisters, OtherUnregisters, Other,
         waiting
<1>2. /\ others \in Nat /\ MaxOther \in Nat /\ service.check_point \in {0, 1}
      /\ Signs \in Nat
  BY TimeAssumption, Measures DEF Inv, Types, StatusType
<1>3. Remaining' = Remaining
  BY <1>1 DEF Remaining
<1>4. CASE service' = service /\ others' = others
  BY <1>1, <1>3, <1>4 DEF NoFarther, Pulse, Signs
<1>5. CASE Signs' < Signs /\ Signs' \in Int
  <2>0. PICK s \in Nat, t \in Int : Signs = s /\ Signs' = t /\ t < s
    BY <1>2, <1>5
  <2>1. Pulse \in {2 * s, 2 * s + 1} /\ Pulse' \in {2 * t, 2 * t + 1}
    BY <2>0 DEF Pulse
  <2>3. Pulse' < Pulse
    BY <2>0, <2>1
  <2> QED BY <1>1, <2>3 DEF NoFarther
<1>6. CASE ServiceStarting
  <2>1. service.state = "START_PENDING" /\ service'.state = "START_PENDING"
        /\ service'.check_point = 1 /\ others' = others
    BY <1>6 DEF ServiceStarting, ServiceReports, Status
  <2>2. CASE service.check_point = 1
    BY <1>1, <1>3, <2>1, <2>2 DEF NoFarther, Pulse, Signs
  <2>3. CASE service.check_point = 0
    BY <1>2, <1>5, <2>1, <2>3 DEF Signs
  <2> QED BY <1>2, <2>2, <2>3
<1>7. CASE ServiceRunning
  BY <1>2, <1>5, <1>7 DEF ServiceRunning, ServiceReports, Status, Signs
<1>8. CASE ServiceStopped
  BY <1>2, <1>5, <1>8 DEF ServiceStopped, ServiceReports, Status, Signs
<1>9. CASE Purge
  BY <1>4, <1>9 DEF Purge
<1>10. CASE OtherStarts
  <2>1. /\ service.state = "STOPPED" /\ others' = others + 1 /\ others < MaxOther
        /\ service'.state = "START_PENDING" /\ service'.check_point = 0
    BY <1>10 DEF OtherStarts, Other, Status
  <2>2. Signs' = Signs - 1
    BY <1>2, <2>1 DEF Signs
  <2> QED BY <1>2, <1>5, <2>2
<1>11. CASE OtherStops
  <2>1. /\ service.state = "RUNNING" /\ others' = others + 1 /\ others < MaxOther
        /\ service'.state = "STOP_PENDING"
    BY <1>11 DEF OtherStops, Other, Status
  <2>2. Signs' = Signs - 4
    BY <1>2, <2>1 DEF Signs
  <2> QED BY <1>2, <1>5, <2>2
<1>12. CASE OtherDeletes \/ OtherRegisters \/ OtherUnregisters
  <2>1. service' = service /\ others' = others + 1 /\ others < MaxOther
    BY <1>12 DEF OtherDeletes, OtherRegisters, OtherUnregisters, Other
  <2>2. Signs' = Signs - 4
    BY <1>2, <2>1 DEF Signs
  <2> QED BY <1>2, <1>5, <2>2
<1> QED BY <1>6, <1>7, <1>8, <1>9, <1>10, <1>11, <1>12

Advances == /\ Pulse \in Nat /\ Remaining \in Nat
            /\ CommandStep => Nearer
            /\ pc # "idle" /\ ~CommandStep => NoFarther

\* The distance of a command from its end decreases with each of its steps, in
\* the lexicographic order of its stage, of the check points that the service
\* may still show, and of the time of the wait; neither the service nor another
\* administrator ever increases it, also when the tick count starts again.  This
\* is why CommandEnds holds as long as the command runs on (lines 70-89).
THEOREM CommandsLeadToTheEnd == Spec => [][Advances]_vars
<1>1. Inv /\ [Next]_vars => [Advances]_vars
  <2> SUFFICES ASSUME Inv, Next PROVE Advances
    OBVIOUS
  <2>1. CommandStep => Nearer
    BY CommandNearer, PollingNearer
  <2>2. ASSUME pc # "idle", ~CommandStep PROVE NoFarther
    <3>1. ~Install /\ ~Uninstall
      BY <2>2 DEF Install, Uninstall, Begin
    <3> QED BY <2>2, <3>1, MeanwhileNoFarther DEF Next
  <2> QED BY <2>1, <2>2, Measures DEF Advances
<1> QED BY <1>1, Invariant, PTL DEF Spec
=============================================================================
