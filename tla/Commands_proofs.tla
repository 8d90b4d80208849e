--------------------------- MODULE Commands_proofs ---------------------------
(***************************************************************************)
(* Theorems about Commands for any number of paths, devices and arguments. *)
(***************************************************************************)
EXTENDS Commands, TLAPS

EnumP == INSTANCE HIDEnumeration_proofs
DevP == INSTANCE HIDDevice_proofs

-----------------------------------------------------------------------------
(* The instances of the theorems are about the operators of Device and     *)
(* Enum: both have the same definitions.                                   *)

LEMMA EnumParameters == EnumP!Parameters
BY ParametersAssumption
   DEF EnumP!Parameters, Enum!Parameters, EnumP!IsFiniteSet, Enum!IsFiniteSet,
       EnumP!Cardinality, Enum!Cardinality

LEMMA DeviceParameters ==
    /\ Platforms \subseteq {"linux", "windows"}
    /\ Devices \subseteq DevP!DeviceRecord
    /\ NoDevice \notin Devices
    /\ Indeterminate \notin DevP!Info
    /\ Modulus \in Nat /\ ShortModulus \in Nat /\ MaxTransfer \in Nat
    /\ DevP!CommandSize < ShortModulus /\ ShortModulus < Modulus
BY DeviceAssumption
   DEF DevP!DeviceRecord, Device!DeviceRecord, DevP!Descriptor, Device!Descriptor,
       DevP!Info, Device!Info, DevP!CommandSize, Device!CommandSize

EnumSteps ==
    \/ Enum!Construct \/ Enum!Iterate \/ Enum!Increment
    \/ \E p \in Path : \/ \E s \in Enum!State \ {"absent"} : Enum!Arrive(p, s)
                       \/ Enum!Progress(p)
                       \/ Enum!Remove(p)

LEMMA EnumStep == ASSUME EnumSteps PROVE EnumP!Next
<1>1. CASE Enum!Construct
  BY <1>1 DEF EnumP!Next, Enum!Construct, EnumP!Construct, Enum!Orders, EnumP!Orders,
      EnumP!Cardinality, Enum!Cardinality
<1>2. CASE Enum!Increment
  BY <1>2 DEF EnumP!Next, Enum!Increment, EnumP!Increment, Enum!Continue, EnumP!Continue
<1>3. CASE Enum!Iterate
  BY <1>3
     DEF EnumP!Next, Enum!Iterate, EnumP!Iterate, Enum!Continue, EnumP!Continue,
         Enum!Current, EnumP!Current, Enum!Interface, EnumP!Interface,
         Enum!NoInterface, EnumP!NoInterface, Enum!CallFails, EnumP!CallFails,
         Enum!Detail, EnumP!Detail, Enum!Size, EnumP!Size, Enum!NoState, EnumP!NoState,
         Enum!Installed, EnumP!Installed, Enum!NotInstalled, EnumP!NotInstalled
<1>4. CASE \E p \in Path : \/ \E s \in Enum!State \ {"absent"} : Enum!Arrive(p, s)
                           \/ Enum!Progress(p)
                           \/ Enum!Remove(p)
  BY <1>4
     DEF EnumP!Next, EnumP!Computer, Enum!State, EnumP!State, Enum!Arrive, EnumP!Arrive,
         Enum!Progress, EnumP!Progress, Enum!Remove, EnumP!Remove
<1> QED BY <1>1, <1>2, <1>3, <1>4 DEF EnumSteps

LEMMA DeviceStep == Device!Proceed => DevP!Proceed
BY DEF Device!Proceed, DevP!Proceed, Device!Throw, DevP!Throw, Device!Closed, DevP!Closed,
       Device!NullInfo, DevP!NullInfo, Device!OpenHandle, DevP!OpenHandle,
       Device!InfoOf, DevP!InfoOf, Device!DeviceInfo, DevP!DeviceInfo,
       Device!Opened, DevP!Opened, Device!CountOf, DevP!CountOf,
       Device!ReportOf, DevP!ReportOf, Device!LinuxReports, DevP!LinuxReports,
       Device!WindowsReports, DevP!WindowsReports,
       Device!AllowedDevices, DevP!AllowedDevices,
       Device!usb_device_allowed, DevP!usb_device_allowed, Device!Allowed, DevP!Allowed,
       Device!CheckAllowed, DevP!CheckAllowed, Device!Matching, DevP!Matching,
       Device!CheckReports, DevP!CheckReports, Device!DataSize, DevP!DataSize,
       Device!CommandSize, DevP!CommandSize, Device!SendReport, DevP!SendReport,
       Device!Deliver, DevP!Deliver, Device!WriteFails, DevP!WriteFails,
       Device!Written, DevP!Written, Device!LinuxWrite, DevP!LinuxWrite,
       Device!WindowsWrite, DevP!WindowsWrite

LEMMA DeviceCall == Device!CallIdentify => DevP!CallIdentify
BY DEF Device!CallIdentify, DevP!CallIdentify, Device!Call, DevP!Call,
       Device!NoWrite, DevP!NoWrite

LEMMA DeviceInit == Device!Init => DevP!Init
BY DEF Device!Init, DevP!Init, Device!NewObject, DevP!NewObject, Device!NoWrite, DevP!NoWrite

LEMMA EnumInit == Enum!Init => EnumP!Init
BY DEF Enum!Init, EnumP!Init, Enum!State, EnumP!State

LEMMA DeviceType == DevP!TypeOK => Device!TypeOK
BY DEF Device!TypeOK, DevP!TypeOK, Device!Label, DevP!Label, Device!Outcome, DevP!Outcome,
       Device!Unsupported, DevP!Unsupported, Device!Report, DevP!Report,
       Device!Info, DevP!Info

LEMMA EnumType == EnumP!TypeOK => Enum!TypeOK
BY DEF Enum!TypeOK, EnumP!TypeOK, Enum!State, EnumP!State, Enum!Orders, EnumP!Orders,
       EnumP!Cardinality, Enum!Cardinality
-----------------------------------------------------------------------------
(* The object and the enumeration are changed by their own operations.     *)

LEMMA EnumKeeps == ASSUME Next PROVE EnumSteps \/ UNCHANGED enumVars
<1>1. CASE Usage \/ LinuxMain \/ (\E q \in Process : Dispatch(q)) \/ Service \/ Kill
  BY <1>1 DEF Usage, LinuxMain, Dispatch, Service, Kill, Elsewhere
<1>2. CASE Elevation
  BY <1>2 DEF Elevation, IsElevated, FunctionReturns, FunctionThrows, Fails, Filename,
              Execute, Wait, ExitCode, Elsewhere
<1>3. CASE Loop
  BY <1>3 DEF Loop, Enumerate, Fails, Elsewhere, Iterate, MakeObject, Call, Identify,
              EndOfIdentify, NoEventSource, Return, Advance, EnumSteps
<1>4. CASE \E p \in Path : (\E d \in Devices : Plug(p, d)) \/ Unplug(p) \/ Install(p)
  BY <1>4 DEF Plug, Unplug, Install, EnumSteps
<1> QED BY <1>1, <1>2, <1>3, <1>4 DEF Next, Program, Computer

LEMMA EnumKept ==
    ASSUME EnumP!Inv, EnumP!Position, Next
    PROVE  EnumP!Inv' /\ EnumP!Position'
<1>1. CASE EnumSteps
  <2>1. EnumP!Next
    BY <1>1, EnumStep
  <2> QED BY <2>1, EnumParameters, EnumP!NextInv, EnumP!NextPosition
<1>2. CASE UNCHANGED enumVars
  <2>1. UNCHANGED EnumP!vars
    BY <1>2 DEF enumVars, EnumP!vars
  <2> QED BY <2>1, EnumP!StutterInv, EnumP!StutterPosition
<1> QED BY <1>1, <1>2, EnumKeeps

LEMMA EnumStutter ==
    ASSUME EnumP!Inv, EnumP!Position, UNCHANGED vars
    PROVE  EnumP!Inv' /\ EnumP!Position'
<1>1. UNCHANGED EnumP!vars
  BY DEF vars, enumVars, EnumP!vars
<1> QED BY <1>1, EnumP!StutterInv, EnumP!StutterPosition

LEMMA EnumStarts == ASSUME Init PROVE EnumP!Inv /\ EnumP!Position
<1>1. EnumP!Init
  BY EnumInit DEF Init
<1> QED BY <1>1, EnumParameters, EnumP!InitInv, EnumP!InitPosition

\* For any number of devices: the report command visits each that is installed
\* all the time, once, whatever its devices do meanwhile.
THEOREM InstalledAreVisited == Spec => []EveryInstalledVisited
<1>1. Init => EnumP!Inv /\ EnumP!Position
  BY EnumStarts
<1>2. EnumP!Inv /\ EnumP!Position /\ [Next]_vars => EnumP!Inv' /\ EnumP!Position'
  BY EnumKept, EnumStutter
<1>3. EnumP!Inv => EveryInstalledVisited
  BY EnumP!InvImplies
     DEF EveryInstalledVisited, Enum!EveryInstalledVisited, EnumP!EveryInstalledVisited
<1> QED BY <1>1, <1>2, <1>3, PTL DEF Spec
-----------------------------------------------------------------------------
(* The object.                                                             *)

LEMMA DeviceStarts == DevP!Init => DevP!Inv
BY DeviceParameters, DevP!InitInv

LEMMA DeviceStartsNext == DevP!Init' => DevP!Inv'
BY DeviceStarts, PTL

\* Where the device at its path comes from.
Places == connected \in [Path -> Devices \cup {NoDevice}]

LEMMA PlacesKept == ASSUME Places, Next PROVE Places'
<1>1. CASE UNCHANGED connected
  BY <1>1 DEF Places
<1>2. CASE \E p \in Path : (\E d \in Devices : Plug(p, d)) \/ Unplug(p)
  BY <1>2 DEF Places, Plug, Unplug
<1>3. CASE Usage \/ LinuxMain \/ (\E q \in Process : Dispatch(q)) \/ Service \/ Kill \/ Elevation
  BY <1>1, <1>3 DEF Usage, LinuxMain, Dispatch, Service, Kill, Elevation, IsElevated,
       FunctionReturns, FunctionThrows, Fails, Filename, Execute, Wait, ExitCode, Elsewhere, loopVars
<1>4. CASE Loop \/ \E p \in Path : Install(p)
  BY <1>1, <1>4 DEF Loop, Enumerate, Fails, Elsewhere, Iterate, MakeObject, Call, Identify,
       EndOfIdentify, NoEventSource, Return, Advance, Install, loopVars
<1> QED BY <1>1, <1>2, <1>3, <1>4 DEF Next, Program, Computer
-----------------------------------------------------------------------------
(* The codes of the exceptions.                                            *)

\* The clause of this number is the first that matches.
First(handlers, e, n) ==
    /\ DOMAIN handlers \subseteq Nat \ {0}
    /\ n \in DOMAIN handlers
    /\ IsA(e, handlers[n].class)
    /\ \A j \in 1 .. n - 1 : ~IsA(e, handlers[j].class)

\* It is the one that catches.
LEMMA FirstHandler ==
    ASSUME NEW handlers, NEW e, NEW n, First(handlers, e, n)
    PROVE  CodeOf(handlers, e) = handlers[n].code
<1> DEFINE Caught(i) == /\ IsA(e, handlers[i].class)
                        /\ \A j \in 1 .. i - 1 : ~IsA(e, handlers[j].class)
           c == CHOOSE i \in DOMAIN handlers : Caught(i)
<1>1. n \in DOMAIN handlers /\ Caught(n) /\ DOMAIN handlers \subseteq Nat \ {0}
  BY DEF First
<1>2. c \in DOMAIN handlers /\ Caught(c)
  <2> HIDE DEF Caught
  <2> QED BY <1>1
<1> HIDE DEF c
<1>3. c = n
  <2>1. ~ c < n /\ ~ n < c
    BY <1>1, <1>2
  <2>2. c \in Nat /\ n \in Nat
    BY <1>1, <1>2
  <2> QED BY <2>1, <2>2
<1> QED BY <1>3 DEF CodeOf, c

LEMMA MainCode ==
    /\ CodeOf(MainHandlers, "win32") = 2
    /\ CodeOf(MainHandlers, "OSError") = 1
<1>1. DOMAIN MainHandlers = 1 .. 2
  BY DEF MainHandlers
<1>2. /\ MainHandlers[1] = [class |-> "Exception", code |-> 1]
      /\ MainHandlers[2] = [class |-> "StdException", code |-> 2]
  BY DEF MainHandlers
<1>3. ~IsA("win32", "Exception") /\ IsA("win32", "StdException") /\ IsA("OSError", "Exception")
  BY DEF IsA, Base
<1>4. First(MainHandlers, "win32", 2) /\ First(MainHandlers, "OSError", 1)
  BY <1>1, <1>2, <1>3 DEF First
<1> QED BY <1>2, <1>4, FirstHandler

\* What identify() may throw.
Failure == {"OSError", "OSLengthError", "IOError", "IOLengthError", "DisallowedUSBDevice",
            "UnsupportedHIDReportDescriptor", "UnsupportedHIDReportUsage", "UnavailableDevice"}

LEMMA FailureOutcome == Device!Outcome = Failure \cup {"none", "ok"}
BY DEF Device!Outcome, Device!Unsupported, Failure

LEMMA ReportCode == ASSUME NEW e \in Failure PROVE CodeOf(ReportHandlers, e) = 1
<1>1. DOMAIN ReportHandlers = 1 .. 2 /\ ReportHandlers[1] = [class |-> "Exception", code |-> 1]
  BY DEF ReportHandlers
<1>2. IsA(e, "Exception")
  BY DEF IsA, Base, Failure
<1>3. First(ReportHandlers, e, 1)
  BY <1>1, <1>2 DEF First
<1> QED BY <1>1, <1>3, FirstHandler

LEMMA LinuxCode ==
    ASSUME NEW e \in Failure
    PROVE  CodeOf(LinuxHandlers, e) = Sysexit[e] /\ Sysexit[e] \in ExitCodes \ {0}
<1>1. /\ DOMAIN LinuxHandlers = 1 .. 6
      /\ LinuxHandlers[1] = [class |-> "UnavailableDevice", code |-> 66]
      /\ LinuxHandlers[2] = [class |-> "MalformedHIDReportDescriptor", code |-> 65]
      /\ LinuxHandlers[3] = [class |-> "OSError", code |-> 71]
      /\ LinuxHandlers[4] = [class |-> "IOError", code |-> 74]
      /\ LinuxHandlers[5] = [class |-> "UnsupportedDevice", code |-> 69]
  BY DEF LinuxHandlers
<1>2. CASE e = "UnavailableDevice"
  <2>1. IsA(e, "UnavailableDevice")
    BY <1>2 DEF IsA, Base
  <2>2. First(LinuxHandlers, e, 1)
    BY <1>1, <2>1 DEF First
  <2> QED BY FirstHandler, <1>1, <2>2, <1>2 DEF Sysexit, ExitCodes
<1>3. CASE e \in {"OSError", "OSLengthError"}
  <2>1. /\ IsA(e, "OSError") /\ ~IsA(e, "UnavailableDevice")
        /\ ~IsA(e, "MalformedHIDReportDescriptor")
    BY <1>3 DEF IsA, Base
  <2>2. First(LinuxHandlers, e, 3)
    BY <1>1, <2>1 DEF First
  <2> QED BY FirstHandler, <1>1, <2>2, <1>3 DEF Sysexit, ExitCodes
<1>4. CASE e \in {"IOError", "IOLengthError"}
  <2>1. /\ IsA(e, "IOError") /\ ~IsA(e, "UnavailableDevice")
        /\ ~IsA(e, "MalformedHIDReportDescriptor") /\ ~IsA(e, "OSError")
    BY <1>4 DEF IsA, Base
  <2>2. First(LinuxHandlers, e, 4)
    BY <1>1, <2>1 DEF First
  <2> QED BY FirstHandler, <1>1, <2>2, <1>4 DEF Sysexit, ExitCodes
<1>5. CASE e \in {"DisallowedUSBDevice", "UnsupportedHIDReportDescriptor",
                  "UnsupportedHIDReportUsage"}
  <2>1. /\ IsA(e, "UnsupportedDevice") /\ ~IsA(e, "UnavailableDevice")
        /\ ~IsA(e, "MalformedHIDReportDescriptor")
        /\ ~IsA(e, "OSError") /\ ~IsA(e, "IOError")
    BY <1>5 DEF IsA, Base
  <2>2. First(LinuxHandlers, e, 5)
    BY <1>1, <2>1 DEF First
  <2> QED BY FirstHandler, <1>1, <2>2, <1>5 DEF Sysexit, ExitCodes
<1> QED BY <1>2, <1>3, <1>4, <1>5 DEF Failure
-----------------------------------------------------------------------------
(* What the program is given does not change.                              *)

Inputs ==
    /\ platform \in {"linux", "windows"}
    /\ command \in Command
    /\ platform = "linux" <=> command = "identify"
    /\ argv \in Arguments
    /\ platform = "windows" => argv = <<>>
    /\ elevated \in BOOLEAN
    /\ elevated => command \in Elevating
    /\ length \in Nat

LEMMA InitInputs == ASSUME Init PROVE Inputs
<1>1. platform \in {"linux", "windows"}
  BY DeviceAssumption DEF Init, Device!Init
<1>2. length \in Nat
  BY LengthsAssumption DEF Init
<1> QED BY <1>1, <1>2 DEF Init, Inputs, Command, WindowsCommand, Elevating

LEMMA PlatformKept == ASSUME Next PROVE UNCHANGED platform
<1>1. CASE UNCHANGED deviceVars
  BY <1>1 DEF deviceVars
<1>2. CASE Call
  BY <1>2 DEF Call, Device!CallIdentify, Device!Call
<1>3. CASE Identify
  <2>1. Device!Proceed
    BY <1>3 DEF Identify
  <2> QED BY <2>1
          DEF Device!Proceed, Device!OpenHandle, Device!DeviceInfo, Device!LinuxReports,
              Device!WindowsReports, Device!CheckAllowed, Device!CheckReports,
              Device!SendReport, Device!LinuxWrite, Device!WindowsWrite,
              Device!WriteFails, Device!Written, Device!Throw
<1>4. CASE EndOfIdentify \/ MakeObject
  BY <1>4 DEF EndOfIdentify, MakeObject, Destroyed
<1>5. CASE \E p \in Path : (\E d \in Devices : Plug(p, d)) \/ Unplug(p) \/ Install(p)
  BY <1>1, <1>5 DEF Plug, Unplug, Install, Device!Plug, Device!Unplug
<1>6. CASE \/ Usage \/ LinuxMain \/ (\E q \in Process : Dispatch(q)) \/ Service \/ Kill
           \/ Elevation
  BY <1>1, <1>6 DEF Usage, LinuxMain, Dispatch, Service, Kill, Elevation, IsElevated,
       FunctionReturns, FunctionThrows, Fails, Filename, Execute, Wait, ExitCode, Elsewhere
<1>7. CASE Enumerate \/ Fails("first", "enumerate") \/ Iterate \/ NoEventSource \/ Return
  BY <1>1, <1>7 DEF Enumerate, Fails, Elsewhere, Iterate, NoEventSource, Return
<1> QED BY <1>2, <1>3, <1>4, <1>5, <1>6, <1>7 DEF Next, Program, Computer, Loop

LEMMA InputsKept == ASSUME Next PROVE UNCHANGED inputVars
BY DEF Next, Program, Computer, Loop, Usage, LinuxMain, Dispatch, Service, Kill, Elevation,
       IsElevated, FunctionReturns, FunctionThrows, Fails, Filename, Execute, Wait, ExitCode,
       Elsewhere, Enumerate, Iterate, MakeObject, Call, Identify, EndOfIdentify,
       NoEventSource, Return, Advance, Plug, Unplug, Install

LEMMA NextInputs == ASSUME Inputs, Next PROVE Inputs'
BY PlatformKept, InputsKept DEF Inputs, inputVars
-----------------------------------------------------------------------------
(* The processes.                                                          *)

LoopLabel == {"loop", "call", "identify"}

\* Where a command takes its first process.
LabelsOf ==
    {"start", "exited"} \cup
        CASE command \in Elevating -> {"elevation", "filename", "execute", "wait", "code",
                                       "function"}
          [] command = "report" -> LoopLabel \cup {"enumerate"}
          [] command = "identify" -> LoopLabel
          [] command = "service" -> {"service"}
          [] command = "usage" -> {}

Control ==
    /\ at \in [Process -> Label]
    /\ exit \in [Process -> {NoExit} \cup ExitCodes]
    /\ process \in BOOLEAN /\ failed \in BOOLEAN
    /\ \A q \in Process : exit[q] # NoExit <=> at[q] = "exited"
    /\ at["first"] \in LabelsOf
    /\ at["elevated"] \in {"none", "start", "elevation", "function", "exited"}
    /\ at["elevated"] # "none" => /\ command \in Elevating /\ ~elevated
                                  /\ at["first"] \in {"wait", "code", "exited"}
    /\ at["first"] \in {"filename", "execute", "wait", "code"} => ~elevated
    /\ at["first"] = "function" => elevated
    /\ at["first"] \in {"wait", "code"} => process
    /\ process => at["elevated"] # "none"
    /\ at["first"] = "code" => at["elevated"] = "exited"
    /\ returned = IF command \in Elevating /\ exit[IF elevated THEN "first" ELSE "elevated"] = 0
              THEN 1 ELSE 0
    /\ (command \in Elevating /\ exit["first"] = 0 /\ process) => exit["elevated"] = 0
    /\ \A q \in Process : (command \in Elevating /\ exit[q] \notin {0, NoExit})
                              => failed \/ FilenameThrows

\* Only install and uninstall return without having done what was asked.
GivenUp == unfinished \in BOOLEAN /\ (unfinished => command \in MayGiveUp)

LEMMA ControlImplies == ASSUME Inputs, Control, GivenUp PROVE ExitTellsWhetherDone
<1>1. returned \in {0, 1}
  BY DEF Control
<1>2. ASSUME command \in Elevating, at["first"] = "exited",
             exit["first"] = 0, elevated \/ process
      PROVE  returned = 1
  BY <1>2 DEF Inputs, Control
<1>3. ASSUME command \in Elevating, at["first"] = "exited", exit["first"] # 0
      PROVE  failed \/ FilenameThrows
  BY <1>3 DEF Control, Process
<1>4. ~unfinished \/ (unfinished /\ command \in MayGiveUp)
  BY DEF GivenUp
<1> QED BY <1>1, <1>2, <1>3, <1>4 DEF ExitTellsWhetherDone, CarriedOut

LEMMA InitControl == ASSUME Init PROVE Control
<1>1. /\ at["first"] = "start" /\ at["elevated"] = "none"
      /\ exit["first"] = NoExit /\ exit["elevated"] = NoExit
      /\ at \in [Process -> Label] /\ exit \in [Process -> {NoExit} \cup ExitCodes]
  BY DEF Init, Process, Label
<1>2. NoExit # 0
  BY DEF NoExit
<1>3. process = FALSE /\ failed = FALSE /\ returned = 0
  BY DEF Init
<1> QED BY <1>1, <1>2, <1>3 DEF Control, LabelsOf, Process

\* The effects of a step of a process.
LEMMA GoEffect ==
    ASSUME at \in [Process -> Label], NEW q \in Process, NEW l \in Label, Go(q, l)
    PROVE  /\ at' \in [Process -> Label] /\ exit' = exit
           /\ at'[q] = l /\ \A r \in Process \ {q} : at'[r] = at[r]
BY DEF Go

LEMMA ExitEffect ==
    ASSUME at \in [Process -> Label], exit \in [Process -> {NoExit} \cup ExitCodes],
           NEW q \in Process, NEW code \in ExitCodes, Exit(q, code)
    PROVE  /\ at' \in [Process -> Label]
           /\ exit' \in [Process -> {NoExit} \cup ExitCodes]
           /\ at'[q] = "exited" /\ exit'[q] = code
           /\ \A r \in Process \ {q} : at'[r] = at[r] /\ exit'[r] = exit[r]
BY DEF Exit, Label

LEMMA ThrowEffect ==
    ASSUME at \in [Process -> Label], exit \in [Process -> {NoExit} \cup ExitCodes],
           NEW q \in Process, NEW e \in {"win32", "OSError"}, Throw(q, e)
    PROVE  /\ at' \in [Process -> Label]
           /\ exit' \in [Process -> {NoExit} \cup ExitCodes]
           /\ at'[q] = "exited" /\ exit'[q] \in {1, 2}
           /\ \A r \in Process \ {q} : at'[r] = at[r] /\ exit'[r] = exit[r]
<1>1. CodeOf(MainHandlers, e) \in {1, 2}
  BY MainCode
<1>2. CodeOf(MainHandlers, e) \in ExitCodes
  BY <1>1 DEF ExitCodes
<1> QED BY <1>1, <1>2, ExitEffect DEF Throw

LEMMA CodesAreNoNoExit == NoExit \notin ExitCodes /\ NoExit # 0 /\ NoExit # 1 /\ NoExit # 2
BY DEF NoExit, ExitCodes

\* What a command that needs no administrator leaves alone.
LEMMA FirstExits ==
    ASSUME Inputs, Control, UNCHANGED <<inputVars, process, returned>>, failed' \in BOOLEAN,
           command \notin Elevating, NEW code \in ExitCodes, Exit("first", code)
    PROVE  Control'
<1>1. /\ at' \in [Process -> Label] /\ exit' \in [Process -> {NoExit} \cup ExitCodes]
      /\ at'["first"] = "exited" /\ exit'["first"] = code
      /\ at'["elevated"] = at["elevated"] /\ exit'["elevated"] = exit["elevated"]
  BY ExitEffect DEF Control, Process
<1>2. at["elevated"] = "none" /\ ~elevated
  BY DEF Control, Inputs
<1>3. UNCHANGED <<command, elevated, process, returned>>
  BY DEF inputVars
<1>4. LabelsOf' = LabelsOf /\ "exited" \in LabelsOf
  BY <1>3 DEF LabelsOf
<1> QED BY <1>1, <1>2, <1>3, <1>4, CodesAreNoNoExit DEF Control, Process

LEMMA FirstGoes ==
    ASSUME Inputs, Control, UNCHANGED <<inputVars, process, returned, failed>>,
           at["first"] \notin {"wait", "code", "exited"},
           NEW l \in LabelsOf \ {"exited", "wait", "code"}, Go("first", l),
           l \in {"filename", "execute"} => ~elevated,
           l = "function" => elevated
    PROVE  Control'
<1>0. l \in Label
  BY DEF LabelsOf, Label, LoopLabel, Inputs, Command, WindowsCommand
<1>1. /\ at' \in [Process -> Label] /\ exit' = exit
      /\ at'["first"] = l /\ at'["elevated"] = at["elevated"]
  BY <1>0, GoEffect DEF Control, Process
<1>2. at["elevated"] = "none"
  BY DEF Control
<1>3. UNCHANGED <<command, elevated, length, process, returned, failed>>
  BY DEF inputVars
<1>4. LabelsOf' = LabelsOf /\ FilenameThrows' = FilenameThrows
  BY <1>3 DEF LabelsOf, FilenameThrows
<1>5. ~process /\ ~process'
  BY <1>2, <1>3 DEF Control
<1> QED BY <1>1, <1>2, <1>3, <1>4, <1>5 DEF Control, Process

LEMMA ControlStutter ==
    ASSUME Control, UNCHANGED <<inputVars, processVars>>
    PROVE  Control'
<1>1. UNCHANGED <<command, elevated, length, at, exit, process, returned, failed>>
  BY DEF inputVars, processVars
<1>2. LabelsOf' = LabelsOf /\ FilenameThrows' = FilenameThrows
  BY <1>1 DEF LabelsOf, FilenameThrows
<1> QED BY <1>1, <1>2 DEF Control

\* A process of an elevated command ends: with 0 when it has carried the command
\* out, with another code when a call has failed.
LEMMA ElevatedExits ==
    ASSUME Inputs, Control, UNCHANGED inputVars, process' = process,
           at["elevated"] \notin {"none", "exited"},
           NEW code \in ExitCodes, Exit("elevated", code),
           failed' \in BOOLEAN, failed => failed',
           IF code = 0 THEN returned' = returned + 1
                       ELSE returned' = returned /\ (failed' \/ FilenameThrows)
    PROVE  Control'
<1>1. /\ at' \in [Process -> Label] /\ exit' \in [Process -> {NoExit} \cup ExitCodes]
      /\ at'["elevated"] = "exited" /\ exit'["elevated"] = code
      /\ at'["first"] = at["first"] /\ exit'["first"] = exit["first"]
  BY ExitEffect DEF Control, Process
<1>2. /\ command \in Elevating /\ ~elevated /\ at["first"] \in {"wait", "code", "exited"}
      /\ exit["elevated"] = NoExit
  BY DEF Control, Process
<1>3. UNCHANGED <<command, elevated, length>>
  BY DEF inputVars
<1>4. LabelsOf' = LabelsOf /\ FilenameThrows' = FilenameThrows
  BY <1>3 DEF LabelsOf, FilenameThrows
<1>5. returned = 0
  BY <1>2, CodesAreNoNoExit DEF Control
<1>6. returned' = IF code = 0 THEN 1 ELSE 0
  BY <1>5
<1>7. at["first"] # "code"
  BY DEF Control
<1>8. ~(exit["first"] = 0 /\ process)
  BY <1>2, CodesAreNoNoExit DEF Control
<1>9. \A q \in Process : exit'[q] # NoExit <=> at'[q] = "exited"
  BY <1>1, CodesAreNoNoExit DEF Control, Process
<1>10. \A q \in Process : exit'[q] \notin {0, NoExit} => failed' \/ FilenameThrows
  <2>1. exit'["first"] \notin {0, NoExit} => failed' \/ FilenameThrows
    BY <1>1, <1>2 DEF Control, Process
  <2>2. exit'["elevated"] \notin {0, NoExit} => failed' \/ FilenameThrows
    BY <1>1
  <2> QED BY <2>1, <2>2 DEF Process
<1> QED BY <1>1, <1>2, <1>3, <1>4, <1>6, <1>7, <1>8, <1>9, <1>10 DEF Control

\* The first process ends, which has not started another one if it carries the
\* command out itself.
LEMMA FirstEnds ==
    ASSUME Inputs, Control, UNCHANGED inputVars, process' = process,
           command \in Elevating, at["first"] # "exited",
           NEW code \in ExitCodes, Exit("first", code),
           failed' \in BOOLEAN, failed => failed',
           code # 0 => failed' \/ FilenameThrows,
           (code = 0 /\ process) => exit["elevated"] = 0,
           returned' = IF code = 0 /\ elevated THEN returned + 1 ELSE returned
    PROVE  Control'
<1>1. /\ at' \in [Process -> Label] /\ exit' \in [Process -> {NoExit} \cup ExitCodes]
      /\ at'["first"] = "exited" /\ exit'["first"] = code
      /\ at'["elevated"] = at["elevated"] /\ exit'["elevated"] = exit["elevated"]
  BY ExitEffect DEF Control, Process
<1>2. exit["first"] = NoExit
  BY DEF Control, Process
<1>3. UNCHANGED <<command, elevated, length>>
  BY DEF inputVars
<1>4. FilenameThrows' = FilenameThrows /\ "exited" \in LabelsOf'
  BY <1>3 DEF LabelsOf, FilenameThrows
<1>5. returned' = IF exit'[IF elevated THEN "first" ELSE "elevated"] = 0 THEN 1 ELSE 0
  <2>1. CASE elevated
    <3>1. returned = 0
      BY <2>1, <1>2, CodesAreNoNoExit DEF Control
    <3> QED BY <1>1, <2>1, <3>1
  <2>2. CASE ~elevated
    BY <1>1, <2>2 DEF Control
  <2> QED BY <2>1, <2>2
<1>6. \A q \in Process : exit'[q] # NoExit <=> at'[q] = "exited"
  BY <1>1, CodesAreNoNoExit DEF Control, Process
<1>7. \A q \in Process : exit'[q] \notin {0, NoExit} => failed' \/ FilenameThrows
  <2>1. exit'["elevated"] \notin {0, NoExit} => failed' \/ FilenameThrows
    BY <1>1 DEF Control, Process
  <2>2. exit'["first"] \notin {0, NoExit} => failed' \/ FilenameThrows
    BY <1>1
  <2> QED BY <2>1, <2>2 DEF Process
<1>8. at'["elevated"] # "none" => command \in Elevating /\ ~elevated
  BY <1>1 DEF Control
<1> QED BY <1>1, <1>3, <1>4, <1>5, <1>6, <1>7, <1>8 DEF Control

LEMMA LabelCommands ==
    ASSUME Inputs, Control
    PROVE  /\ command \in Elevating => LabelsOf = {"start", "exited", "elevation", "filename",
                                                   "execute", "wait", "code", "function"}
           /\ command = "report" => LabelsOf = {"start", "exited", "enumerate"} \cup LoopLabel
           /\ command = "identify" => LabelsOf = {"start", "exited"} \cup LoopLabel
           /\ command = "service" => LabelsOf = {"start", "exited", "service"}
           /\ command = "usage" => LabelsOf = {"start", "exited"}
BY DEF LabelsOf, Elevating

LEMMA DispatchControl == ASSUME Inputs, Control, NEW q \in Process, Dispatch(q) PROVE Control'
<1>1. at[q] = "start" /\ UNCHANGED <<inputVars, process, returned, failed>>
  BY DEF Dispatch
<1>2. CASE q = "first"
  <2>1. PICK l \in LabelsOf \cap {"elevation", "enumerate", "service"} : Go("first", l)
    BY <1>2, LabelCommands DEF Dispatch
  <2> QED BY <1>1, <1>2, <2>1, FirstGoes
<1>3. CASE q = "elevated"
  <2>1. /\ command \in Elevating /\ ~elevated /\ at["first"] \in {"wait", "code", "exited"}
        /\ at["first"] # "code"
    BY <1>1, <1>3 DEF Control
  <2>2. Go("elevated", "elevation")
    BY <1>3, <2>1 DEF Dispatch, Elevating
  <2>3. /\ at' \in [Process -> Label] /\ exit' = exit
        /\ at'["first"] = at["first"] /\ at'["elevated"] = "elevation"
    BY <2>2, GoEffect DEF Control, Process, Label
  <2>4. UNCHANGED <<command, elevated, length, process, returned, failed>>
    BY <1>1 DEF inputVars
  <2>5. LabelsOf' = LabelsOf /\ FilenameThrows' = FilenameThrows
    BY <2>4 DEF LabelsOf, FilenameThrows
  <2>6. \A r \in Process : exit'[r] # NoExit <=> at'[r] = "exited"
    BY <1>1, <1>3, <2>3 DEF Control, Process
  <2> QED BY <2>1, <2>3, <2>4, <2>5, <2>6 DEF Control
<1> QED BY <1>2, <1>3 DEF Process

LEMMA IsElevatedControl == ASSUME Inputs, Control, NEW q \in Process, IsElevated(q) PROVE Control'
<1>1. at[q] = "elevation" /\ UNCHANGED <<inputVars, process, returned, failed>>
  BY DEF IsElevated, Elsewhere
<1>2. CASE q = "first"
  <2>1. command \in Elevating
    BY <1>1, <1>2, LabelCommands DEF Control, LoopLabel, Inputs, Command, WindowsCommand
  <2>2. CASE elevated
    <3>1. Go("first", "function")
      BY <1>2, <2>2 DEF IsElevated
    <3> QED BY <1>1, <1>2, <2>1, <2>2, <3>1, FirstGoes, LabelCommands
  <2>3. CASE ~elevated
    <3>1. Go("first", "filename")
      BY <1>2, <2>3 DEF IsElevated
    <3> QED BY <1>1, <1>2, <2>1, <2>3, <3>1, FirstGoes, LabelCommands
  <2> QED BY <2>2, <2>3
<1>3. CASE q = "elevated"
  <2>1. /\ command \in Elevating /\ ~elevated /\ at["first"] \in {"wait", "code", "exited"}
        /\ at["first"] # "code"
    BY <1>1, <1>3 DEF Control
  <2>2. Go("elevated", "function")
    BY <1>3, <2>1 DEF IsElevated
  <2>3. /\ at' \in [Process -> Label] /\ exit' = exit
        /\ at'["first"] = at["first"] /\ at'["elevated"] = "function"
    BY <2>2, GoEffect DEF Control, Process, Label
  <2>4. UNCHANGED <<command, elevated, length, process, returned, failed>>
    BY <1>1 DEF inputVars
  <2>5. LabelsOf' = LabelsOf /\ FilenameThrows' = FilenameThrows
    BY <2>4 DEF LabelsOf, FilenameThrows
  <2>6. \A r \in Process : exit'[r] # NoExit <=> at'[r] = "exited"
    BY <1>1, <1>3, <2>3 DEF Control, Process
  <2> QED BY <2>1, <2>3, <2>4, <2>5, <2>6 DEF Control
<1> QED BY <1>2, <1>3 DEF Process

LEMMA ThrowControl ==
    ASSUME Inputs, Control, UNCHANGED <<inputVars, process, returned>>,
           NEW q \in Process, at[q] \in {"elevation", "filename", "execute", "wait", "code",
                                         "function"},
           NEW e \in {"win32", "OSError"}, Throw(q, e),
           failed' \in BOOLEAN, failed => failed', failed' \/ FilenameThrows
    PROVE  Control'
<1>1. PICK code \in {1, 2} : code = CodeOf(MainHandlers, e)
  BY MainCode
<1>2. Exit(q, code) /\ code \in ExitCodes /\ code # 0
  BY <1>1 DEF Throw, ExitCodes
<1>3. CASE q = "first"
  <2>1. command \in Elevating
    BY <1>3, LabelCommands DEF Control, LoopLabel, Inputs, Command, WindowsCommand
  <2> QED BY <1>2, <1>3, <2>1, FirstEnds
<1>4. CASE q = "elevated"
  BY <1>2, <1>4, ElevatedExits
<1> QED BY <1>3, <1>4 DEF Process

LEMMA FunctionReturnsControl ==
    ASSUME Inputs, Control, NEW q \in Process, FunctionReturns(q) PROVE Control'
<1>1. /\ at[q] = "function" /\ Exit(q, 0) /\ returned' = returned + 1
      /\ UNCHANGED <<inputVars, process, failed>> /\ 0 \in ExitCodes
  BY DEF FunctionReturns, Elsewhere, ExitCodes
<1>2. failed' \in BOOLEAN
  BY <1>1 DEF Control
<1>3. CASE q = "first"
  <2>1. command \in Elevating /\ elevated
    BY <1>1, <1>3 DEF Control, Inputs
  <2>2. ~process
    BY <2>1 DEF Control
  <2> QED BY <1>1, <1>2, <1>3, <2>1, <2>2, FirstEnds
<1>4. CASE q = "elevated"
  BY <1>1, <1>2, <1>4, ElevatedExits
<1> QED BY <1>3, <1>4 DEF Process

LEMMA ExecuteControl == ASSUME Inputs, Control, Execute PROVE Control'
<1>1. /\ at["first"] = "execute" /\ process' \in BOOLEAN /\ UNCHANGED <<inputVars, returned, failed>>
  BY DEF Execute, Elsewhere
<1>2. /\ command \in Elevating /\ ~elevated /\ at["elevated"] = "none"
  BY <1>1, LabelCommands DEF Control, LoopLabel, Inputs, Command, WindowsCommand
<1>3. UNCHANGED <<command, elevated, length, returned, failed>>
  BY <1>1 DEF inputVars
<1>4. LabelsOf' = LabelsOf /\ FilenameThrows' = FilenameThrows
  BY <1>3 DEF LabelsOf, FilenameThrows
<1>5. /\ at' \in [Process -> Label] /\ at'["elevated"] = "start"
      /\ at'["first"] = IF process' THEN "wait" ELSE "exited"
  BY DEF Execute, Control, Process, Label
<1>6. /\ exit' \in [Process -> {NoExit} \cup ExitCodes] /\ exit'["elevated"] = exit["elevated"]
      /\ exit'["first"] = IF process' THEN exit["first"] ELSE 0
  BY DEF Execute, Control, Process, ExitCodes
<1>7. exit["first"] = NoExit /\ exit["elevated"] = NoExit
  BY <1>1, <1>2 DEF Control, Process
<1>8. \A r \in Process : exit'[r] # NoExit <=> at'[r] = "exited"
  BY <1>5, <1>6, <1>7, CodesAreNoNoExit DEF Process
<1>9. \A r \in Process : exit'[r] \in {0, NoExit}
  BY <1>6, <1>7 DEF Process
<1>10. returned' = IF exit'["elevated"] = 0 THEN 1 ELSE 0
  BY <1>2, <1>3, <1>6 DEF Control
<1>11. (exit'["first"] = 0 /\ process') => exit'["elevated"] = 0
  BY <1>6, <1>7, CodesAreNoNoExit
<1>12. at'["first"] \in LabelsOf
  BY <1>2, <1>5, LabelCommands
<1> QED BY <1>1, <1>2, <1>3, <1>4, <1>5, <1>6, <1>8, <1>9, <1>10, <1>11, <1>12 DEF Control

LEMMA WaitControl == ASSUME Inputs, Control, Wait PROVE Control'
<1>1. /\ at["first"] = "wait" /\ at["elevated"] = "exited" /\ Go("first", "code")
      /\ UNCHANGED <<inputVars, process, returned, failed>>
  BY DEF Wait, Elsewhere
<1>2. /\ at' \in [Process -> Label] /\ exit' = exit
      /\ at'["first"] = "code" /\ at'["elevated"] = "exited"
  BY <1>1, GoEffect DEF Control, Process, Label
<1>3. UNCHANGED <<command, elevated, length, process, returned, failed>>
  BY <1>1 DEF inputVars
<1>4. LabelsOf' = LabelsOf /\ FilenameThrows' = FilenameThrows
  BY <1>3 DEF LabelsOf, FilenameThrows
<1>5. command \in Elevating /\ ~elevated /\ process
  BY <1>1 DEF Control
<1>6. \A r \in Process : exit'[r] # NoExit <=> at'[r] = "exited"
  BY <1>1, <1>2 DEF Control, Process
<1>7. at'["first"] \in LabelsOf
  BY <1>2, <1>5, LabelCommands
<1> QED BY <1>2, <1>3, <1>4, <1>5, <1>6, <1>7 DEF Control

LEMMA ExitCodeControl == ASSUME Inputs, Control, ExitCode PROVE Control'
<1>1. /\ at["first"] = "code" /\ Exit("first", exit["elevated"])
      /\ UNCHANGED <<inputVars, process, returned, failed>>
  BY DEF ExitCode, Elsewhere
<1>2. /\ at["elevated"] = "exited" /\ command \in Elevating /\ ~elevated
      /\ failed' \in BOOLEAN
  BY <1>1 DEF Control
<1>3. exit["elevated"] \in ExitCodes
  BY <1>2 DEF Control, Process
<1>4. exit["elevated"] # 0 => failed \/ FilenameThrows
  BY <1>2, <1>3, CodesAreNoNoExit DEF Control, Process
<1> QED BY <1>1, <1>2, <1>3, <1>4, FirstEnds

LEMMA NextControl ==
    ASSUME Inputs, Control, exit_ret \in ExitCodes, Next
    PROVE  Control'
<1>1. CASE Usage
  <2>1. command \notin Elevating
    BY <1>1 DEF Usage, Inputs, Elevating
  <2>2. PICK code \in {1, 64} : Exit("first", code)
    BY <1>1 DEF Usage
  <2>3. code \in ExitCodes
    BY DEF ExitCodes
  <2> QED BY <1>1, <2>1, <2>2, <2>3, FirstExits DEF Usage, Control
<1>2. CASE LinuxMain
  <2>1. command = "identify"
    BY <1>2 DEF LinuxMain, Inputs
  <2>2. "loop" \in LabelsOf
    BY <2>1, LabelCommands DEF LoopLabel
  <2> QED BY <1>2, <2>2, FirstGoes DEF LinuxMain
<1>3. CASE \E q \in Process : Dispatch(q)
  BY <1>3, DispatchControl
<1>4. CASE Service
  <2>1. command \notin Elevating
    BY <1>4, LabelCommands DEF Service, Control
  <2>2. CASE Exit("first", 0)
    <3>1. 0 \in ExitCodes
      BY DEF ExitCodes
    <3> QED BY <1>4, <2>1, <2>2, <3>1, FirstExits DEF Service, Control
  <2>3. CASE Throw("first", "OSError")
    <3>1. Exit("first", 1) /\ 1 \in ExitCodes
      BY <2>3, MainCode DEF Throw, ExitCodes
    <3> QED BY <1>4, <2>1, <3>1, FirstExits DEF Service, Control
  <2> QED BY <1>4, <2>2, <2>3 DEF Service
<1>5. CASE Elevation
  <2>1. CASE \E q \in Process : IsElevated(q)
    BY <2>1, IsElevatedControl
  <2>2. CASE \E q \in Process : FunctionReturns(q)
    BY <2>2, FunctionReturnsControl
  <2>3. ASSUME NEW q \in Process, FunctionThrows(q)
        PROVE  Control'
    <3>1. PICK e \in {"win32", "OSError"} : Throw(q, e)
      BY <2>3 DEF FunctionThrows, Throws
    <3>2. failed' \in BOOLEAN /\ (failed => failed') /\ (failed' \/ FilenameThrows)
      BY <2>3 DEF FunctionThrows, Control
    <3>3. at[q] = "function" /\ UNCHANGED <<inputVars, process, returned>>
      BY <2>3 DEF FunctionThrows, Elsewhere
    <3> QED BY <3>1, <3>2, <3>3, ThrowControl
  <2>4. ASSUME NEW q \in Process, NEW l \in {"elevation", "filename", "execute", "wait", "code"},
               Fails(q, l)
        PROVE  Control'
    BY <2>4, ThrowControl DEF Fails, Elsewhere
  <2>5. CASE Filename
    <3>1. /\ at["first"] = "filename" /\ ~elevated /\ "first" \in Process
          /\ UNCHANGED <<inputVars, process, returned, failed>> /\ failed \in BOOLEAN
      BY <2>5 DEF Filename, Elsewhere, Control, Process
    <3>2. CASE FilenameThrows
      <4>1. Throw("first", "win32")
        BY <2>5, <3>2 DEF Filename
      <4> QED BY <3>1, <3>2, <4>1, ThrowControl
    <3>3. CASE ~FilenameThrows
      <4>1. Go("first", "execute")
        BY <2>5, <3>3 DEF Filename
      <4>2. "execute" \in LabelsOf
        BY <3>1, LabelCommands DEF Control, LoopLabel, Inputs, Command, WindowsCommand
      <4> QED BY <3>1, <4>1, <4>2, FirstGoes
    <3> QED BY <3>2, <3>3
  <2>6. CASE Execute
    BY <2>6, ExecuteControl
  <2>7. CASE Wait
    BY <2>7, WaitControl
  <2>8. CASE ExitCode
    BY <2>8, ExitCodeControl
  <2> QED BY <1>5, <2>1, <2>2, <2>3, <2>4, <2>5, <2>6, <2>7, <2>8 DEF Elevation, Process
<1>6. CASE Enumerate \/ MakeObject \/ Call \/ EndOfIdentify
  <2>1. PICK l \in LoopLabel : Go("first", l)
    BY <1>6 DEF Enumerate, MakeObject, Call, EndOfIdentify, LoopLabel
  <2>2. /\ UNCHANGED <<inputVars, process, returned, failed>>
        /\ at["first"] \in LoopLabel \cup {"enumerate"}
    BY <1>6 DEF Enumerate, MakeObject, Call, EndOfIdentify, Advance, LoopLabel
  <2>3. l \in LabelsOf
    BY <2>2, LabelCommands DEF LoopLabel, Control, Inputs, Command, WindowsCommand
  <2> QED BY <2>1, <2>2, <2>3, FirstGoes DEF LoopLabel
<1>7. CASE Fails("first", "enumerate")
  <2>1. /\ at["first"] = "enumerate" /\ UNCHANGED <<inputVars, process, returned>> /\ failed'
    BY <1>7 DEF Fails, Elsewhere
  <2>2. Exit("first", 2) /\ 2 \in ExitCodes
    BY <1>7, MainCode DEF Fails, Throw, ExitCodes
  <2>3. command \notin Elevating
    BY <2>1, LabelCommands DEF Control
  <2>4. failed' \in BOOLEAN
    BY <1>7 DEF Fails
  <2> QED BY <2>1, <2>2, <2>3, <2>4, FirstExits
<1>8. CASE Return
  <2>1. command \notin Elevating
    BY <1>8, LabelCommands DEF Return, Control
  <2> QED BY <1>8, <2>1, FirstExits DEF Return, Control
<1>9. CASE Kill
  <2>1. /\ at["elevated"] \notin {"none", "exited"} /\ Exit("elevated", 1) /\ failed'
        /\ UNCHANGED <<inputVars, process, returned>> /\ 1 \in ExitCodes
    BY <1>9 DEF Kill, Elsewhere, ExitCodes
  <2>2. failed' = TRUE
    BY <1>9 DEF Kill
  <2> QED BY <2>1, <2>2, ElevatedExits
<1>10. CASE Iterate \/ Identify \/ NoEventSource
            \/ \E p \in Path : (\E d \in Devices : Plug(p, d)) \/ Unplug(p) \/ Install(p)
  <2>1. UNCHANGED <<inputVars, processVars>>
    BY <1>10 DEF Iterate, Identify, NoEventSource, Plug, Unplug, Install, Advance, processVars
  <2> QED BY <2>1, ControlStutter
<1> QED BY <1>1, <1>2, <1>3, <1>4, <1>5, <1>6, <1>7, <1>8, <1>9, <1>10
        DEF Next, Program, Computer, Loop
-----------------------------------------------------------------------------
(* The object.                                                             *)

\* What was written is what the command is made of, when identify() has ended.
Running ==
    at["first"] = "identify" => op = "identify" /\ (pc = "idle" => outcome # "none")

LEMMA UpcomingPath ==
    ASSUME Inputs, EnumP!Inv, NEW p \in Upcoming
    PROVE  /\ p \in Path
           /\ platform = "linux" => arg \in 1 .. Len(argv) /\ p = argv[arg]
           /\ platform = "windows" => place = "ready" /\ p = device_path
<1>1. CASE platform = "linux"
  <2>1. PICK i \in {arg} \cap DOMAIN argv : p = argv[i]
    BY <1>1 DEF Upcoming
  <2>2. argv \in Seq(Path)
    BY ArgumentsAssumption DEF Inputs
  <2> QED BY <1>1, <2>1, <2>2
<1>2. CASE platform = "windows"
  <2>1. place = "ready" /\ p = device_path
    BY <1>2 DEF Upcoming
  <2>2. visited \in Seq(Path) /\ Len(visited) > 0 /\ visited[Len(visited)] = device_path
    BY <2>1 DEF EnumP!Inv, EnumP!Shape
  <2>3. device_path \in Path
    BY <2>2
  <2> QED BY <1>2, <2>1, <2>3
<1> QED BY <1>1, <1>2 DEF Inputs

LEMMA ObjectStays ==
    ASSUME DevP!Inv, UNCHANGED <<platform, object, op, pc, outcome, received>>,
           present' \in Devices \cup {NoDevice}, gone' \in BOOLEAN
    PROVE  DevP!Inv'
BY DeviceParameters, DevP!PlaceInv

LEMMA ObjectStutters == ASSUME DevP!Inv, UNCHANGED deviceVars PROVE DevP!Inv'
<1>1. UNCHANGED DevP!vars
  BY DEF deviceVars, DevP!vars
<1> QED BY <1>1, DeviceParameters, DevP!StutterInv

LEMMA DestroyedInit == ASSUME DevP!Inv, Destroyed PROVE DevP!Init'
<1>1. platform \in Platforms
  BY DEF DevP!Inv, DevP!TypeOK
<1> QED BY <1>1 DEF Destroyed, DevP!Init, Device!NewObject, DevP!NewObject, Device!NoWrite,
                    DevP!NoWrite

LEMMA NextObject ==
    ASSUME Inputs, EnumP!Inv, Places, DevP!Inv, Running, Control, Next
    PROVE  DevP!Inv' /\ Running'
<1>1. CASE UNCHANGED deviceVars /\ at'["first"] # "identify"
  BY <1>1, ObjectStutters DEF Running
<1>2. CASE UNCHANGED deviceVars /\ at'["first"] = at["first"]
  <2>1. UNCHANGED <<op, pc, outcome>>
    BY <1>2 DEF deviceVars
  <2> QED BY <1>2, <2>1, ObjectStutters DEF Running
<1>3. CASE MakeObject
  <2>1. PICK p \in Upcoming : present' = connected[p]
    BY <1>3 DEF MakeObject
  <2>2. present' \in Devices \cup {NoDevice}
    BY <2>1, UpcomingPath DEF Places
  <2>3. at'["first"] = "call"
    BY <1>3, GoEffect DEF MakeObject, Control, Process, Label
  <2> QED BY <1>3, <2>2, <2>3, ObjectStays DEF MakeObject, Running
<1>4. CASE Call
  <2>1. DevP!CallIdentify
    BY <1>4, DeviceCall DEF Call
  <2>2. DevP!Inv'
    BY <2>1, DeviceParameters, DevP!CallInv
  <2> QED BY <2>1, <2>2 DEF DevP!CallIdentify, DevP!Call, Running
<1>5. CASE Identify
  <2>1. DevP!Proceed /\ at'["first"] = at["first"] /\ at["first"] = "identify"
    BY <1>5, DeviceStep DEF Identify, processVars
  <2>2. DevP!Inv'
    BY <2>1, DeviceParameters, DevP!OperationInv
  <2>3. op' = op /\ (pc' = "idle" => outcome' # "none")
    BY <2>1, DeviceParameters, DevP!OperationEnds
  <2> QED BY <2>1, <2>2, <2>3 DEF Running
<1>6. CASE EndOfIdentify
  <2>1. DevP!Inv'
    BY <1>6, DestroyedInit, DeviceStartsNext DEF EndOfIdentify
  <2>2. at'["first"] = "loop"
    BY <1>6, GoEffect DEF EndOfIdentify, Control, Process, Label
  <2> QED BY <2>1, <2>2 DEF Running
<1>7. ASSUME NEW p \in Path, (\E d \in Devices : Plug(p, d)) \/ Unplug(p)
      PROVE  DevP!Inv' /\ Running'
  <2>1. at'["first"] = at["first"]
    BY <1>7 DEF Plug, Unplug, processVars
  <2>2. CASE UNCHANGED deviceVars
    BY <2>1, <2>2, <1>2
  <2>3. CASE (\E d \in Devices : Device!Plug(d)) \/ Device!Unplug
    <3>1. /\ UNCHANGED <<platform, object, op, pc, outcome, received>>
          /\ present' \in Devices \cup {NoDevice}
          /\ gone' \in BOOLEAN
      BY <2>3 DEF Device!Plug, Device!Unplug, DevP!Inv, DevP!TypeOK
    <3>2. DevP!Inv'
      BY <3>1, ObjectStays
    <3> QED BY <2>1, <3>1, <3>2 DEF Running
  <2> QED BY <1>7, <2>2, <2>3 DEF Plug, Unplug
<1>8. CASE \/ Usage \/ LinuxMain \/ (\E q \in Process : Dispatch(q)) \/ Service
           \/ Elevation \/ Kill \/ Enumerate \/ Fails("first", "enumerate") \/ Return
  <2>1. UNCHANGED deviceVars
    BY <1>8 DEF Usage, LinuxMain, Dispatch, Service, Kill, Elevation, IsElevated,
       FunctionReturns, FunctionThrows, Fails, Filename, Execute, Wait, ExitCode, Elsewhere,
       Enumerate, Return
  <2>2. at'["first"] = at["first"] \/ at'["first"] # "identify"
    <3>1. /\ at \in [Process -> Label]
          /\ \A q \in Process, l \in Label \ {"identify"} : Go(q, l) =>
                 at'["first"] = at["first"] \/ at'["first"] # "identify"
          /\ \A q \in Process : \A c : Exit(q, c) =>
                 at'["first"] = at["first"] \/ at'["first"] # "identify"
      BY DEF Control, Go, Exit, Process
    <3> QED BY <1>8, <3>1
            DEF Usage, LinuxMain, Dispatch, Service, Kill, Elevation, IsElevated,
                FunctionReturns, FunctionThrows, Fails, Filename, Execute, Wait, ExitCode,
                Enumerate, Return, Throw, Label, Process
  <2> QED BY <1>1, <1>2, <2>1, <2>2
<1>9. CASE Iterate \/ NoEventSource \/ \E p \in Path : Install(p)
  BY <1>9, <1>2 DEF Iterate, NoEventSource, Install, processVars
<1> QED BY <1>3, <1>4, <1>5, <1>6, <1>7, <1>8, <1>9 DEF Next, Program, Computer, Loop
-----------------------------------------------------------------------------
(* The results and the exit code so far.                                   *)

CodeFor(e) == IF platform = "linux" THEN Sysexit[e] ELSE 1

Fine(i) == results[i].outcome = "ok" /\ results[i].served

\* The first of the failures is at this index.
FirstFailure(i) ==
    /\ results[i].outcome \in Failure
    /\ \A j \in 1 .. Len(results) : j < i => Fine(j)
    /\ exit_ret = CodeFor(results[i].outcome)
    /\ exit_ret # 0

Codes ==
    /\ results \in Seq(Result)
    /\ exit_ret \in ExitCodes
    /\ \/ exit_ret = 0 /\ \A i \in 1 .. Len(results) : Fine(i)
       \/ \E i \in 1 .. Len(results) : FirstFailure(i)

LEMMA CodeOfFailure ==
    ASSUME Inputs, NEW e \in Failure
    PROVE  CodeOf(Handlers, e) = CodeFor(e) /\ CodeFor(e) \in ExitCodes \ {0}
<1>1. CASE platform = "linux"
  BY <1>1, LinuxCode DEF Handlers, CodeFor
<1>2. CASE platform = "windows"
  BY <1>2, ReportCode DEF Handlers, CodeFor, ExitCodes
<1> QED BY <1>1, <1>2 DEF Inputs

LEMMA CodesStutter ==
    ASSUME Codes, UNCHANGED <<platform, results, exit_ret>>
    PROVE  Codes'
BY DEF Codes, Fine, FirstFailure, CodeFor

LEMMA InitCodes == ASSUME Init PROVE Codes
<1>1. results = <<>> /\ exit_ret = 0 /\ 0 \in ExitCodes
  BY DEF Init, ExitCodes
<1>2. Len(results) = 0 /\ results \in Seq(Result)
  BY <1>1
<1> QED BY <1>1, <1>2 DEF Codes

\* One more result, and the code that it leads to.
LEMMA AdvanceCodes ==
    ASSUME Inputs, Codes, UNCHANGED platform,
           NEW p \in Path, NEW how \in Failure \cup {"ok"}, NEW served \in BOOLEAN,
           how = "ok" => served, Advance(p, how, served)
    PROVE  /\ Codes'
           /\ Len(results') = Len(results) + 1
           /\ results'[Len(results) + 1].path = p
           /\ \A i \in 1 .. Len(results) : results'[i] = results[i]
<1> DEFINE r == [path |-> p, outcome |-> how, served |-> served]
<1>1. r \in Result /\ r.path = p /\ r.outcome = how /\ r.served = served
  BY FailureOutcome DEF Result
<1>2. results' = Append(results, r)
  BY DEF Advance
<1> HIDE DEF r
<1>3. results \in Seq(Result) /\ Len(results) \in Nat
  BY DEF Codes
<1>4. /\ Len(results') = Len(results) + 1 /\ results' \in Seq(Result)
      /\ results'[Len(results) + 1] = r
      /\ \A i \in 1 .. Len(results) : results'[i] = results[i]
  BY <1>1, <1>2, <1>3
<1>5. CASE exit_ret = 0 /\ (\A i \in 1 .. Len(results) : Fine(i)) /\ how = "ok"
  <2>1. exit_ret' = exit_ret
    BY <1>5 DEF Advance
  <2>2. \A i \in 1 .. Len(results') : Fine(i)'
    <3>1. ASSUME NEW i \in 1 .. Len(results') PROVE Fine(i)'
      <4>1. i \in 1 .. Len(results) \/ i = Len(results) + 1
        BY <1>3, <1>4
      <4> QED BY <1>1, <1>4, <1>5, <4>1 DEF Fine
    <3> QED BY <3>1
  <2> QED BY <1>1, <1>4, <1>5, <2>1, <2>2 DEF Codes
<1>6. CASE exit_ret = 0 /\ (\A i \in 1 .. Len(results) : Fine(i)) /\ how # "ok"
  <2>1. exit_ret' = CodeFor(how) /\ exit_ret' \in ExitCodes \ {0}
    BY <1>6, CodeOfFailure DEF Advance, Kept
  <2>2. CodeFor(how)' = CodeFor(how)
    BY DEF CodeFor
  <2>3. PICK n \in Nat : n = Len(results) + 1
    BY <1>3
  <2>4. FirstFailure(n)'
    <3>1. ASSUME NEW j \in 1 .. Len(results'), j < n PROVE Fine(j)'
      <4>1. j \in 1 .. Len(results)
        BY <1>3, <2>3, <3>1
      <4> QED BY <1>4, <1>6, <4>1 DEF Fine
    <3>2. results'[n].outcome = how
      BY <1>1, <1>4, <2>3
    <3> QED BY <1>6, <2>1, <2>2, <3>1, <3>2 DEF FirstFailure, CodeFor
  <2>5. n \in 1 .. Len(results')
    BY <1>3, <1>4, <2>3
  <2> QED BY <1>1, <1>4, <2>1, <2>4, <2>5 DEF Codes
<1>7. CASE \E i \in 1 .. Len(results) : FirstFailure(i)
  <2>1. PICK i \in 1 .. Len(results) : FirstFailure(i)
    BY <1>7
  <2>2. exit_ret' = exit_ret
    BY <2>1 DEF Advance, Kept, FirstFailure
  <2>3. FirstFailure(i)'
    <3>1. ASSUME NEW j \in 1 .. Len(results'), j < i PROVE Fine(j)'
      <4>1. j \in 1 .. Len(results)
        BY <1>3, <1>4, <2>1, <3>1
      <4> QED BY <1>4, <2>1, <3>1, <4>1 DEF Fine, FirstFailure
    <3>2. results'[i] = results[i]
      BY <1>4, <2>1
    <3> QED BY <2>1, <2>2, <3>1, <3>2 DEF FirstFailure, CodeFor
  <2>4. i \in 1 .. Len(results')
    BY <1>3, <1>4, <2>1
  <2> QED BY <1>1, <1>4, <2>2, <2>3, <2>4 DEF Codes
<1> QED BY <1>1, <1>4, <1>5, <1>6, <1>7 DEF Codes

\* identify() has ended, with success only if the whole command was delivered.
LEMMA EndedAs ==
    ASSUME DevP!Inv, Running, at["first"] = "identify", pc = "idle"
    PROVE  /\ outcome \in Failure \cup {"ok"}
           /\ outcome = "ok" => received.size >= Device!CommandSize
<1>1. outcome \in Failure \cup {"none", "ok"}
  <2>1. Device!TypeOK
    BY DeviceType DEF DevP!Inv
  <2> QED BY <2>1, FailureOutcome DEF Device!TypeOK
<1>2. outcome # "none" /\ op = "identify"
  BY DEF Running
<1>3. outcome = "ok" => received.size >= DevP!CommandSize
  BY <1>2 DEF DevP!Inv, DevP!SuccessIsDelivered
<1> QED BY <1>1, <1>2, <1>3 DEF DevP!CommandSize, Device!CommandSize

LEMMA NextCodes ==
    ASSUME Inputs, EnumP!Inv, DevP!Inv, Running, Codes, Next,
           at["first"] = "identify" => path \in Path
    PROVE  Codes'
<1>1. UNCHANGED platform
  BY PlatformKept
<1>2. CASE EndOfIdentify
  <2>1. outcome \in Failure \cup {"ok"} /\ (outcome = "ok" => received.size >= Device!CommandSize)
    BY <1>2, EndedAs DEF EndOfIdentify
  <2>2. PICK served \in BOOLEAN : served <=> received.size >= Device!CommandSize
    OBVIOUS
  <2>3. (received.size >= Device!CommandSize) = served
    BY <2>2
  <2>4. Advance(path, outcome, served) /\ path \in Path
    BY <1>2, <2>3 DEF EndOfIdentify
  <2> QED BY <1>1, <2>1, <2>2, <2>4, AdvanceCodes
<1>3. CASE NoEventSource
  <2>1. PICK p \in Path : Advance(p, "OSError", FALSE)
    BY <1>3, UpcomingPath DEF NoEventSource
  <2>2. "OSError" \in Failure
    BY DEF Failure
  <2> QED BY <1>1, <2>1, <2>2, AdvanceCodes
<1>4. CASE UNCHANGED <<results, exit_ret>>
  BY <1>1, <1>4, CodesStutter
<1>5. CASE \/ Usage \/ LinuxMain \/ (\E q \in Process : Dispatch(q)) \/ Service
           \/ Elevation \/ Kill \/ Enumerate \/ Fails("first", "enumerate") \/ Return
           \/ Iterate \/ MakeObject \/ Call \/ Identify
           \/ \E p \in Path : (\E d \in Devices : Plug(p, d)) \/ Unplug(p) \/ Install(p)
  <2>1. UNCHANGED <<results, exit_ret>>
    BY <1>5 DEF Usage, LinuxMain, Dispatch, Service, Kill, Elevation, IsElevated,
       FunctionReturns, FunctionThrows, Fails, Filename, Execute, Wait, ExitCode, Elsewhere,
       Enumerate, Return, Iterate, MakeObject, Call, Identify, Plug, Unplug, Install, loopVars
  <2> QED BY <1>4, <2>1
<1> QED BY <1>2, <1>3, <1>5 DEF Next, Program, Computer, Loop
-----------------------------------------------------------------------------
(* The loops.                                                              *)

\* The object is at the path that it was made for.
AtPath ==
    /\ IF at["first"] \in {"call", "identify"} THEN path \in Path /\ present = connected[path]
                                               ELSE path = NoPath
    /\ platform = "windows" => \A p \in Path : connected[p] = NoDevice <=> interface[p] = "absent"

\* The results are those of the arguments before the index.
OnLinux == platform = "linux" =>
    /\ place = "none"
    /\ arg \in Nat /\ arg <= Len(argv) + 1
    /\ Len(results) = arg - 1
    /\ \A i \in 1 .. Len(results) : results[i].path = argv[i]
    /\ at["first"] \in LoopLabel => argv # <<>>
    /\ at["first"] \in {"call", "identify"} => arg <= Len(argv) /\ path = argv[arg]
    /\ at["first"] = "exited" => IF argv = <<>> THEN exit["first"] = 64
                                 ELSE arg = Len(argv) + 1 /\ exit["first"] = exit_ret

\* The results are those of the paths that the iterator has left.
OnWindows == platform = "windows" =>
    /\ arg = 1
    /\ command # "report" => place = "none"
    /\ command = "report" =>
           /\ at["first"] \in {"start", "enumerate"} => place = "none"
           /\ at["first"] = "loop" => place # "none"
           /\ at["first"] \in {"call", "identify"} => place = "ready" /\ path = device_path
           /\ at["first"] = "exited" => \/ place = "none" /\ exit["first"] # 0
                                        \/ place = "end" /\ exit["first"] = exit_ret
           /\ Len(results) = IF place = "ready" THEN Len(visited) - 1 ELSE Len(visited)
           /\ \A i \in 1 .. Len(results) : results[i].path = visited[i]

Stands == AtPath /\ OnLinux /\ OnWindows

LEMMA InitStands == ASSUME Init PROVE Stands
<1>1. /\ at["first"] = "start" /\ path = NoPath /\ arg = 1 /\ place = "none"
      /\ results = <<>> /\ visited = <<>> /\ Len(results) = 0 /\ Len(visited) = 0
  BY DEF Init, Enum!Init, Process
<1>2. Len(argv) \in Nat
  BY ArgumentsAssumption DEF Init
<1>3. platform = "windows" => \A p \in Path : connected[p] = NoDevice <=> interface[p] = "absent"
  BY DEF Init, WindowsCommand, Elevating
<1> QED BY <1>1, <1>2, <1>3 DEF Stands, AtPath, OnLinux, OnWindows, LoopLabel

Quiet == UNCHANGED <<deviceVars, enumVars, loopVars, inputVars>>

LEMMA QuietVars ==
    ASSUME Quiet
    PROVE  UNCHANGED <<platform, present, interface, device_path, place, visited, connected,
                       path, arg, exit_ret, results, command, argv, elevated, length>>
BY DEF Quiet, deviceVars, enumVars, loopVars, inputVars

\* What happens elsewhere.
LEMMA QuietElsewhere ==
    ASSUME Stands, Quiet, at'["first"] = at["first"], exit'["first"] = exit["first"]
    PROVE  Stands'
BY QuietVars DEF Stands, AtPath, OnLinux, OnWindows

LEMMA QuietOther ==
    ASSUME Inputs, Control, Stands, Quiet, Control', command \notin {"identify", "report"}
    PROVE  Stands'
<1>1. /\ at["first"] \notin LoopLabel /\ at'["first"] \notin LoopLabel
  <2>1. LabelsOf' = LabelsOf
    BY QuietVars DEF LabelsOf
  <2>2. at["first"] \in LabelsOf /\ at'["first"] \in LabelsOf
    BY <2>1 DEF Control
  <2> QED BY <2>2, LabelCommands DEF LoopLabel, Inputs, Command, WindowsCommand
<1>2. platform = "windows"
  BY DEF Inputs
<1> QED BY <1>1, <1>2, QuietVars DEF Stands, AtPath, OnLinux, OnWindows, LoopLabel

LEMMA QuietLinux ==
    ASSUME Inputs, Control, Stands, Quiet, platform = "linux",
           at["first"] \notin {"call", "identify", "exited"},
           \/ at'["first"] = "loop" /\ argv # <<>>
           \/ at'["first"] = "exited" /\ argv = <<>> /\ exit'["first"] = 64
           \/ /\ at'["first"] = "exited" /\ argv # <<>> /\ arg > Len(argv)
              /\ exit'["first"] = exit_ret
    PROVE  Stands'
<1>1. Len(argv) \in Nat
  BY ArgumentsAssumption DEF Inputs
<1>2. AtPath'
  BY QuietVars DEF Stands, AtPath
<1>3. OnLinux'
  <2>1. arg \in Nat /\ arg <= Len(argv) + 1
    BY DEF Stands, OnLinux
  <2>2. arg > Len(argv) => arg = Len(argv) + 1
    BY <1>1, <2>1
  <2> QED BY <1>1, <2>2, QuietVars DEF Stands, OnLinux, LoopLabel
<1>4. OnWindows'
  BY QuietVars DEF OnWindows
<1> QED BY <1>2, <1>3, <1>4 DEF Stands

LEMMA QuietReport ==
    ASSUME Inputs, Control, Stands, Quiet, command = "report",
           \/ at["first"] = "start" /\ at'["first"] = "enumerate"
           \/ at["first"] = "enumerate" /\ at'["first"] = "exited" /\ exit'["first"] # 0
           \/ /\ at["first"] = "loop" /\ place = "end" /\ at'["first"] = "exited"
              /\ exit'["first"] = exit_ret
    PROVE  Stands'
<1>1. platform = "windows"
  BY DEF Inputs
<1>2. AtPath'
  BY QuietVars DEF Stands, AtPath
<1>3. OnWindows'
  BY <1>1, QuietVars DEF Stands, OnWindows
<1>4. OnLinux'
  BY <1>1, QuietVars DEF OnLinux
<1> QED BY <1>2, <1>3, <1>4 DEF Stands

LEMMA NextQuiet ==
    ASSUME Inputs, Control, Stands, Control',
           \/ Usage \/ LinuxMain \/ (\E q \in Process : Dispatch(q)) \/ Service
           \/ Elevation \/ Kill \/ Fails("first", "enumerate") \/ Return
    PROVE  Stands'
<1>1. Quiet
  BY DEF Usage, LinuxMain, Dispatch, Service, Kill, Elevation, IsElevated, FunctionReturns,
         FunctionThrows, Fails, Filename, Execute, Wait, ExitCode, Elsewhere, Return, Quiet
<1>2. CASE command \notin {"identify", "report"}
  BY <1>1, <1>2, QuietOther
<1>3. CASE command = "identify"
  <2>1. /\ platform = "linux" /\ at["elevated"] = "none"
        /\ at["first"] \in LoopLabel \cup {"start", "exited"}
    BY <1>3, LabelCommands DEF Inputs, Control, Elevating
  <2>2. CASE Usage
    <3>1. argv = <<>> /\ Exit("first", 64) /\ 64 \in ExitCodes /\ at["first"] = "start"
      BY <1>3, <2>1, <2>2 DEF Usage, ExitCodes
    <3>2. at'["first"] = "exited" /\ exit'["first"] = 64
      BY <3>1, ExitEffect DEF Control, Process
    <3> QED BY <1>1, <2>1, <3>1, <3>2, QuietLinux
  <2>3. CASE LinuxMain
    <3>1. at'["first"] = "loop" /\ argv # <<>> /\ at["first"] = "start"
      BY <2>3, GoEffect DEF LinuxMain, Control, Process, Label
    <3> QED BY <1>1, <2>1, <3>1, QuietLinux
  <2>4. CASE Return
    <3>1. /\ at["first"] = "loop" /\ arg > Len(argv)
          /\ at'["first"] = "exited" /\ exit'["first"] = exit_ret
      BY <2>1, <2>4 DEF Return, Exit, Control, Process
    <3>2. argv # <<>>
      BY <2>1, <3>1 DEF Stands, OnLinux, LoopLabel
    <3> QED BY <1>1, <2>1, <3>1, <3>2, QuietLinux
  <2>5. CASE \/ (\E q \in Process : Dispatch(q)) \/ Service
             \/ Elevation \/ Kill \/ Fails("first", "enumerate")
    BY <1>3, <2>1, <2>5 DEF Dispatch, Service, Elevation, Kill, Fails, IsElevated,
       FunctionReturns, FunctionThrows, Filename, Execute, Wait, ExitCode, Process, LoopLabel,
       Elevating
  <2> QED BY <2>2, <2>3, <2>4, <2>5
<1>4. CASE command = "report"
  <2>1. /\ platform = "windows" /\ at["elevated"] = "none"
        /\ at["first"] \in LoopLabel \cup {"start", "enumerate", "exited"}
    BY <1>4, LabelCommands DEF Inputs, Control, Elevating
  <2>2. CASE \E q \in Process : Dispatch(q)
    <3>1. at["first"] = "start" /\ Go("first", "enumerate")
      BY <1>4, <2>1, <2>2 DEF Dispatch, Process, Elevating
    <3>2. at'["first"] = "enumerate"
      BY <3>1, GoEffect DEF Control, Process, Label
    <3> QED BY <1>1, <1>4, <3>1, <3>2, QuietReport
  <2>3. CASE Fails("first", "enumerate")
    <3>1. at["first"] = "enumerate" /\ at'["first"] = "exited" /\ exit'["first"] # 0
      BY <2>3, ThrowEffect DEF Fails, Control, Process
    <3> QED BY <1>1, <1>4, <3>1, QuietReport
  <2>4. CASE Return
    <3>1. /\ at["first"] = "loop" /\ place = "end"
          /\ at'["first"] = "exited" /\ exit'["first"] = exit_ret
      BY <2>1, <2>4 DEF Return, Exit, Control, Process
    <3> QED BY <1>1, <1>4, <3>1, QuietReport
  <2>5. CASE Usage \/ LinuxMain \/ Service \/ Elevation \/ Kill
    BY <1>4, <2>1, <2>5 DEF Usage, LinuxMain, Service, Elevation, Kill, Fails, IsElevated,
       FunctionReturns, FunctionThrows, Filename, Execute, Wait, ExitCode, Process, LoopLabel
  <2> QED BY <2>2, <2>3, <2>4, <2>5
<1> QED BY <1>2, <1>3, <1>4

\* What the operations of the enumeration do to what the loop looks at.
LEMMA EnumEffects ==
    /\ Enum!Construct => place = "none" /\ place' = "interface" /\ visited' = visited
    /\ Enum!Increment => place = "ready" /\ place' = "interface" /\ visited' = visited
    /\ Enum!Iterate =>
           /\ place \notin {"none", "ready", "end"} /\ place' # "none"
           /\ visited' = IF place' = "ready" THEN Append(visited, device_path') ELSE visited
    /\ (Enum!Construct \/ Enum!Increment \/ Enum!Iterate) => interface' = interface
BY DEF Enum!Construct, Enum!Increment, Enum!Continue, Enum!Iterate, Enum!Interface,
       Enum!NoInterface, Enum!CallFails, Enum!Detail, Enum!Size, Enum!NoState,
       Enum!Installed, Enum!NotInstalled

LEMMA ReportLabel ==
    ASSUME Inputs, Control, at["first"] \in LoopLabel \cup {"enumerate"}, platform = "windows"
    PROVE  command = "report"
BY LabelCommands DEF Inputs, Control, Command, WindowsCommand, LoopLabel

LEMMA VisitedSeq ==
    ASSUME EnumP!Inv
    PROVE  visited \in Seq(Path) /\ Len(visited) \in Nat /\ (place = "ready" => Len(visited) > 0)
BY DEF EnumP!Inv, EnumP!Shape

LEMMA EnumerateStands ==
    ASSUME Inputs, Control, Stands, Enumerate PROVE Stands'
<1>1. /\ at["first"] = "enumerate" /\ UNCHANGED <<deviceVars, loopVars, inputVars>>
      /\ Enum!Construct /\ Go("first", "loop")
  BY DEF Enumerate
<1>2. UNCHANGED <<platform, present, connected, path, arg, exit_ret, results, command, argv>>
  BY <1>1 DEF deviceVars, loopVars, inputVars
<1>3. at'["first"] = "loop"
  BY <1>1, GoEffect DEF Control, Process, Label
<1>4. platform = "windows"
  BY <1>1, LabelCommands DEF Inputs, Control, LoopLabel
<1>5. command = "report"
  BY <1>1, <1>4, ReportLabel
<1> QED BY <1>1, <1>2, <1>3, <1>4, <1>5, EnumEffects
        DEF Stands, AtPath, OnLinux, OnWindows, LoopLabel

LEMMA IterateStands ==
    ASSUME Inputs, Control, EnumP!Inv, Stands, Iterate PROVE Stands'
<1>1. /\ at["first"] = "loop" /\ platform = "windows" /\ Enum!Iterate
      /\ UNCHANGED <<deviceVars, loopVars, inputVars, processVars>>
  BY DEF Iterate
<1>2. UNCHANGED <<platform, present, connected, path, arg, exit_ret, results, command, argv,
                  at, exit>>
  BY <1>1 DEF deviceVars, loopVars, inputVars, processVars
<1>3. command = "report"
  BY <1>1, ReportLabel DEF LoopLabel
<1>4. visited \in Seq(Path) /\ Len(visited) \in Nat
  BY VisitedSeq
<1>5. /\ Len(results) = Len(visited) /\ \A i \in 1 .. Len(results) : results[i].path = visited[i]
  BY <1>1, <1>3, EnumEffects DEF Stands, OnWindows
<1>6. /\ Len(results) = IF place' = "ready" THEN Len(visited') - 1 ELSE Len(visited')
      /\ \A i \in 1 .. Len(results) : visited'[i] = visited[i]
  <2>1. CASE place' = "ready"
    <3>1. visited' = Append(visited, device_path')
      BY <1>1, <2>1, EnumEffects
    <3> QED BY <1>4, <1>5, <2>1, <3>1
  <2>2. CASE place' # "ready"
    BY <1>1, <1>5, <2>2, EnumEffects
  <2> QED BY <2>1, <2>2
<1>7. OnWindows'
  BY <1>1, <1>2, <1>3, <1>5, <1>6, EnumEffects DEF Stands, OnWindows
<1> QED BY <1>1, <1>2, <1>7, EnumEffects DEF Stands, AtPath, OnLinux

LEMMA MakeObjectStands ==
    ASSUME Inputs, EnumP!Inv, Control, Stands, MakeObject PROVE Stands'
<1>1. /\ at["first"] = "loop" /\ Go("first", "call")
      /\ UNCHANGED <<platform, enumVars, connected, arg, exit_ret, results, inputVars>>
  BY DEF MakeObject
<1>2. PICK p \in Upcoming : path' = p /\ present' = connected[p]
  BY DEF MakeObject
<1>3. UNCHANGED <<platform, interface, device_path, place, visited, connected, arg, exit_ret,
                  results, command, argv>>
  BY <1>1 DEF enumVars, inputVars
<1>4. at'["first"] = "call"
  BY <1>1, GoEffect DEF Control, Process, Label
<1>5. AtPath'
  BY <1>2, <1>3, <1>4, UpcomingPath DEF Stands, AtPath
<1>6. OnLinux'
  <2>1. platform = "linux" => arg <= Len(argv) /\ path' = argv[arg]
    BY <1>2, UpcomingPath
  <2> QED BY <1>1, <1>3, <1>4, <2>1 DEF Stands, OnLinux, LoopLabel
<1>7. OnWindows'
  <2>1. platform = "windows" => place = "ready" /\ path' = device_path
    BY <1>2, UpcomingPath
  <2> QED BY <1>1, <1>3, <1>4, <2>1 DEF Stands, OnWindows
<1> QED BY <1>5, <1>6, <1>7 DEF Stands

LEMMA PresentKept == Device!CallIdentify \/ Device!Proceed => UNCHANGED present
BY DEF Device!CallIdentify, Device!Call, Device!Proceed, Device!OpenHandle, Device!DeviceInfo,
       Device!LinuxReports, Device!WindowsReports, Device!CheckAllowed, Device!CheckReports,
       Device!SendReport, Device!LinuxWrite, Device!WindowsWrite,
       Device!WriteFails, Device!Written, Device!Throw

LEMMA CallStands == ASSUME Inputs, Control, Stands, Call \/ Identify, Next PROVE Stands'
<1>1. UNCHANGED <<platform, present>>
  BY PlatformKept, PresentKept DEF Call, Identify
<1>2. UNCHANGED <<interface, device_path, place, visited, connected, path, arg, exit_ret,
                  results, command, argv>>
  BY DEF Call, Identify, enumVars, loopVars, inputVars
<1>3. /\ at["first"] \in {"call", "identify"} /\ at'["first"] = "identify"
  BY GoEffect DEF Call, Identify, processVars, Control, Process, Label
<1> QED BY <1>1, <1>2, <1>3 DEF Stands, AtPath, OnLinux, OnWindows, LoopLabel

\* A result is added: on Linux that of the argument, on Windows that of what the
\* iterator stands on.
LEMMA AdvanceStands ==
    ASSUME Inputs, EnumP!Inv, Control, Codes, Stands, UNCHANGED platform,
           at["first"] \in LoopLabel, at'["first"] = "loop", path' = NoPath,
           NEW p \in Path, NEW how \in Failure \cup {"ok"}, NEW served \in BOOLEAN,
           how = "ok" => served, Advance(p, how, served),
           platform = "linux" => arg <= Len(argv) /\ p = argv[arg],
           platform = "windows" => p = device_path
    PROVE  Stands'
<1>1. /\ Len(results') = Len(results) + 1
      /\ results'[Len(results) + 1].path = p
      /\ \A i \in 1 .. Len(results) : results'[i] = results[i]
  BY AdvanceCodes
<1>2. Len(results) \in Nat
  BY DEF Codes
<1>3. UNCHANGED <<connected, command, argv>>
  BY DEF Advance, inputVars
<1>4. CASE platform = "linux"
  <2>1. /\ arg' = arg + 1 /\ UNCHANGED <<interface, place>>
    BY <1>4 DEF Advance, enumVars
  <2>2. arg \in Nat /\ Len(results) = arg - 1 /\ Len(argv) \in Nat
    BY <1>4, ArgumentsAssumption DEF Stands, OnLinux, Inputs
  <2>3. \A i \in 1 .. Len(results') : results'[i].path = argv[i]
    <3>1. ASSUME NEW i \in 1 .. Len(results') PROVE results'[i].path = argv[i]
      <4>1. i \in 1 .. Len(results) \/ i = Len(results) + 1
        BY <1>1, <1>2
      <4>2. CASE i \in 1 .. Len(results)
        BY <1>1, <1>4, <4>2 DEF Stands, OnLinux
      <4>3. CASE i = Len(results) + 1
        BY <1>1, <1>4, <2>2, <4>3
      <4> QED BY <4>1, <4>2, <4>3
    <3> QED BY <3>1
  <2>4. arg' <= Len(argv') + 1 /\ Len(results') = arg' - 1 /\ arg' \in Nat
    BY <1>1, <1>3, <1>4, <2>1, <2>2
  <2>5. OnLinux'
    BY <1>3, <1>4, <2>1, <2>3, <2>4 DEF Stands, OnLinux
  <2> QED BY <1>3, <1>4, <2>1, <2>5 DEF Stands, AtPath, OnWindows
<1>5. CASE platform = "windows"
  <2>1. Enum!Increment /\ arg' = arg
    BY <1>5 DEF Advance
  <2>2. command = "report"
    BY <1>5, ReportLabel
  <2>3. /\ place = "ready" /\ place' = "interface" /\ visited' = visited
        /\ interface' = interface
    BY <2>1, EnumEffects
  <2>4. Len(results) = Len(visited) - 1 /\ Len(visited) \in Nat /\ visited[Len(visited)] = p
    BY <1>5, <2>2, <2>3, VisitedSeq DEF Stands, OnWindows, EnumP!Inv
  <2>5. \A i \in 1 .. Len(results') : results'[i].path = visited[i]
    <3>1. ASSUME NEW i \in 1 .. Len(results') PROVE results'[i].path = visited[i]
      <4>1. i \in 1 .. Len(results) \/ i = Len(results) + 1
        BY <1>1, <1>2
      <4>2. CASE i \in 1 .. Len(results)
        BY <1>1, <1>5, <2>2, <4>2 DEF Stands, OnWindows
      <4>3. CASE i = Len(results) + 1
        BY <1>1, <2>4, <4>3
      <4> QED BY <4>1, <4>2, <4>3
    <3> QED BY <3>1
  <2>6. Len(results') = Len(visited')
    BY <1>1, <2>3, <2>4
  <2>7. OnWindows'
    BY <1>3, <1>5, <2>1, <2>2, <2>3, <2>5, <2>6 DEF Stands, OnWindows
  <2> QED BY <1>3, <1>5, <2>3, <2>7 DEF Stands, AtPath, OnLinux
<1> QED BY <1>4, <1>5 DEF Inputs

LEMMA EndOfIdentifyStands ==
    ASSUME Inputs, EnumP!Inv, DevP!Inv, Running, Control, Codes, Stands, EndOfIdentify
    PROVE  Stands'
<1>1. /\ at["first"] = "identify" /\ pc = "idle" /\ path \in Path
      /\ platform' = platform /\ path' = NoPath
  BY DEF EndOfIdentify, Destroyed, Stands, AtPath
<1>2. at'["first"] = "loop"
  BY GoEffect DEF EndOfIdentify, Control, Process, Label
<1>3. outcome \in Failure \cup {"ok"} /\ (outcome = "ok" => received.size >= Device!CommandSize)
  BY <1>1, EndedAs
<1>4. PICK served \in BOOLEAN : served <=> received.size >= Device!CommandSize
  OBVIOUS
<1>5. (received.size >= Device!CommandSize) = served
  BY <1>4
<1>6. Advance(path, outcome, served) /\ (outcome = "ok" => served)
  BY <1>3, <1>4, <1>5 DEF EndOfIdentify
<1>7. /\ platform = "linux" => arg <= Len(argv) /\ path = argv[arg]
      /\ platform = "windows" => path = device_path
  <2>1. platform = "windows" => command = "report"
    BY <1>1, ReportLabel DEF LoopLabel
  <2> QED BY <1>1, <2>1 DEF Stands, OnLinux, OnWindows
<1>8. at["first"] \in LoopLabel
  BY <1>1 DEF LoopLabel
<1> QED BY <1>1, <1>2, <1>3, <1>6, <1>7, <1>8, AdvanceStands

LEMMA NoEventSourceStands ==
    ASSUME Inputs, EnumP!Inv, Control, Codes, Stands, NoEventSource PROVE Stands'
<1>1. /\ at["first"] = "loop" /\ at["first"] \in LoopLabel /\ platform = "windows"
      /\ UNCHANGED <<deviceVars, path, at, exit>>
  BY DEF NoEventSource, LoopLabel
<1>2. PICK p \in Upcoming : Advance(p, "OSError", FALSE)
  BY DEF NoEventSource
<1>3. p \in Path /\ p = device_path
  BY <1>1, <1>2, UpcomingPath
<1>4. platform' = platform /\ path' = NoPath
  BY <1>1 DEF deviceVars, Stands, AtPath
<1>5. "OSError" \in Failure
  BY DEF Failure
<1> QED BY <1>1, <1>2, <1>3, <1>4, <1>5, AdvanceStands

LEMMA ComputerStands ==
    ASSUME Inputs, EnumP!Inv, Places, Control, Stands, NEW p \in Path,
           (\E d \in Devices : Plug(p, d)) \/ Unplug(p) \/ Install(p)
    PROVE  Stands'
<1>1. UNCHANGED <<path, arg, exit_ret, results, inputVars, processVars>>
  BY DEF Plug, Unplug, Install, loopVars
<1>2. UNCHANGED <<path, arg, exit_ret, results, command, argv, at, exit>>
  BY <1>1 DEF inputVars, processVars
<1>3. UNCHANGED <<platform, device_path, place, visited>>
  BY DEF Plug, Unplug, Install, Device!Plug, Device!Unplug, deviceVars, enumVars,
         Enum!Arrive, Enum!Remove, Enum!Progress
<1>4. path # NoPath <=> at["first"] \in {"call", "identify"}
  BY ParametersAssumption DEF Stands, AtPath, Enum!Parameters
<1>5. path # NoPath => present' = connected'[path]
  <2>1. CASE \E d \in Devices : Plug(p, d)
    BY <1>4, <2>1 DEF Plug, Device!Plug, deviceVars, Places, Stands, AtPath
  <2>2. CASE Unplug(p)
    BY <1>4, <2>2 DEF Unplug, Device!Unplug, deviceVars, Places, Stands, AtPath
  <2>3. CASE Install(p)
    BY <1>4, <2>3 DEF Install, deviceVars, loopVars, Stands, AtPath
  <2> QED BY <2>1, <2>2, <2>3
<1>6. OnLinux' /\ OnWindows'
  BY <1>2, <1>3 DEF Stands, OnLinux, OnWindows
<1>7. ASSUME platform = "windows", NEW r \in Path
      PROVE  connected'[r] = NoDevice <=> interface'[r] = "absent"
  <2>1. connected[r] = NoDevice <=> interface[r] = "absent"
    BY <1>7 DEF Stands, AtPath
  <2>2. interface \in [Path -> EnumP!State]
    BY DEF EnumP!Inv, EnumP!Shape
  <2>3. CASE \E d \in Devices : Plug(p, d)
    <3>1. PICK d \in Devices, s \in Enum!State \ {"absent"} : Plug(p, d) /\ Enum!Arrive(p, s)
      BY <1>7, <2>3 DEF Plug
    <3>2. d # NoDevice
      BY DeviceAssumption
    <3> QED BY <2>1, <2>2, <3>1, <3>2 DEF Plug, Enum!Arrive, Places
  <2>4. CASE Unplug(p)
    BY <1>7, <2>1, <2>2, <2>4 DEF Unplug, Enum!Remove, Places
  <2>5. CASE Install(p)
    BY <2>1, <2>2, <2>5 DEF Install, Enum!Progress, loopVars
  <2> QED BY <2>3, <2>4, <2>5
<1>8. AtPath'
  <2>1. path' = NoPath \/ path \in Path
    BY <1>2 DEF Stands, AtPath
  <2> QED BY <1>2, <1>3, <1>4, <1>5, <1>7, <2>1 DEF Stands, AtPath
<1> QED BY <1>6, <1>8 DEF Stands

LEMMA NextStands ==
    ASSUME Inputs, EnumP!Inv, Places, DevP!Inv, Running, Control, Codes, Stands, Next, Control'
    PROVE  Stands'
<1>1. CASE \/ Usage \/ LinuxMain \/ (\E q \in Process : Dispatch(q)) \/ Service
           \/ Elevation \/ Kill \/ Fails("first", "enumerate") \/ Return
  BY <1>1, NextQuiet
<1>2. CASE Enumerate
  BY <1>2, EnumerateStands
<1>3. CASE Iterate
  BY <1>3, IterateStands
<1>4. CASE MakeObject
  BY <1>4, MakeObjectStands
<1>5. CASE Call \/ Identify
  BY <1>5, CallStands
<1>6. CASE EndOfIdentify
  BY <1>6, EndOfIdentifyStands
<1>7. CASE NoEventSource
  BY <1>7, NoEventSourceStands
<1>8. CASE \E p \in Path : (\E d \in Devices : Plug(p, d)) \/ Unplug(p) \/ Install(p)
  BY <1>8, ComputerStands
<1> QED BY <1>1, <1>2, <1>3, <1>4, <1>5, <1>6, <1>7, <1>8 DEF Next, Program, Computer, Loop
-----------------------------------------------------------------------------
(* The inductive invariant.                                                *)

Inv ==
    /\ Inputs
    /\ EnumP!Inv /\ EnumP!Position
    /\ Places /\ DevP!Inv /\ Running
    /\ Control
    /\ Codes
    /\ Stands

LEMMA InitInv == ASSUME Init PROVE Inv
<1>1. EnumP!Inv /\ EnumP!Position
  BY EnumStarts
<1>2. DevP!Inv
  BY DeviceInit, DeviceStarts DEF Init
<1>3. Places /\ Running
  BY DEF Init, Places, Running, Process
<1> QED BY <1>1, <1>2, <1>3, InitInputs, InitControl, InitCodes, InitStands DEF Inv

LEMMA NextInv == ASSUME Inv, Next PROVE Inv'
<1>1. /\ Inputs /\ EnumP!Inv /\ EnumP!Position /\ Places /\ DevP!Inv /\ Running
      /\ Control /\ Codes /\ Stands /\ exit_ret \in ExitCodes
  BY DEF Inv, Codes
<1>2. Inputs' /\ Places' /\ EnumP!Inv' /\ EnumP!Position'
  BY <1>1, NextInputs, PlacesKept, EnumKept
<1>3. DevP!Inv' /\ Running'
  BY <1>1, NextObject
<1>4. Control'
  BY <1>1, NextControl
<1>5. at["first"] = "identify" => path \in Path
  BY <1>1 DEF Stands, AtPath
<1>6. Codes'
  BY <1>1, <1>5, NextCodes
<1>7. Stands'
  BY <1>1, <1>4, NextStands
<1> QED BY <1>2, <1>3, <1>4, <1>6, <1>7 DEF Inv

LEMMA StutterInv == ASSUME Inv, UNCHANGED vars PROVE Inv'
<1>1. UNCHANGED <<deviceVars, enumVars, loopVars, processVars, inputVars>>
  BY DEF vars
<1>2. UNCHANGED <<platform, command, argv, elevated, length, connected, exit_ret, results,
                  op, pc, outcome, at, exit>> /\ Quiet
  BY <1>1 DEF deviceVars, loopVars, processVars, inputVars, Quiet
<1>3. Inputs' /\ Places' /\ Running'
  BY <1>2 DEF Inv, Inputs, Places, Running
<1>4. EnumP!Inv' /\ EnumP!Position' /\ DevP!Inv'
  BY <1>1, EnumStutter, ObjectStutters DEF Inv
<1>5. Control' /\ Codes' /\ Stands'
  BY <1>1, <1>2, ControlStutter, CodesStutter, QuietElsewhere DEF Inv
<1> QED BY <1>3, <1>4, <1>5 DEF Inv

LEMMA StepInv == Inv /\ [Next]_vars => Inv'
BY NextInv, StutterInv

LEMMA ImpliesTypeOK == ASSUME Inv, GivenUp PROVE TypeOK
<1>1. Device!TypeOK /\ Enum!TypeOK
  BY EnumParameters, EnumP!TypeOfInv, EnumType, DeviceType DEF Inv, DevP!Inv
<1>2. argv \in Seq(Path) /\ argv \in Arguments /\ Len(argv) \in Nat
  BY ArgumentsAssumption DEF Inv, Inputs
<1>3. Len(results) \in Nat
  BY DEF Inv, Codes
<1>4. arg \in 1 .. Len(argv) + 1
  <2>1. CASE platform = "linux"
    BY <1>2, <1>3, <2>1 DEF Inv, Stands, OnLinux
  <2>2. CASE platform = "windows"
    BY <1>2, <2>2 DEF Inv, Stands, OnWindows
  <2> QED BY <2>1, <2>2 DEF Inv, Inputs
<1>5. returned \in 0 .. 2
  BY DEF Inv, Control
<1>6. path \in Path \cup {NoPath} /\ Coupled
  BY DEF Inv, Stands, AtPath, Coupled
<1> QED BY <1>1, <1>2, <1>4, <1>5, <1>6 DEF Inv, Inputs, Places, Control, Codes, GivenUp, TypeOK

\* The failures of the results, and the first of them.
LEMMA FirstOfFailures ==
    ASSUME Inv
    PROVE  LET failures == {i \in DOMAIN results : results[i].outcome # "ok"}
               first == CHOOSE i \in failures : \A j \in failures : i <= j
           IN  /\ failures = {} => exit_ret = 0
               /\ failures # {} => /\ exit_ret = CodeFor(results[first].outcome)
                                   /\ exit_ret # 0
<1> DEFINE failures == {i \in DOMAIN results : results[i].outcome # "ok"}
           Least(i) == \A j \in failures : i <= j
           first == CHOOSE i \in failures : Least(i)
<1>1. results \in Seq(Result) /\ DOMAIN results = 1 .. Len(results) /\ Len(results) \in Nat
  BY DEF Inv, Codes
<1>2. CASE exit_ret = 0 /\ \A i \in 1 .. Len(results) : Fine(i)
  BY <1>1, <1>2 DEF Fine
<1>3. ASSUME NEW i \in 1 .. Len(results), FirstFailure(i)
      PROVE  /\ failures # {} /\ exit_ret = CodeFor(results[first].outcome)
             /\ exit_ret # 0
  <2>1. i \in failures /\ failures \subseteq Nat
    BY <1>1, <1>3 DEF FirstFailure, Failure
  <2>2. Least(i)
    <3>1. ASSUME NEW j \in failures PROVE i <= j
      BY <1>1, <1>3, <2>1, <3>1 DEF FirstFailure, Fine
    <3> QED BY <3>1
  <2>3. first \in failures /\ Least(first)
    <3> HIDE DEF failures, Least
    <3> QED BY <2>1, <2>2
  <2>4. first = i
    <3> HIDE DEF first
    <3>1. first <= i /\ i <= first /\ first \in Nat /\ i \in Nat
      BY <2>1, <2>2, <2>3
    <3> HIDE DEF failures, Least
    <3> QED BY <3>1
  <2> QED BY <1>3, <2>1, <2>4 DEF FirstFailure
<1>4. (exit_ret = 0 /\ \A i \in 1 .. Len(results) : Fine(i))
      \/ \E i \in 1 .. Len(results) : FirstFailure(i)
  BY DEF Inv, Codes
<1> HIDE DEF first
<1>5. (failures = {} => exit_ret = 0)
      /\ (failures # {} => exit_ret = CodeFor(results[first].outcome) /\ exit_ret # 0)
  <2>1. CASE exit_ret = 0 /\ \A i \in 1 .. Len(results) : Fine(i)
    <3>1. failures = {}
      BY <1>1, <2>1 DEF Fine
    <3> QED BY <2>1, <3>1
  <2>2. CASE \E i \in 1 .. Len(results) : FirstFailure(i)
    BY <1>3, <2>2
  <2> QED BY <1>4, <2>1, <2>2
<1> QED BY <1>5 DEF first

LEMMA ImpliesFirstFailure == ASSUME Inv PROVE FirstFailureDecides
<1> DEFINE paths == [i \in DOMAIN results |-> results[i].path]
           failures == {i \in DOMAIN results : results[i].outcome # "ok"}
           first == CHOOSE i \in failures : \A j \in failures : i <= j
<1>1. results \in Seq(Result) /\ DOMAIN results = 1 .. Len(results) /\ Len(results) \in Nat
  BY DEF Inv, Codes
<1>2. /\ failures = {} => exit_ret = 0
      /\ failures # {} => exit_ret = CodeFor(results[first].outcome)
  BY FirstOfFailures
<1> HIDE DEF failures, first
<1>3. ASSUME platform = "linux", argv # <<>>, at["first"] = "exited"
      PROVE  /\ paths = argv
             /\ exit["first"] = IF failures = {} THEN 0 ELSE Sysexit[results[first].outcome]
  <2>1. /\ exit["first"] = exit_ret /\ Len(results) = Len(argv)
        /\ \A i \in 1 .. Len(results) : results[i].path = argv[i]
    BY <1>1, <1>3, ArgumentsAssumption DEF Inv, Inputs, Stands, OnLinux
  <2>2. argv \in Seq(Path)
    BY ArgumentsAssumption DEF Inv, Inputs
  <2>3. paths = argv
    BY <1>1, <2>1, <2>2
  <2> QED BY <1>2, <1>3, <2>1, <2>3 DEF CodeFor
<1>4. ASSUME place = "end", at["first"] = "exited"
      PROVE  /\ paths = visited
             /\ exit["first"] = IF failures = {} THEN 0 ELSE 1
  <2>1. platform = "windows" /\ command = "report"
    BY <1>4 DEF Inv, Inputs, Stands, OnLinux, OnWindows
  <2>2. /\ exit["first"] = exit_ret /\ Len(results) = Len(visited)
        /\ \A i \in 1 .. Len(results) : results[i].path = visited[i]
    BY <1>4, <2>1 DEF Inv, Stands, OnWindows
  <2>3. visited \in Seq(Path)
    BY VisitedSeq DEF Inv
  <2>4. paths = visited
    BY <1>1, <2>2, <2>3
  <2> QED BY <1>2, <2>1, <2>2, <2>4 DEF CodeFor
<1> QED BY <1>3, <1>4 DEF FirstFailureDecides, failures, first

LEMMA ImpliesServed == ASSUME Inv PROVE ZeroMeansServed
<1> SUFFICES ASSUME exit["first"] = 0, command \in {"identify", "report"}
             PROVE  /\ \A p \in {argv[i] : i \in DOMAIN argv} \cup due :
                           \E i \in DOMAIN results : results[i].path = p
                    /\ \A i \in DOMAIN results : results[i].served
  BY DEF ZeroMeansServed
<1>1. results \in Seq(Result) /\ DOMAIN results = 1 .. Len(results) /\ Len(results) \in Nat
  BY DEF Inv, Codes
<1>2. at["first"] = "exited"
  BY CodesAreNoNoExit DEF Inv, Control, Process
<1>3. argv \in Seq(Path) /\ DOMAIN argv = 1 .. Len(argv) /\ Len(argv) \in Nat
  BY ArgumentsAssumption DEF Inv, Inputs
<1>4. exit_ret = 0 => \A i \in DOMAIN results : results[i].served
  BY <1>1 DEF Inv, Codes, Fine, FirstFailure
<1>5. CASE command = "identify"
  <2>1. platform = "linux" /\ place = "none"
    BY <1>5 DEF Inv, Inputs, Stands, OnLinux
  <2>2. due = {}
    BY <2>1 DEF Inv, EnumP!Inv
  <2>3. /\ exit_ret = 0 /\ Len(results) = Len(argv)
        /\ \A i \in 1 .. Len(results) : results[i].path = argv[i]
    BY <1>1, <1>2, <1>3, <2>1 DEF Inv, Stands, OnLinux
  <2> QED BY <1>1, <1>3, <1>4, <2>2, <2>3
<1>6. CASE command = "report"
  <2>1. platform = "windows" /\ argv = <<>>
    BY <1>6 DEF Inv, Inputs
  <2>2. /\ place = "end" /\ exit_ret = 0 /\ Len(results) = Len(visited)
        /\ \A i \in 1 .. Len(results) : results[i].path = visited[i]
    BY <1>2, <1>6, <2>1 DEF Inv, Stands, OnWindows
  <2>3. ASSUME NEW p \in due PROVE \E i \in DOMAIN results : results[i].path = p
    <3>1. PICK i \in 1 .. Len(visited) : visited[i] = p
      BY <2>2 DEF Inv, EnumP!Inv
    <3> QED BY <1>1, <2>2, <3>1
  <2>4. {argv[i] : i \in DOMAIN argv} = {}
    BY <1>3, <2>1
  <2> QED BY <1>4, <2>2, <2>3, <2>4
<1> QED BY <1>5, <1>6

(***************************************************************************)
(* The theorems, for any number of paths, devices and arguments.           *)
(***************************************************************************)

LEMMA Invariant == Spec => []Inv
<1>1. Init => Inv
  BY InitInv
<1> QED BY <1>1, StepInv, PTL DEF Spec

LEMMA GivenUpInvariant == Spec => []GivenUp
<1>1. Init => GivenUp
  BY DEF Init, GivenUp
<1>2. ASSUME GivenUp, [Next]_vars PROVE GivenUp'
  <2>1. CASE \E q \in Process : FunctionReturns(q)
    BY <1>2, <2>1 DEF FunctionReturns, GivenUp, Elsewhere, inputVars
  <2>2. CASE UNCHANGED <<unfinished, command>>
    BY <1>2, <2>2 DEF GivenUp
  <2>3. CASE Elevation /\ ~(\E q \in Process : FunctionReturns(q))
    <3>1. UNCHANGED <<unfinished, command>>
      BY <2>3 DEF Elevation, IsElevated, FunctionThrows, Fails, Filename, Execute, Wait,
                  ExitCode, Elsewhere, inputVars
    <3> QED BY <2>2, <3>1
  <2>4. CASE Loop
    <3>1. UNCHANGED <<unfinished, command>>
      BY <2>4 DEF Loop, Enumerate, Fails, Iterate, MakeObject, Call, Identify, EndOfIdentify,
                  NoEventSource, Return, Advance, Elsewhere, inputVars, processVars
    <3> QED BY <2>2, <3>1
  <2>5. CASE Usage \/ LinuxMain \/ \E q \in Process : Dispatch(q)
    <3>1. UNCHANGED <<unfinished, command>>
      BY <2>5 DEF Usage, LinuxMain, Dispatch, inputVars
    <3> QED BY <2>2, <3>1
  <2>6. CASE Computer
    <3>1. UNCHANGED <<unfinished, command>>
      BY <2>6 DEF Computer, Plug, Unplug, Install, Service, Kill, Elsewhere, inputVars,
                  processVars
    <3> QED BY <2>2, <3>1
  <2>7. CASE UNCHANGED vars
    BY <2>2, <2>7 DEF vars, processVars, inputVars
  <2> QED BY <1>2, <2>1, <2>3, <2>4, <2>5, <2>6, <2>7 DEF Next, Program
<1> QED BY <1>1, <1>2, PTL DEF Spec

\* Every variable keeps its type; the object is always at the path that it was
\* made for, and the enumeration knows the devices that there are.
THEOREM TypeCorrect == Spec => []TypeOK
<1>1. Inv /\ GivenUp => TypeOK
  BY ImpliesTypeOK
<1> QED BY <1>1, Invariant, GivenUpInvariant, PTL

\* No failure is lost or masked by a later one, and none keeps a device from
\* being served.
THEOREM FirstFailureIsTheCode == Spec => []FirstFailureDecides
<1>1. Inv => FirstFailureDecides
  BY ImpliesFirstFailure
<1> QED BY <1>1, Invariant, PTL

\* Exit code 0 means that the whole command has been received by the device at
\* every argument, and by every device that was installed all the time and that no
\* failed call has hidden from the enumeration.
THEOREM ZeroIsServed == Spec => []ZeroMeansServed
<1>1. Inv => ZeroMeansServed
  BY ImpliesServed
<1> QED BY <1>1, Invariant, PTL

\* The exit code of an elevated command tells whether it has been carried out,
\* but for an install or uninstall that gives up, and it is not carried out twice.
THEOREM ExitTells == Spec => []ExitTellsWhetherDone
<1>1. Inv /\ GivenUp => ExitTellsWhetherDone
  BY ControlImplies DEF Inv
<1> QED BY <1>1, Invariant, GivenUpInvariant, PTL
-----------------------------------------------------------------------------
(* The programs use the enumeration and the objects as HIDEnumeration and  *)
(* HIDDevice say, so that what is proved there is true of the programs.    *)

LEMMA EnumStepOrStutter == ASSUME [Next]_vars PROVE [Enum!Next]_(Enum!vars)
<1>1. CASE EnumSteps
  BY <1>1 DEF EnumSteps, Enum!Next, Enum!Computer
<1>2. CASE UNCHANGED enumVars
  BY <1>2 DEF enumVars, Enum!vars
<1>3. UNCHANGED vars => UNCHANGED enumVars
  BY DEF vars
<1> QED BY <1>1, <1>2, <1>3, EnumKeeps

\* What the report command does to its enumeration, and what its devices do
\* meanwhile, is a behaviour of HIDEnumeration; all other commands stay where it
\* starts (windows/main.cc lines 94-121).
THEOREM ImplementsEnumeration == Spec => Enum!Spec
<1>1. Init => Enum!Init
  BY DEF Init
<1>2. [Next]_vars => [Enum!Next]_(Enum!vars)
  BY EnumStepOrStutter
<1> QED BY <1>1, <1>2, PTL DEF Spec, Enum!Spec

\* An object on which nothing has been called yet.
Fresh ==
    /\ object = Device!NewObject
    /\ op = "none"
    /\ pc = "idle"
    /\ outcome = "none"
    /\ received = Device!NoWrite

\* There is an object only between its constructor and its destructor.
Alone ==
    /\ at["first"] # "identify" => Fresh
    /\ at["first"] \notin {"call", "identify"} => ~gone /\ present = NoDevice

\* What may happen to an object: identify() is called, once.
ObjectStep ==
    \/ Fresh /\ Device!CallIdentify
    \/ Device!Proceed
    \/ Device!Unplug
    \/ \E d \in Devices : Device!Plug(d)
    \/ Device!Init'

LEMMA InitAlone == ASSUME Init PROVE Alone
BY DEF Init, Device!Init, Alone, Fresh, Process

LEMMA AloneStays ==
    ASSUME Alone, UNCHANGED deviceVars,
           at'["first"] = at["first"] \/ ({at["first"], at'["first"]} \cap {"call", "identify"} = {})
    PROVE  Alone'
<1>1. UNCHANGED <<platform, present, gone, object, op, pc, outcome, received>>
  BY DEF deviceVars
<1>2. Fresh' <=> Fresh
  BY <1>1 DEF Fresh, Device!NewObject, Device!NoWrite
<1> QED BY <1>1, <1>2 DEF Alone

LEMMA MakeObjectAlone ==
    ASSUME Inv, Alone, MakeObject
    PROVE  Alone' /\ Device!Init'
<1>1. at["first"] = "loop" /\ at'["first"] = "call"
  BY GoEffect DEF MakeObject, Inv, Control, Process, Label
<1>2. Fresh /\ UNCHANGED <<platform, object, op, pc, outcome, received>> /\ gone' = FALSE
  BY <1>1 DEF Alone, MakeObject
<1>3. present' \in Devices \cup {NoDevice}
  <2>1. PICK p \in Upcoming : present' = connected[p]
    BY DEF MakeObject
  <2>2. p \in Path
    BY UpcomingPath DEF Inv
  <2> QED BY <2>1, <2>2 DEF Inv, Places
<1>4. platform \in Platforms
  BY DEF Inv, DevP!Inv, DevP!TypeOK
<1>5. Fresh'
  BY <1>2 DEF Fresh, Device!NewObject, Device!NoWrite
<1>6. Device!Init'
  BY <1>2, <1>3, <1>4 DEF Device!Init, Fresh, Device!NewObject, Device!NoWrite
<1> QED BY <1>1, <1>5, <1>6 DEF Alone

LEMMA EndOfIdentifyAlone ==
    ASSUME Inv, EndOfIdentify
    PROVE  Alone' /\ Device!Init'
<1>1. at'["first"] = "loop"
  BY GoEffect DEF EndOfIdentify, Inv, Control, Process, Label
<1>2. platform' \in Platforms /\ Destroyed
  BY DEF Inv, DevP!Inv, DevP!TypeOK, EndOfIdentify, Destroyed
<1> QED BY <1>1, <1>2 DEF Destroyed, Device!Init, Alone, Fresh, Device!NewObject, Device!NoWrite

LEMMA NextAlone ==
    ASSUME Inv, Alone, Next
    PROVE  Alone' /\ (ObjectStep \/ UNCHANGED deviceVars)
<1>1. CASE MakeObject \/ EndOfIdentify
  BY <1>1, MakeObjectAlone, EndOfIdentifyAlone DEF ObjectStep
<1>2. CASE Call
  <2>1. at["first"] = "call" /\ at'["first"] = "identify" /\ Device!CallIdentify
    BY <1>2, GoEffect DEF Call, Inv, Control, Process, Label
  <2> QED BY <2>1 DEF Alone, ObjectStep
<1>3. CASE Identify
  BY <1>3 DEF Identify, processVars, Alone, ObjectStep
<1>4. ASSUME NEW p \in Path, (\E d \in Devices : Plug(p, d)) \/ Unplug(p)
      PROVE  Alone' /\ (ObjectStep \/ UNCHANGED deviceVars)
  <2>1. at' = at
    BY <1>4 DEF Plug, Unplug, processVars
  <2>2. CASE UNCHANGED deviceVars
    BY <2>1, <2>2, AloneStays
  <2>3. CASE p = path /\ ((\E d \in Devices : Device!Plug(d)) \/ Device!Unplug)
    <3>1. at["first"] \in {"call", "identify"}
      BY <2>3, ParametersAssumption DEF Inv, Stands, AtPath, Enum!Parameters
    <3>2. UNCHANGED <<object, op, pc, outcome, received>>
      BY <2>3 DEF Device!Plug, Device!Unplug
    <3>3. Fresh => Fresh'
      BY <3>2 DEF Fresh, Device!NewObject, Device!NoWrite
    <3> QED BY <2>1, <2>3, <3>1, <3>3 DEF Alone, ObjectStep
  <2> QED BY <1>4, <2>2, <2>3 DEF Plug, Unplug
<1>5. CASE Iterate \/ NoEventSource \/ \E p \in Path : Install(p)
  BY <1>5, AloneStays DEF Iterate, NoEventSource, Install, processVars
<1>6. CASE \/ Usage \/ LinuxMain \/ (\E q \in Process : Dispatch(q)) \/ Service
           \/ Elevation \/ Kill \/ Enumerate \/ Fails("first", "enumerate") \/ Return
  <2>1. UNCHANGED deviceVars
    BY <1>6 DEF Usage, LinuxMain, Dispatch, Service, Kill, Elevation, IsElevated,
       FunctionReturns, FunctionThrows, Fails, Filename, Execute, Wait, ExitCode, Elsewhere,
       Enumerate, Return
  <2>2. \/ at'["first"] = at["first"]
        \/ at["first"] \notin {"call", "identify"} /\ at'["first"] \notin {"call", "identify"}
    <3>1. /\ at \in [Process -> Label]
          /\ \A q \in Process, l \in Label \ {"call", "identify"} : Go(q, l) =>
                 at'["first"] = at["first"] \/ at'["first"] \notin {"call", "identify"}
          /\ \A q \in Process : \A c : Exit(q, c) =>
                 at'["first"] = at["first"] \/ at'["first"] \notin {"call", "identify"}
      BY DEF Inv, Control, Go, Exit, Process
    <3>2. \A q \in Process, l \in Label : Go(q, l) =>
              at'["first"] = at["first"] \/ q = "first"
      BY <3>1 DEF Go, Process
    <3>3. \A q \in Process : \A c : Exit(q, c) =>
              at'["first"] = at["first"] \/ q = "first"
      BY <3>1 DEF Exit, Process
    <3> QED BY <1>6, <3>1, <3>2, <3>3
            DEF Usage, LinuxMain, Dispatch, Service, Kill, Elevation, IsElevated,
                FunctionReturns, FunctionThrows, Fails, Filename, Execute, Wait, ExitCode,
                Enumerate, Return, Throw, Label, Process
  <2> QED BY <2>1, <2>2, AloneStays
<1> QED BY <1>1, <1>2, <1>3, <1>4, <1>5, <1>6 DEF Next, Program, Computer, Loop

LEMMA InvAlone == Spec => [](Inv /\ Alone)
<1>1. Init => Inv /\ Alone
  BY InitInv, InitAlone
<1>2. ASSUME Inv, Alone, UNCHANGED vars PROVE Alone'
  <2>1. UNCHANGED deviceVars /\ at' = at
    BY <1>2 DEF vars, processVars
  <2> QED BY <1>2, <2>1, AloneStays
<1>3. Inv /\ Alone /\ [Next]_vars => Inv' /\ Alone'
  BY <1>2, StepInv, NextAlone
<1> QED BY <1>1, <1>3, PTL DEF Spec

\* Each object is made for a path, identify() is called on it once, and it is
\* destroyed: what HIDDevice allows beyond that, to call an object again after a
\* failure, no program does (linux/main.cc lines 34-60, windows/main.cc lines
\* 104-119).
THEOREM ObjectsAreUsedOnce == Spec => [][ObjectStep]_deviceVars
<1>1. Inv /\ Alone /\ [Next]_vars => [ObjectStep]_deviceVars
  BY NextAlone DEF vars
<1> QED BY <1>1, InvAlone, PTL DEF Spec

\* What is known of the device once its information has been read.
Known ==
    \/ pc \in {"reports", "parsing", "allowed", "usage", "send", "write"}
    \/ outcome \notin {"none", "UnavailableDevice", "OSError"}
    => /\ object.handle \in Devices
       /\ object.device_info = Device!InfoOf(object.handle)

LEMMA KnownKept ==
    ASSUME Known, pc \in {"reports", "parsing", "allowed", "usage", "send", "write"},
           UNCHANGED platform,
           object'.handle = object.handle, object'.device_info = object.device_info
    PROVE  Known'
BY DEF Known, Device!InfoOf

LEMMA ProceedKnown ==
    ASSUME Inv, Known, op = "identify", Device!Proceed
    PROVE  Known'
<1>1. /\ object \in [handle : Devices \cup {NoDevice}, device_info : Device!Info \cup {Indeterminate},
                     reports : Seq(Device!Report), report_count : 0 .. Modulus - 1,
                     report_length : Nat]
      /\ pc \in {"info", "reports"} => object.handle \in Devices
      /\ outcome = "none" \/ pc = "idle"
  <2>1. Device!TypeOK
    BY DeviceType DEF Inv, DevP!Inv
  <2> QED BY <2>1 DEF Device!TypeOK, Inv, DevP!Inv, DevP!Where
<1>2. CASE Device!OpenHandle
  BY <1>1, <1>2 DEF Device!OpenHandle, Device!Throw, Known
<1>3. CASE Device!DeviceInfo
  <2> DEFINE info == Device!InfoOf(object.handle)
             o == [object EXCEPT !.device_info = info]
  <2>1. pc = "info" /\ object.handle \in Devices
    BY <1>1, <1>3 DEF Device!DeviceInfo
  <2>2. o.handle = object.handle /\ o.device_info = info
    BY <1>1
  <2>3. CASE Device!Throw("OSError", object)
    BY <2>3 DEF Device!Throw, Known
  <2>4. CASE object' = o /\ UNCHANGED platform
    BY <2>1, <2>2, <2>4 DEF Known, Device!InfoOf
  <2>5. Device!Throw("DisallowedUSBDevice", o) => object' = o /\ UNCHANGED platform
    BY DEF Device!Throw
  <2> QED BY <1>3, <2>3, <2>4, <2>5 DEF Device!DeviceInfo
<1>4. CASE Device!LinuxReports
  BY <1>1, <1>4, KnownKept DEF Device!LinuxReports, Device!Throw, Device!Opened
<1>5. CASE Device!WindowsReports
  BY <1>1, <1>5, KnownKept DEF Device!WindowsReports, Device!Throw, Device!Opened
<1>6. CASE Device!CheckAllowed \/ Device!SendReport
  BY <1>1, <1>6, KnownKept DEF Device!CheckAllowed, Device!SendReport, Device!Throw
<1>7. CASE Device!CheckReports
  BY <1>1, <1>7, KnownKept DEF Device!CheckReports, Device!Throw
<1>8. CASE Device!LinuxWrite \/ Device!WindowsWrite
  BY <1>1, <1>8, KnownKept DEF Device!LinuxWrite, Device!WindowsWrite, Device!WriteFails,
                               Device!Written, Device!Throw
<1> QED BY <1>2, <1>3, <1>4, <1>5, <1>6, <1>7, <1>8 DEF Device!Proceed

LEMMA FreshKnown == Fresh => Known
BY DEF Fresh, Known

LEMMA ObjectStepKnown ==
    ASSUME Inv, Alone, Known, [Next]_vars
    PROVE  Known'
<1>1. CASE Fresh /\ Device!CallIdentify
  BY <1>1 DEF Fresh, Device!CallIdentify, Device!Call, Device!NewObject, Known
<1>2. CASE Device!Proceed
  <2>1. pc # "idle"
    BY <1>2, DeviceStep, DeviceParameters, DevP!OperationStarted DEF Inv
  <2>2. op = "identify"
    BY <2>1 DEF Alone, Fresh, Inv, Running
  <2> QED BY <1>2, <2>2, ProceedKnown
<1>3. CASE UNCHANGED <<platform, object, pc, outcome>>
  BY <1>3 DEF Known, Device!InfoOf
<1>4. CASE Device!Unplug \/ \E d \in Devices : Device!Plug(d)
  BY <1>3, <1>4 DEF Device!Unplug, Device!Plug
<1>5. CASE Device!Init'
  BY <1>5 DEF Device!Init, Known
<1>6. CASE UNCHANGED deviceVars \/ UNCHANGED vars
  BY <1>3, <1>6 DEF deviceVars, vars
<1> QED BY <1>1, <1>2, <1>4, <1>5, <1>6, NextAlone DEF ObjectStep

LEMMA InvKnown == Spec => [](Inv /\ Alone /\ Known)
<1>1. Init => Known
  BY DEF Init, Device!Init, Known
<1>2. Inv /\ Alone /\ Known /\ [Next]_vars => Known'
  BY ObjectStepKnown
<1> QED BY <1>1, <1>2, InvAlone, PTL DEF Spec

\* The device information that the constructors leave uninitialized never
\* decides about a device: it has been read from the device behind the handle
\* before it is looked at, and before anything but the opening and the reading
\* can fail (hid-device.cc lines 42-69, hid-device.h).
THEOREM InfoIsRead == Spec => []Known
BY InvKnown, PTL

\* A device has been turned away rightly.
TurnedAway ==
    (pc = "idle" /\ outcome = "DisallowedUSBDevice") =>
        \/ ~Device!IsAllowed(object.handle)
        \/ platform = "windows" /\ object.handle.interface # 1

\* A device that a program turns away as not allowed is not on the list or, on
\* Windows, another interface of the keyboard, without the exceptions that
\* ListedDeviceIsServed has to make for an object that is used again.
THEOREM OnlyUnlistedAreTurnedAway == Spec => []TurnedAway
<1>1. ASSUME Inv, Alone, Known PROVE TurnedAway
  <2> SUFFICES ASSUME pc = "idle", outcome = "DisallowedUSBDevice"
               PROVE  \/ ~Device!IsAllowed(object.handle)
                      \/ platform = "windows" /\ object.handle.interface # 1
    BY DEF TurnedAway
  <2>1. object.handle \in Devices /\ object.device_info = Device!InfoOf(object.handle)
    BY <1>1 DEF Known
  <2>2. op = "identify"
    BY <1>1 DEF Alone, Fresh, Inv, Running
  <2> DEFINE v == object.handle.vendor
             i == object.handle.interface
  <2>3. /\ object.device_info.vendor = v
        /\ object.device_info.product = object.handle.product
        /\ object.device_info.interface = IF platform = "linux" THEN -1 ELSE i
    BY <2>1 DEF Device!InfoOf
  <2>4. object.device_info # Indeterminate
    BY <2>1, DeviceParameters, DevP!InfoType, DeviceAssumption
       DEF Device!InfoOf, DevP!InfoOf, Device!Info, DevP!Info
  <2>5. CASE object.device_info = DevP!NullInfo
    <3>1. v = 0
      BY <2>3, <2>5 DEF DevP!NullInfo
    <3> QED BY <3>1 DEF Device!IsAllowed
  <2>6. CASE object.device_info # DevP!NullInfo
    <3>1. \/ ~DevP!IsAllowed(object.device_info)
          \/ platform = "windows" /\ object.device_info.interface # 1
      BY <1>1, <2>2, <2>4, <2>6 DEF Inv, DevP!Inv, DevP!ListedDeviceIsServed
    <3>2. DevP!IsAllowed(object.device_info) <=> Device!IsAllowed(object.handle)
      BY <2>3 DEF DevP!IsAllowed, Device!IsAllowed
    <3> QED BY <2>3, <3>1, <3>2
  <2> QED BY <2>5, <2>6
<1> QED BY <1>1, InvKnown, PTL

\* What HIDDevice promises of an object.
ObjectKeepsItsPromises ==
    /\ Device!SentOnlyToQMK
    /\ Device!SuccessIsDelivered
    /\ Device!CacheIsOfHandle

\* It holds of the objects of the programs, while their devices come and go:
\* nothing is written to a device that is not on the list, an identify() that
\* returns has delivered the whole command, and the reports are those of the
\* device behind the handle.
THEOREM ProgramsKeepThePromises == Spec => []ObjectKeepsItsPromises
<1>1. DevP!SentOnlyToQMK => Device!SentOnlyToQMK
  <2>1. DevP!IsAllowed(received.device) <=> Device!IsAllowed(received.device)
    BY DEF DevP!IsAllowed, Device!IsAllowed
  <2> QED BY <2>1, Zenon DEF DevP!SentOnlyToQMK, Device!SentOnlyToQMK
<1>2. DevP!SuccessIsDelivered => Device!SuccessIsDelivered
  BY DEF DevP!SuccessIsDelivered, Device!SuccessIsDelivered, DevP!CommandSize, Device!CommandSize
<1>3. DevP!CacheIsOfHandle => Device!CacheIsOfHandle
  BY DEF DevP!CacheIsOfHandle, Device!CacheIsOfHandle, DevP!InfoOf, Device!InfoOf,
         DevP!ReportOf, Device!ReportOf, DevP!CountOf, Device!CountOf
<1>4. Inv => ObjectKeepsItsPromises
  BY <1>1, <1>2, <1>3 DEF Inv, DevP!Inv, ObjectKeepsItsPromises
<1> QED BY <1>4, Invariant, PTL
-----------------------------------------------------------------------------
(* Why a program ends: each step of its processes brings them closer to    *)
(* their ends, and nothing that happens to the devices meanwhile takes     *)
(* them back.                                                              *)

FirstStage(label) ==
    CASE label = "start" -> 20
      [] label = "elevation" -> 19
      [] label = "filename" -> 18
      [] label = "execute" -> 17
      [] label = "wait" -> 8
      [] label = "code" -> 7
      [] label = "enumerate" -> 6
      [] label \in LoopLabel -> 5
      [] label \in {"function", "service"} -> 1
      [] label \in {"none", "exited"} -> 0

SecondStage(label) ==
    CASE label = "start" -> 4
      [] label = "elevation" -> 3
      [] label = "function" -> 2
      [] OTHER -> 0

Stage == FirstStage(at["first"]) + SecondStage(at["elevated"])

\* The paths that the loop still has before it.
Left ==
    IF at["first"] \notin LoopLabel THEN 0
    ELSE IF platform = "linux" THEN Len(argv) + 1 - arg
    ELSE IF place = "end" THEN 0
    ELSE Len(devinfo) + 1 - di_idx

PlaceTurn(where) ==
    CASE where = "interface" -> 14
      [] where = "detail" -> 13
      [] where = "size" -> 12
      [] where = "state" -> 11
      [] where \in {"ready", "none"} -> 10
      [] where = "end" -> 0

ObjectTurn(label) ==
    CASE label = "handle" -> 8
      [] label = "info" -> 7
      [] label = "reports" -> 6
      [] label = "allowed" -> 5
      [] label = "usage" -> 4
      [] label = "send" -> 3
      [] label = "write" -> 2
      [] label \in {"parsing", "idle"} -> 1

\* Where it is with this one.
Turn == IF at["first"] = "identify" THEN ObjectTurn(pc)
        ELSE IF at["first"] = "call" THEN 9
        ELSE PlaceTurn(place)

Closer ==
    \/ Stage' < Stage
    \/ Stage' = Stage /\ Left' < Left
    \/ Stage' = Stage /\ Left' = Left /\ Turn' < Turn

NoFarther == Closer \/ UNCHANGED <<Stage, Left, Turn>>

LEMMA Stages ==
    ASSUME NEW label \in Label
    PROVE  FirstStage(label) \in Nat /\ SecondStage(label) \in Nat
BY DEF Label, FirstStage, SecondStage, LoopLabel

LEMMA Turns ==
    /\ \A where \in {"none", "interface", "detail", "size", "state", "ready", "end"} :
           PlaceTurn(where) \in Nat
    /\ \A label \in Device!Label : ObjectTurn(label) \in 1 .. 8
BY DEF PlaceTurn, ObjectTurn, Device!Label

LEMMA LoopFacts ==
    ASSUME Inv, at["first"] \in LoopLabel
    PROVE  /\ platform = "linux" => /\ arg \in Nat /\ Len(argv) \in Nat /\ arg <= Len(argv) + 1
                                    /\ place = "none"
           /\ platform = "windows" => /\ di_idx \in Nat /\ Len(devinfo) \in Nat
                                      /\ place # "none"
                                      /\ place # "end" => di_idx <= Len(devinfo)
           /\ Left \in Nat
<1>1. /\ argv \in Seq(Path) /\ platform \in {"linux", "windows"}
      /\ platform = "windows" => command = "report"
  <2>1. argv \in Seq(Path) /\ platform \in {"linux", "windows"}
    BY ArgumentsAssumption DEF Inv, Inputs
  <2>2. platform = "windows" => command = "report"
    <3>1. command \in Elevating \cup {"report", "identify", "service", "usage"}
      BY DEF Inv, Inputs, Command, WindowsCommand
    <3>2. at["first"] \in LabelsOf /\ (platform = "linux" <=> command = "identify")
      BY DEF Inv, Control, Inputs
    <3> QED BY <3>1, <3>2, <2>1 DEF LabelsOf, LoopLabel, Elevating
  <2> QED BY <2>1, <2>2
<1>2. /\ platform = "linux" => arg \in Nat /\ arg <= Len(argv) + 1 /\ place = "none"
      /\ platform = "windows" => place # "none"
  BY <1>1 DEF Inv, Stands, OnLinux, OnWindows, LoopLabel
<1>3. /\ di_idx \in Nat /\ devinfo \in Seq(Path)
      /\ place \notin {"none", "end"} => di_idx <= Len(devinfo)
  BY DEF Inv, EnumP!Inv, EnumP!Shape, EnumP!Position
<1>4. Len(argv) \in Nat /\ Len(devinfo) \in Nat
  BY <1>1, <1>3
<1> QED BY <1>1, <1>2, <1>3, <1>4 DEF Left

LEMMA DistancesType == ASSUME Inv PROVE Stage \in Nat /\ Left \in Nat /\ Turn \in Nat
<1>1. at["first"] \in Label /\ at["elevated"] \in Label
  BY DEF Inv, Control, Process
<1>2. Left \in Nat
  BY LoopFacts DEF Left
<1>3. pc \in Device!Label
  BY DEF Inv, DevP!Inv, DevP!TypeOK, DevP!Label, Device!Label
<1>4. place \in {"none", "interface", "detail", "size", "state", "ready", "end"}
  BY DEF Inv, EnumP!Inv, EnumP!Shape
<1> QED BY <1>1, <1>2, <1>3, <1>4, Stages, Turns DEF Stage, Turn

\* The steps of the processes outside of the loop.
LEMMA MovesCloser ==
    ASSUME Inv, NEW q \in Process, NEW l \in Label, at' = [at EXCEPT ![q] = l],
           q = "first" => FirstStage(l) < FirstStage(at[q]),
           q = "elevated" => SecondStage(l) < SecondStage(at[q])
    PROVE  Closer
<1>1. /\ at["first"] \in Label /\ at["elevated"] \in Label /\ at \in [Process -> Label]
      /\ "first" \in Process /\ "elevated" \in Process /\ "first" # "elevated"
  BY DEF Inv, Control, Process
<1>2. PICK f \in Nat, e \in Nat : FirstStage(at["first"]) = f /\ SecondStage(at["elevated"]) = e
  BY <1>1, Stages
<1>3. PICK m \in Nat, n \in Nat : FirstStage(l) = m /\ SecondStage(l) = n
  BY Stages
<1>4. CASE q = "first"
  <2>1. at'["first"] = l /\ at'["elevated"] = at["elevated"]
    BY <1>1, <1>4
  <2>2. Stage' = m + e /\ Stage = f + e /\ m < f
    BY <1>2, <1>3, <1>4, <2>1 DEF Stage
  <2> QED BY <2>2 DEF Closer
<1>5. CASE q = "elevated"
  <2>1. at'["elevated"] = l /\ at'["first"] = at["first"]
    BY <1>1, <1>5
  <2>2. Stage' = f + n /\ Stage = f + e /\ n < e
    BY <1>2, <1>3, <1>5, <2>1 DEF Stage
  <2> QED BY <2>2 DEF Closer
<1> QED BY <1>4, <1>5 DEF Process

LEMMA ExitsCloser ==
    ASSUME Inv, NEW q \in Process, NEW code, Exit(q, code), at[q] \notin {"none", "exited"}
    PROVE  Closer
<1>1. "exited" \in Label /\ at["first"] \in Label
      /\ at["elevated"] \in {"none", "start", "elevation", "function", "exited"}
  BY DEF Label, Inv, Control, Process
<1>2. q = "first" => FirstStage("exited") < FirstStage(at[q])
  BY <1>1 DEF FirstStage, LoopLabel, Label
<1>3. q = "elevated" => SecondStage("exited") < SecondStage(at[q])
  BY <1>1 DEF SecondStage
<1> QED BY <1>1, <1>2, <1>3, MovesCloser DEF Exit

LEMMA GoesCloser ==
    ASSUME Inv, NEW q \in Process, NEW l \in Label, Go(q, l),
           \/ at[q] = "start" /\ l \in {"elevation", "enumerate", "service", "loop"}
              /\ (q = "elevated" => l = "elevation")
           \/ at[q] = "elevation" /\ l \in {"filename", "function"}
              /\ (q = "elevated" => l = "function")
           \/ q = "first" /\ \/ at[q] = "filename" /\ l = "execute"
                             \/ at[q] = "wait" /\ l = "code"
                             \/ at[q] = "enumerate" /\ l = "loop"
    PROVE  Closer
<1>1. q = "first" => FirstStage(l) < FirstStage(at[q])
  BY DEF FirstStage, LoopLabel
<1>2. q = "elevated" => SecondStage(l) < SecondStage(at[q])
  BY DEF SecondStage
<1> QED BY <1>1, <1>2, MovesCloser DEF Go

LEMMA ProcessCloser ==
    ASSUME Inv, Usage \/ LinuxMain \/ (\E q \in Process : Dispatch(q)) \/ Elevation
    PROVE  Closer
<1>1. "first" \in Process /\ {"elevation", "enumerate", "service", "loop", "filename",
                              "function", "execute", "code"} \subseteq Label
  BY DEF Process, Label
<1>2. CASE Usage
  BY <1>1, <1>2, ExitsCloser DEF Usage
<1>3. CASE LinuxMain
  BY <1>1, <1>3, GoesCloser DEF LinuxMain
<1>4. ASSUME NEW q \in Process, Dispatch(q) PROVE Closer
  <2>1. q = "elevated" => command \in Elevating
    BY <1>4 DEF Inv, Control, Dispatch
  <2> QED BY <1>1, <1>4, <2>1, GoesCloser DEF Dispatch, Elevating
<1>5. ASSUME NEW q \in Process, IsElevated(q) PROVE Closer
  <2>1. q = "elevated" => Go(q, "function")
    BY <1>5 DEF IsElevated
  <2>2. Go(q, "function") \/ Go(q, "filename")
    BY <1>5 DEF IsElevated
  <2>3. at[q] = "elevation"
    BY <1>5 DEF IsElevated
  <2>4. CASE Go(q, "function")
    BY <1>1, <2>3, <2>4, GoesCloser
  <2>5. CASE q = "first" /\ Go(q, "filename")
    BY <1>1, <2>3, <2>5, GoesCloser
  <2> QED BY <2>1, <2>2, <2>4, <2>5 DEF Process
<1>6. ASSUME NEW q \in Process, FunctionReturns(q) \/ FunctionThrows(q) PROVE Closer
  BY <1>6, ExitsCloser DEF FunctionReturns, FunctionThrows, Throw
<1>7. ASSUME NEW q \in Process,
             NEW label \in {"elevation", "filename", "execute", "wait", "code"}, Fails(q, label)
      PROVE  Closer
  BY <1>7, ExitsCloser DEF Fails, Throw
<1>8. CASE Filename
  BY <1>1, <1>8, ExitsCloser, GoesCloser DEF Filename, Throw
<1>9. CASE Execute
  <2>1. at \in [Process -> Label] /\ at["first"] = "execute" /\ at["elevated"] = "none"
    BY <1>9 DEF Inv, Control, Execute
  <2>2. at'["first"] \in {"wait", "exited"} /\ at'["elevated"] = "start"
    BY <1>9, <2>1 DEF Execute, Process
  <2>3. Stage' < Stage
    BY <2>1, <2>2 DEF Stage, FirstStage, SecondStage, LoopLabel
  <2> QED BY <2>3 DEF Closer
<1>10. CASE Wait
  BY <1>1, <1>10, GoesCloser DEF Wait
<1>11. CASE ExitCode
  BY <1>1, <1>11, ExitsCloser DEF ExitCode
<1>12. CASE Elevation
  BY <1>1, <1>5, <1>6, <1>7, <1>8, <1>9, <1>10, <1>11, <1>12 DEF Elevation
<1> QED BY <1>2, <1>3, <1>4, <1>12

\* The steps within the loop.
LEMMA LoopStays ==
    ASSUME at["first"] \in LoopLabel, at'["first"] \in LoopLabel,
           at'["elevated"] = at["elevated"]
    PROVE  Stage' = Stage
<1>1. \A l \in LoopLabel : FirstStage(l) = 5
  BY DEF FirstStage, LoopLabel
<1> QED BY <1>1 DEF Stage

\* The next path: the index goes on.
LEMMA NextPathCloser ==
    ASSUME Inv, at["first"] \in LoopLabel, at'["first"] \in LoopLabel,
           at'["elevated"] = at["elevated"], UNCHANGED <<platform, argv>>,
           \/ platform = "linux" /\ arg' = arg + 1
           \/ /\ platform = "windows" /\ place # "end" /\ place' # "end"
              /\ devinfo' = devinfo /\ di_idx' = di_idx + 1
    PROVE  Closer
<1>1. Stage' = Stage
  BY LoopStays
<1>2. Left' < Left
  BY LoopFacts DEF Left
<1> QED BY <1>1, <1>2 DEF Closer

\* The same path, a step further.
LEMMA TurnCloser ==
    ASSUME at["first"] \in LoopLabel, at'["first"] \in LoopLabel,
           at'["elevated"] = at["elevated"],
           UNCHANGED <<platform, argv, arg, devinfo, di_idx>>,
           place' = place \/ "end" \notin {place, place'},
           Turn' < Turn
    PROVE  Closer
<1>1. Stage' = Stage
  BY LoopStays
<1>2. Left' = Left
  BY DEF Left
<1> QED BY <1>1, <1>2 DEF Closer

LEMMA IterateCloser == ASSUME Inv, Iterate PROVE Closer
<1>1. /\ at' = at /\ at["first"] = "loop" /\ platform = "windows"
      /\ UNCHANGED <<platform, argv, arg>>
  BY DEF Iterate, processVars, inputVars, loopVars, deviceVars
<1>2. at["first"] \in LoopLabel
  BY <1>1 DEF LoopLabel
<1>3. CASE Enum!Interface \/ Enum!Detail \/ Enum!Size \/ Enum!Installed
  <2>1. /\ place # "end" /\ place' # "end" /\ UNCHANGED <<devinfo, di_idx>>
        /\ PlaceTurn(place') < PlaceTurn(place)
    BY <1>3 DEF Enum!Interface, Enum!Detail, Enum!Size, Enum!Installed, PlaceTurn
  <2>2. Turn' < Turn
    BY <1>1, <2>1 DEF Turn
  <2> QED BY <1>1, <1>2, <2>1, <2>2, TurnCloser
<1>4. CASE Enum!NoInterface
  <2>1. place = "interface" /\ place' = "end"
    BY <1>4 DEF Enum!NoInterface
  <2>2. Left' = 0 /\ Left > 0
    BY <1>1, <1>2, <2>1, LoopFacts DEF Left
  <2> QED BY <1>1, <1>2, <2>2, LoopStays DEF Closer
<1>5. CASE Enum!CallFails \/ Enum!NoState \/ Enum!NotInstalled
  <2>1. /\ place # "end" /\ place' = "interface"
        /\ devinfo' = devinfo /\ di_idx' = di_idx + 1
    BY <1>5 DEF Enum!CallFails, Enum!NoState, Enum!NotInstalled, Enum!Continue
  <2> QED BY <1>1, <1>2, <2>1, NextPathCloser
<1> QED BY <1>3, <1>4, <1>5 DEF Iterate, Enum!Iterate

LEMMA ProceedTurns ==
    ASSUME Device!Proceed, pc # "idle"
    PROVE  ObjectTurn(pc') < ObjectTurn(pc)
<1> USE DEF ObjectTurn, Device!Throw
<1>1. CASE Device!OpenHandle \/ Device!DeviceInfo
  BY <1>1 DEF Device!OpenHandle, Device!DeviceInfo
<1>2. CASE Device!LinuxReports \/ Device!WindowsReports
  BY <1>2 DEF Device!LinuxReports, Device!WindowsReports, Device!Opened
<1>3. CASE Device!CheckAllowed
  BY <1>3 DEF Device!CheckAllowed
<1>4. CASE Device!CheckReports
  BY <1>4 DEF Device!CheckReports
<1>5. CASE Device!SendReport
  BY <1>5 DEF Device!SendReport
<1>6. CASE Device!LinuxWrite
  BY <1>6 DEF Device!LinuxWrite, Device!WriteFails, Device!Written
<1>7. CASE Device!WindowsWrite
  BY <1>7 DEF Device!WindowsWrite, Device!WriteFails, Device!Written
<1> QED BY <1>1, <1>2, <1>3, <1>4, <1>5, <1>6, <1>7 DEF Device!Proceed

\* An object is made, identify() is called on it and goes on.
LEMMA ObjectCloser == ASSUME Inv, MakeObject \/ Call \/ Identify PROVE Closer
<1>1. /\ at["first"] \in LoopLabel /\ at'["first"] \in LoopLabel
      /\ at'["elevated"] = at["elevated"]
      /\ MakeObject => at["first"] = "loop" /\ at'["first"] = "call"
      /\ Call => at["first"] = "call" /\ at'["first"] = "identify"
      /\ Identify => at["first"] = "identify" /\ at'["first"] = "identify"
  <2>1. at \in [Process -> Label] /\ Process = {"first", "elevated"}
    BY DEF Inv, Control, Process
  <2> QED BY <2>1 DEF MakeObject, Call, Identify, Go, processVars, LoopLabel
<1>2. UNCHANGED <<argv, arg, devinfo, di_idx, place>>
  BY DEF MakeObject, Call, Identify, inputVars, loopVars, enumVars
<1>3. platform' = platform
  BY PlatformKept DEF Next, Program, Loop
<1>4. Turn' < Turn
  <2>1. CASE MakeObject
    <3>1. PICK p \in Upcoming : TRUE
      BY <2>1 DEF MakeObject
    <3>2. place \in {"ready", "none"}
      BY <1>1, <3>1, UpcomingPath, LoopFacts DEF Inv, Inputs
    <3> QED BY <1>1, <2>1, <3>2 DEF Turn, PlaceTurn
  <2>2. CASE Call
    <3>1. pc' \in {"handle", "allowed"}
      BY <2>2 DEF Call, Device!CallIdentify
    <3> QED BY <1>1, <2>2, <3>1 DEF Turn, ObjectTurn
  <2>3. CASE Identify
    <3>1. Device!Proceed
      BY <2>3 DEF Identify
    <3>2. pc # "idle"
      BY <3>1, DeviceStep, DeviceParameters, DevP!OperationStarted DEF Inv
    <3> QED BY <1>1, <2>3, <3>1, <3>2, ProceedTurns DEF Turn
  <2> QED BY <2>1, <2>2, <2>3
<1> QED BY <1>1, <1>2, <1>3, <1>4, TurnCloser

\* identify() has ended, or the constructor has.
LEMMA EndCloser == ASSUME Inv, EndOfIdentify \/ NoEventSource PROVE Closer
<1>1. /\ at["first"] \in LoopLabel /\ at'["first"] \in LoopLabel
      /\ at'["elevated"] = at["elevated"]
  <2>1. at \in [Process -> Label] /\ Process = {"first", "elevated"}
    BY DEF Inv, Control, Process
  <2> QED BY <2>1 DEF EndOfIdentify, NoEventSource, Go, LoopLabel
<1>2. platform' = platform /\ argv' = argv
  BY PlatformKept, InputsKept DEF Next, Program, Loop, inputVars
<1>3. PICK p, how, served : Advance(p, how, served)
  BY DEF EndOfIdentify, NoEventSource
<1>4. CASE platform = "linux"
  <2>1. arg' = arg + 1
    BY <1>3, <1>4 DEF Advance
  <2> QED BY <1>1, <1>2, <1>4, <2>1, NextPathCloser
<1>5. CASE platform = "windows"
  <2>1. Enum!Increment
    BY <1>3, <1>5 DEF Advance
  <2>2. /\ place # "end" /\ place' # "end"
        /\ devinfo' = devinfo /\ di_idx' = di_idx + 1
    BY <2>1 DEF Enum!Increment, Enum!Continue
  <2> QED BY <1>1, <1>2, <1>5, <2>2, NextPathCloser
<1> QED BY <1>4, <1>5 DEF Inv, Inputs

LEMMA ProgramCloser == ASSUME Inv, Program PROVE Closer
<1>1. CASE Usage \/ LinuxMain \/ (\E q \in Process : Dispatch(q)) \/ Elevation
  BY <1>1, ProcessCloser
<1>2. CASE Enumerate
  <2>1. "first" \in Process /\ "loop" \in Label
    BY DEF Process, Label
  <2> QED BY <1>2, <2>1, GoesCloser DEF Enumerate
<1>3. CASE Fails("first", "enumerate") \/ Return
  <2>1. "first" \in Process
    BY DEF Process
  <2> QED BY <1>3, <2>1, ExitsCloser DEF Fails, Throw, Return
<1> QED BY <1>1, <1>2, <1>3, IterateCloser, ObjectCloser, EndCloser DEF Program, Loop

LEMMA ComputerNoFarther == ASSUME Inv, Computer PROVE NoFarther
<1>1. CASE Service
  <2>1. "first" \in Process
    BY DEF Process
  <2> QED BY <1>1, <2>1, ExitsCloser DEF Service, Throw, NoFarther
<1>2. CASE Kill
  <2>1. "elevated" \in Process
    BY DEF Process
  <2> QED BY <1>2, <2>1, ExitsCloser DEF Kill, NoFarther
<1>3. CASE UNCHANGED <<at, platform, argv, arg, place, devinfo, di_idx, pc>>
  BY <1>3 DEF NoFarther, Stage, Left, Turn
<1>4. CASE \E p \in Path : (\E d \in Devices : Plug(p, d)) \/ Unplug(p) \/ Install(p)
  <2>1. UNCHANGED <<at, argv, arg>>
    BY <1>4 DEF Plug, Unplug, Install, processVars, inputVars, loopVars
  <2>2. UNCHANGED <<platform, pc>>
    BY <1>4 DEF Plug, Unplug, Install, deviceVars, Device!Plug, Device!Unplug
  <2>3. UNCHANGED <<place, devinfo, di_idx>>
    BY <1>4 DEF Plug, Unplug, Install, enumVars, Enum!Arrive, Enum!Remove, Enum!Progress
  <2> QED BY <1>3, <2>1, <2>2, <2>3
<1> QED BY <1>1, <1>2, <1>4 DEF Computer

Advances ==
    /\ Stage \in Nat /\ Left \in Nat /\ Turn \in Nat
    /\ Program => Closer
    /\ Computer => NoFarther

\* The distance of a program from its end, in the lexicographic order of the
\* stage of its processes, the paths left and the turn of the one at hand,
\* decreases with each of its steps, and no device that comes, goes or is
\* installed, nobody who kills the elevated process, increases it: what is left
\* of CommandEnds is that the system lets the program run on (linux/main.cc
\* lines 34-60, windows/main.cc lines 94-121, windows++.cc lines 166-259).
THEOREM ProgramsLeadToTheEnd == Spec => [][Advances]_vars
<1>1. Inv /\ [Next]_vars => [Advances]_vars
  BY ProgramCloser, ComputerNoFarther, DistancesType DEF Next, Advances
<1> QED BY <1>1, Invariant, PTL DEF Spec
=============================================================================
