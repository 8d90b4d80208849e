------------------------------- MODULE Commands -------------------------------
(***************************************************************************)
(* The programs: main of src/linux/main.cc, which identifies the devices   *)
(* that it is given, and wmain of src/windows/main.cc, which does so for   *)
(* all devices of the enumeration or has a command carried out by an       *)
(* elevated process.  They are composed with the HIDDevice object that     *)
(* they make for each path, with the enumeration, and with a computer      *)
(* whose devices come and go.                                              *)
(***************************************************************************)
EXTENDS Integers, Sequences, FiniteSets

CONSTANTS
    Path, NoPath, MAXDWORD,                            \* see HIDEnumeration
    Platforms, Devices, NoDevice, Indeterminate,       \* see HIDDevice
    Modulus, ShortModulus, MaxTransfer,
    Arguments,  \* the lists of paths that main may be given
    Lengths,    \* the lengths of the path of the executable
    ERROR_INSUFFICIENT_BUFFER

ASSUME ArgumentsAssumption == Arguments \subseteq Seq(Path)
ASSUME LengthsAssumption == Lengths \subseteq Nat

VARIABLES
    platform, present, gone, object, op, pc, outcome, received,
    interface, devinfo, di_idx, device_path, place, visited, due,
    connected,  \* the device at each path
    path,       \* the path of the object, if there is one
    command,    \* what the program is to do
    argv, arg,  \* the paths given to main, and the index of the next one
    exit_ret,   \* the exit code so far
    at,         \* where each process is
    exit,       \* the exit code of each process
    elevated,   \* the first process has the rights of an administrator
    length,     \* the length of the path of the executable
    process,    \* ShellExecuteEx has returned a handle to the process
    returned,   \* history: how often the function of the command has returned
    unfinished, \* history: it has returned without having done what was asked
    failed,     \* history: a call of a command that is elevated has failed
    results     \* history: how identify() has ended for each path

Device == INSTANCE HIDDevice
Enum == INSTANCE HIDEnumeration

ASSUME ParametersAssumption == Enum!Parameters

\* HIDDevice says why.
ASSUME DeviceAssumption ==
    /\ Platforms \subseteq {"linux", "windows"}
    /\ Devices \subseteq Device!DeviceRecord
    /\ NoDevice \notin Devices
    /\ Indeterminate \notin Device!Info
    /\ Modulus \in Nat /\ ShortModulus \in Nat /\ MaxTransfer \in Nat
    /\ Device!CommandSize < ShortModulus /\ ShortModulus < Modulus

deviceVars == <<platform, present, gone, object, op, pc, outcome, received>>
enumVars == <<interface, devinfo, di_idx, device_path, place, visited, due>>
loopVars == <<connected, path, arg, exit_ret, results>>
processVars == <<at, exit, process, returned, unfinished, failed>>
inputVars == <<command, argv, elevated, length>>
vars == <<deviceVars, enumVars, loopVars, processVars, inputVars>>

\* The process that the user starts, and the one that it starts.
Process == {"first", "elevated"}

Elevating == {"install", "uninstall", "register", "unregister"}

\* "usage" stands for no command or one that does not exist, "identify" for
\* the only thing that main of Linux does.
WindowsCommand == Elevating \cup {"report", "service", "usage"}
Command == WindowsCommand \cup {"identify"}

Label == {"none", "start", "elevation", "filename", "execute", "wait", "code",
          "function", "service", "enumerate", "loop", "call", "identify", "exited"}

NoExit == -1
-----------------------------------------------------------------------------
(* Exceptions.                                                             *)

\* The classes of src/common/types.h and win32::Exception, with their bases.
Base ==
    [StdException |-> "StdException", win32 |-> "StdException",
     Exception |-> "StdException",
     OSError |-> "Exception", OSLengthError |-> "OSError",
     IOError |-> "Exception", IOLengthError |-> "IOError",
     UnsupportedDevice |-> "Exception",
     UnavailableDevice |-> "UnsupportedDevice",
     DisallowedUSBDevice |-> "UnsupportedDevice",
     UnsupportedHIDReportDescriptor |-> "UnsupportedDevice",
     MalformedHIDReportDescriptor |-> "UnsupportedDevice",
     UnsupportedHIDReportUsage |-> "UnsupportedDevice"]

IsA(e, class) == class \in {e, Base[e], Base[Base[e]], Base[Base[Base[e]]]}

\* The catch clauses of a function, in their order, with the exit codes.
LinuxHandlers ==
    <<[class |-> "UnavailableDevice", code |-> 66],              \* EX_NOINPUT
      [class |-> "MalformedHIDReportDescriptor", code |-> 65],   \* EX_DATAERR
      [class |-> "OSError", code |-> 71],                        \* EX_OSERR
      [class |-> "IOError", code |-> 74],                        \* EX_IOERR
      [class |-> "UnsupportedDevice", code |-> 69],              \* EX_UNAVAILABLE
      [class |-> "Exception", code |-> 70]>>                     \* EX_SOFTWARE

ReportHandlers == <<[class |-> "Exception", code |-> 1],
                    [class |-> "StdException", code |-> 1]>>

MainHandlers == <<[class |-> "Exception", code |-> 1],
                  [class |-> "StdException", code |-> 2]>>

CodeOf(handlers, e) ==
    LET i == CHOOSE i \in DOMAIN handlers :
                 /\ IsA(e, handlers[i].class)
                 /\ \A j \in 1 .. i - 1 : ~IsA(e, handlers[j].class)
    IN  handlers[i].code
-----------------------------------------------------------------------------
ExitCodes == {0, 1, 2, 64, 65, 66, 69, 70, 71, 74}

Result == [path : Path, outcome : Device!Outcome, served : BOOLEAN]

\* The device at a path is known to the object there and, on Windows, to the
\* enumeration.
Coupled ==
    /\ path # NoPath => present = connected[path]
    /\ platform = "windows" =>
           \A p \in Path : connected[p] = NoDevice <=> interface[p] = "absent"

TypeOK ==
    /\ Device!TypeOK
    /\ Enum!TypeOK
    /\ connected \in [Path -> Devices \cup {NoDevice}]
    /\ path \in Path \cup {NoPath}
    /\ command \in Command
    /\ argv \in Arguments
    /\ arg \in 1 .. Len(argv) + 1
    /\ exit_ret \in ExitCodes
    /\ at \in [Process -> Label]
    /\ exit \in [Process -> {NoExit} \cup ExitCodes]
    /\ elevated \in BOOLEAN
    /\ length \in Nat
    /\ process \in BOOLEAN
    /\ returned \in 0 .. 2
    /\ unfinished \in BOOLEAN
    /\ failed \in BOOLEAN
    /\ results \in Seq(Result)
    /\ Coupled

\* Only what a command looks at differs when it starts.
Init ==
    /\ Device!Init
    /\ present = NoDevice
    /\ Enum!Init
    /\ connected \in [Path -> Devices \cup {NoDevice}]
    /\ path = NoPath
    /\ command \in IF platform = "windows" THEN WindowsCommand ELSE {"identify"}
    /\ argv \in IF platform = "windows" THEN {<<>>} \cap Arguments ELSE Arguments
    /\ arg = 1
    /\ exit_ret = 0
    /\ at = [q \in Process |-> IF q = "first" THEN "start" ELSE "none"]
    /\ exit = [q \in Process |-> NoExit]
    /\ elevated \in IF command \in Elevating THEN BOOLEAN ELSE {FALSE}
    /\ length \in IF command \in Elevating THEN Lengths ELSE {0}
    /\ process = FALSE
    /\ returned = 0
    /\ unfinished = FALSE
    /\ failed = FALSE
    /\ results = <<>>
    /\ \A p \in Path :
           IF command = "report"
           THEN connected[p] = NoDevice <=> interface[p] = "absent"
           ELSE interface[p] = "absent" /\ (command # "identify" => connected[p] = NoDevice)
-----------------------------------------------------------------------------
(* The start and the end of a process.                                     *)

Go(q, label) ==
    /\ at' = [at EXCEPT ![q] = label]
    /\ UNCHANGED exit

Exit(q, code) ==
    /\ at' = [at EXCEPT ![q] = "exited"]
    /\ exit' = [exit EXCEPT ![q] = code]

\* An exception reaches wmain.
Throw(q, e) == Exit(q, CodeOf(MainHandlers, e))

\* main without arguments, or wmain without a command that exists.
Usage ==
    /\ at["first"] = "start"
    /\ \/ platform = "linux" /\ argv = <<>> /\ Exit("first", 64)    \* EX_USAGE
       \/ command = "usage" /\ Exit("first", 1)
    /\ UNCHANGED <<deviceVars, enumVars, loopVars, inputVars, process, returned, unfinished, failed>>

LinuxMain ==
    /\ at["first"] = "start"
    /\ platform = "linux"
    /\ argv # <<>>
    /\ Go("first", "loop")
    /\ UNCHANGED <<deviceVars, enumVars, loopVars, inputVars, process, returned, unfinished, failed>>

\* wmain finds the command.
Dispatch(q) ==
    /\ at[q] = "start"
    /\ \/ command \in Elevating /\ Go(q, "elevation")
       \/ command = "report" /\ Go(q, "enumerate")
       \/ command = "service" /\ Go(q, "service")
    /\ UNCHANGED <<deviceVars, enumVars, loopVars, inputVars, process, returned, unfinished, failed>>

\* command_service, which WindowsHIDService models: it ends when the service has
\* stopped, or if it was not started by the service control manager.
Service ==
    /\ at["first"] = "service"
    /\ \/ Exit("first", 0)
       \/ Throw("first", "OSError")
    /\ UNCHANGED <<deviceVars, enumVars, loopVars, inputVars, process, returned, unfinished, failed>>
-----------------------------------------------------------------------------
(* The commands that need an administrator.                                *)

\* A step of a process that looks at no device.
Elsewhere == UNCHANGED <<deviceVars, enumVars, loopVars, inputVars>>

\* A call to the system has failed.
Fails(q, label) ==
    /\ at[q] = label
    /\ Throw(q, "win32")
    /\ failed' = TRUE
    /\ UNCHANGED <<process, returned, unfinished>>
    /\ Elsewhere

\* is_elevated: "runas" gives the process that it starts the rights.
IsElevated(q) ==
    /\ at[q] = "elevation"
    /\ Go(q, IF q = "elevated" \/ elevated THEN "function" ELSE "filename")
    /\ UNCHANGED <<process, returned, unfinished, failed>>
    /\ Elsewhere

\* current_process_filename takes a length for the error of this number.
FilenameThrows == length = ERROR_INSUFFICIENT_BUFFER

Filename ==
    /\ at["first"] = "filename"
    /\ IF FilenameThrows THEN Throw("first", "win32") ELSE Go("first", "execute")
    /\ UNCHANGED <<process, returned, unfinished, failed>>
    /\ Elsewhere

\* ShellExecuteEx has started a process, and has a handle to it or not.
Execute ==
    /\ at["first"] = "execute"
    /\ process' \in BOOLEAN
    /\ at' = [at EXCEPT !["first"] = IF process' THEN "wait" ELSE "exited",
                        !["elevated"] = "start"]
    /\ exit' = [exit EXCEPT !["first"] = IF process' THEN @ ELSE 0]
    /\ UNCHANGED <<returned, unfinished, failed>>
    /\ Elsewhere

Wait ==
    /\ at["first"] = "wait"
    /\ at["elevated"] = "exited"
    /\ Go("first", "code")
    /\ UNCHANGED <<process, returned, unfinished, failed>>
    /\ Elsewhere

\* Mutant of ExitCode: the exit code of the process is not returned.
ExitCodeZero ==
    /\ at["first"] = "code"
    /\ Exit("first", 0)
    /\ UNCHANGED <<process, returned, unfinished, failed>>
    /\ Elsewhere

\* GetExitCodeProcess.
ExitCode ==
    /\ at["first"] = "code"
    /\ Exit("first", exit["elevated"])
    /\ UNCHANGED <<process, returned, unfinished, failed>>
    /\ Elsewhere

\* The functions ServiceControl and EventLogRegistry model: what they may throw,
\* and which of them need the path of the executable.
Throws(name) == IF name = "uninstall" THEN {"win32", "OSError"} ELSE {"win32"}
NeedsFilename == {"install", "register"}

\* service_install and service_uninstall return as well when they have waited in
\* vain: "Failed to start service", "Failed to stop service".
MayGiveUp == {"install", "uninstall"}

FunctionReturns(q) ==
    /\ at[q] = "function"
    /\ ~(command \in NeedsFilename /\ FilenameThrows)
    /\ Exit(q, 0)
    /\ returned' = returned + 1
    /\ unfinished' \in (IF command \in MayGiveUp THEN BOOLEAN ELSE {FALSE})
    /\ UNCHANGED <<process, failed>>
    /\ Elsewhere

FunctionThrows(q) ==
    /\ at[q] = "function"
    /\ \E e \in Throws(command) : Throw(q, e)
    /\ failed' = (failed \/ ~(command \in NeedsFilename /\ FilenameThrows))
    /\ UNCHANGED <<process, returned, unfinished>>
    /\ Elsewhere

\* Somebody ends the elevated process.
Kill ==
    /\ at["elevated"] \notin {"none", "exited"}
    /\ Exit("elevated", 1)
    /\ failed' = TRUE
    /\ UNCHANGED <<process, returned, unfinished>>
    /\ Elsewhere

Elevation ==
    \/ \E q \in Process :
        \/ IsElevated(q)
        \/ FunctionReturns(q)
        \/ FunctionThrows(q)
        \/ Fails(q, "elevation")
    \/ Filename
    \/ Execute
    \/ Wait
    \/ ExitCode
    \/ \E label \in {"filename", "execute", "wait", "code"} : Fails("first", label)
-----------------------------------------------------------------------------
(* The loop over the devices.                                              *)

\* WindowsHIDEnumeration.
Enumerate ==
    /\ at["first"] = "enumerate"
    /\ Enum!Construct
    /\ Go("first", "loop")
    /\ UNCHANGED <<deviceVars, loopVars, inputVars, process, returned, unfinished, failed>>

Iterate ==
    /\ at["first"] = "loop"
    /\ platform = "windows"
    /\ Enum!Iterate
    /\ UNCHANGED <<deviceVars, loopVars, inputVars, processVars>>

\* The paths there is an object to be made for: one or none.
Upcoming ==
    IF platform = "linux"
    THEN {argv[i] : i \in {arg} \cap DOMAIN argv}
    ELSE {p \in {device_path} : place = "ready"}

\* LinuxHIDDevice(argv[i]) or WindowsHIDDevice(device).
MakeObject ==
    /\ at["first"] = "loop"
    /\ \E p \in Upcoming : path' = p /\ present' = connected[p]
    /\ gone' = FALSE
    /\ Go("first", "call")
    /\ UNCHANGED <<platform, object, op, pc, outcome, received>>
    /\ UNCHANGED <<enumVars, connected, arg, exit_ret, results, inputVars,
                   process, returned, unfinished, failed>>

Call ==
    /\ at["first"] = "call"
    /\ Device!CallIdentify
    /\ Go("first", "identify")
    /\ UNCHANGED <<enumVars, loopVars, inputVars, process, returned, unfinished, failed>>

Identify ==
    /\ at["first"] = "identify"
    /\ Device!Proceed
    /\ UNCHANGED <<enumVars, loopVars, inputVars, processVars>>

\* Mutant of Kept: the codes are added up.
AddedCode(code) == exit_ret + code

\* Mutant of Kept: the last failure decides.
LastCode(code) == IF code # 0 THEN code ELSE exit_ret

\* exit_ret ? exit_ret : code.
Kept(code) == IF exit_ret # 0 THEN exit_ret ELSE code

Handlers == IF platform = "linux" THEN LinuxHandlers ELSE ReportHandlers

\* What identify() has ended with counts, and the loop goes on.
Advance(p, how, served) ==
    /\ results' = Append(results, [path |-> p, outcome |-> how, served |-> served])
    /\ exit_ret' = IF how = "ok" THEN exit_ret ELSE Kept(CodeOf(Handlers, how))
    /\ IF platform = "linux" THEN arg' = arg + 1 /\ UNCHANGED enumVars
                             ELSE Enum!Increment /\ UNCHANGED arg
    /\ UNCHANGED <<connected, inputVars, process, returned, unfinished, failed>>

\* The object is gone, and with it its handle.
Destroyed ==
    /\ path' = NoPath
    /\ present' = NoDevice
    /\ gone' = FALSE
    /\ object' = Device!NewObject
    /\ op' = "none"
    /\ pc' = "idle"
    /\ outcome' = "none"
    /\ received' = Device!NoWrite
    /\ UNCHANGED platform

\* identify() has returned or thrown, and what it has thrown is caught.
EndOfIdentify ==
    /\ at["first"] = "identify"
    /\ pc = "idle"
    /\ Advance(path, outcome, received.size >= Device!CommandSize)
    /\ Destroyed
    /\ Go("first", "loop")

\* The constructor of WindowsHIDDevice throws.
NoEventSource ==
    /\ at["first"] = "loop"
    /\ platform = "windows"
    /\ \E p \in Upcoming : Advance(p, "OSError", FALSE)
    /\ UNCHANGED <<deviceVars, path, at, exit>>

Return ==
    /\ at["first"] = "loop"
    /\ IF platform = "linux" THEN arg > Len(argv) ELSE place = "end"
    /\ Exit("first", exit_ret)
    /\ UNCHANGED <<deviceVars, enumVars, loopVars, inputVars, process, returned, unfinished, failed>>

Loop ==
    \/ Enumerate
    \/ Fails("first", "enumerate")
    \/ Iterate
    \/ MakeObject
    \/ Call
    \/ Identify
    \/ EndOfIdentify
    \/ NoEventSource
    \/ Return
-----------------------------------------------------------------------------
(* The computer.  Its devices are of interest while a command looks at     *)
(* them.                                                                   *)

Looking == command \in {"identify", "report"} /\ at["first"] # "exited"

Plug(p, d) ==
    /\ Looking
    /\ connected[p] = NoDevice
    /\ connected' = [connected EXCEPT ![p] = d]
    /\ IF p = path THEN Device!Plug(d) ELSE UNCHANGED deviceVars
    /\ IF platform = "windows" THEN \E s \in Enum!State \ {"absent"} : Enum!Arrive(p, s)
                               ELSE UNCHANGED enumVars
    /\ UNCHANGED <<path, arg, exit_ret, results, inputVars, processVars>>

Unplug(p) ==
    /\ Looking
    /\ connected[p] # NoDevice
    /\ connected' = [connected EXCEPT ![p] = NoDevice]
    /\ IF p = path THEN Device!Unplug ELSE UNCHANGED deviceVars
    /\ IF platform = "windows" THEN Enum!Remove(p) ELSE UNCHANGED enumVars
    /\ UNCHANGED <<path, arg, exit_ret, results, inputVars, processVars>>

Install(p) ==
    /\ Looking
    /\ platform = "windows"
    /\ Enum!Progress(p)
    /\ UNCHANGED <<deviceVars, loopVars, inputVars, processVars>>

Computer ==
    \/ \E p \in Path : \/ \E d \in Devices : Plug(p, d)
                       \/ Unplug(p)
                       \/ Install(p)
    \/ Service
    \/ Kill

Program ==
    \/ Usage
    \/ LinuxMain
    \/ \E q \in Process : Dispatch(q)
    \/ Elevation
    \/ Loop

Next == Program \/ Computer

\* The processes run on; every call to the system ends, but the service need
\* not.
Spec == Init /\ [][Next]_vars /\ WF_vars(Program)
-----------------------------------------------------------------------------
(* Properties.                                                             *)

\* What an exit code of sysexits.h says to the rules of udev or to a script.
Sysexit ==
    [ok |-> 0, UnavailableDevice |-> 66, OSError |-> 71, OSLengthError |-> 71,
     IOError |-> 74, IOLengthError |-> 74, DisallowedUSBDevice |-> 69,
     UnsupportedHIDReportDescriptor |-> 69, UnsupportedHIDReportUsage |-> 69]

\* One device that fails does not keep the others from being served, and the
\* exit code is that of the first failure: no exception of identify() is caught
\* by the wrong clause, ends the loop, or hides an earlier one (linux/main.cc
\* lines 37-58, windows/main.cc lines 108-119).
FirstFailureDecides ==
    LET paths == [i \in DOMAIN results |-> results[i].path]
        failures == {i \in DOMAIN results : results[i].outcome # "ok"}
        first == CHOOSE i \in failures : \A j \in failures : i <= j
    IN  /\ (platform = "linux" /\ argv # <<>> /\ at["first"] = "exited") =>
               /\ paths = argv
               /\ exit["first"] = IF failures = {} THEN 0
                                  ELSE Sysexit[results[first].outcome]
        /\ (place = "end" /\ at["first"] = "exited") =>
               /\ paths = visited
               /\ exit["first"] = IF failures = {} THEN 0 ELSE 1

\* Exit code 0 means that every device it was run for has received the whole
\* command, whatever was plugged and unplugged: on Linux that of every argument,
\* on Windows every device that was installed while the program ran and for which
\* no call of the enumeration has failed.  Such a failure skips the device, or
\* all that follow, without a trace in the exit code (hid-enumerate.cc lines
\* 74-78, 94-96 and 105-107), which is less than "Send HID report to all devices"
\* (windows/main.cc line 130); "due" leaves those devices out.
ZeroMeansServed ==
    (exit["first"] = 0 /\ command \in {"identify", "report"}) =>
        /\ \A p \in {argv[i] : i \in DOMAIN argv} \cup due :
               \E i \in DOMAIN results : results[i].path = p
        /\ \A i \in DOMAIN results : results[i].served

\* The report command visits every device that is installed all the time, once.
EveryInstalledVisited == Enum!EveryInstalledVisited

\* The function of the command has done what was asked.
CarriedOut == returned = 1 /\ ~unfinished

\* The exit code of a command that needs an administrator tells what the process
\* that had the rights has done.  With 0 it was carried out there, or install and
\* uninstall have given up on a service that did not start or stop (they return
\* normally then, service-control.cc lines 180-181 and 225-227), or nothing is
\* known, as ShellExecuteEx had no handle.  With another code a call has failed,
\* or the path of the executable has the length that is taken for an error
\* (windows++.cc lines 166-259).  Nothing is ever done twice.
ExitTellsWhetherDone ==
    /\ returned <= 1
    /\ (command \in Elevating /\ at["first"] = "exited") =>
           /\ exit["first"] = 0 /\ (elevated \/ process) =>
                  CarriedOut \/ (command \in MayGiveUp /\ unfinished)
           /\ exit["first"] # 0 => failed \/ FilenameThrows

\* Every command ends, but for the service, and for main of Linux on a device
\* without a usage pair, of which the parser finds no end (see HidReportParser).
CommandEnds == <>(at["first"] = "exited" \/ command = "service" \/ pc = "parsing")
=============================================================================
