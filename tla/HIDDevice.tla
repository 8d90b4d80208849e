------------------------------ MODULE HIDDevice ------------------------------
(***************************************************************************)
(* One HIDDevice object (src/common/hid-device.cc) with the open and       *)
(* send_report of LinuxHIDDevice or WindowsHIDDevice below it.  Its public *)
(* operations open, identify and close may be called in any order, while   *)
(* devices are plugged and unplugged at the path it was made for.          *)
(***************************************************************************)
EXTENDS Integers, Sequences

CONSTANTS
    Platforms,      \* the platforms to model
    Devices,        \* the devices that may be plugged in at the path
    NoDevice,       \* in place of a device where there is none
    Indeterminate,  \* the value of what was never initialized
    Modulus,        \* one more than the largest uint32_t
    ShortModulus,   \* one more than the largest USHORT
    MaxTransfer     \* the largest report that the Linux kernel writes

\* What the descriptor of a device amounts to: a raw HID report, any other
\* report, a value with a range of usages, or no usage pair at all.
Descriptor == {"raw", "other", "range", "no_pair"}

DeviceRecord ==
    [vendor : Nat, product : Nat, interface : -1 .. 255,
     descriptor : Descriptor, count : 0 .. Modulus - 1, length : Nat]

\* USBDeviceInfo.
Info == [vendor : Nat, product : Nat, interface : -1 .. 255]

\* The bytes of the report id, the command and the identity of the system.
CommandSize == 1 + 2 + 4

ASSUME PlatformsAssumption == Platforms \subseteq {"linux", "windows"}
ASSUME DevicesAssumption == Devices \subseteq DeviceRecord
ASSUME NoDeviceAssumption == NoDevice \notin Devices
ASSUME IndeterminateAssumption == Indeterminate \notin Info
ASSUME ModulusAssumption ==
    /\ Modulus \in Nat /\ ShortModulus \in Nat /\ MaxTransfer \in Nat
    /\ CommandSize < ShortModulus /\ ShortModulus < Modulus

VARIABLES
    platform,  \* which subclass it is
    present,   \* the device at the path
    gone,      \* the device behind the handle has been unplugged
    object,    \* the members of the object
    op,        \* the public operation that is executed, or was last
    pc,        \* where it is
    outcome,   \* how it ended: "ok" or the exception
    received   \* what the operation has written to a device

vars == <<platform, present, gone, object, op, pc, outcome, received>>

NullInfo == [vendor |-> 0, product |-> 0, interface |-> 0]
Report == [raw : BOOLEAN, count : 0 .. Modulus - 1]
NoWrite == [device |-> NoDevice, size |-> 0]

Unsupported == {"DisallowedUSBDevice", "UnsupportedHIDReportDescriptor",
                "UnsupportedHIDReportUsage", "UnavailableDevice"}
Outcome == {"none", "ok", "OSError", "OSLengthError", "IOError", "IOLengthError"}
               \cup Unsupported
\* Nothing leads out of "parsing".
Label == {"idle", "handle", "info", "reports", "parsing",
          "allowed", "usage", "send", "write"}

TypeOK ==
    /\ platform \in Platforms
    /\ present \in Devices \cup {NoDevice}
    /\ gone \in BOOLEAN
    /\ object \in [handle : Devices \cup {NoDevice},
                   device_info : Info \cup {Indeterminate},
                   reports : Seq(Report),
                   report_count : 0 .. Modulus - 1,
                   report_length : Nat]
    /\ op \in {"none", "open", "identify", "close"}
    /\ pc \in Label
    /\ outcome \in Outcome
    /\ received \in [device : Devices \cup {NoDevice}, size : Nat]

\* The constructors leave device_info_ uninitialized.
NewObject == [handle |-> NoDevice, device_info |-> Indeterminate,
              reports |-> <<>>, report_count |-> 0, report_length |-> 0]

Init ==
    /\ platform \in Platforms
    /\ present \in Devices \cup {NoDevice}
    /\ gone = FALSE
    /\ object = NewObject
    /\ op = "none"
    /\ pc = "idle"
    /\ outcome = "none"
    /\ received = NoWrite
-----------------------------------------------------------------------------
(* The public operations, and how they end.                                *)

\* Mutant of Closed: the reports are not cleared.
ClosedButReports(o) ==
    [o EXCEPT !.handle = NoDevice, !.device_info = NullInfo, !.report_count = 0]

\* close(), with reset() of both platforms; report_length_ stays as it is.
Closed(o) ==
    [o EXCEPT !.handle = NoDevice, !.device_info = NullInfo,
              !.reports = <<>>, !.report_count = 0]

\* An exception leaves the operation: open() closes the object first, and
\* identify() leaves it as it is.
Throw(e, o) ==
    /\ outcome' = e
    /\ pc' = "idle"
    /\ object' = IF op = "open" THEN Closed(o) ELSE o
    /\ UNCHANGED <<platform, present, gone, op>>

Call(name) ==
    /\ pc = "idle"
    /\ op' = name
    /\ received' = NoWrite
    /\ UNCHANGED <<platform, present, gone>>

\* The platform's open() returns at once when there is a handle.
CallOpen ==
    /\ Call("open")
    /\ IF object.handle = NoDevice
       THEN pc' = "handle" /\ outcome' = "none"
       ELSE pc' = "idle" /\ outcome' = "ok"
    /\ UNCHANGED object

CallIdentify ==
    /\ Call("identify")
    /\ pc' = IF object.handle = NoDevice THEN "handle" ELSE "allowed"
    /\ outcome' = "none"
    /\ UNCHANGED object

CallClose ==
    /\ Call("close")
    /\ object' = Closed(object)
    /\ outcome' = "ok"
    /\ UNCHANGED pc
-----------------------------------------------------------------------------
(* open() of the platform.  Any call to the system may fail, and does when *)
(* the device is gone.                                                     *)

\* open(2) or CreateFile.
OpenHandle ==
    /\ pc = "handle"
    /\ \/ /\ present # NoDevice
          /\ object' = [object EXCEPT !.handle = present]
          /\ gone' = FALSE
          /\ pc' = "info"
          /\ UNCHANGED <<platform, present, op, outcome>>
       \/ Throw("UnavailableDevice", object)
    /\ UNCHANGED received

\* Linux does not know the number of the interface.
InfoOf(d) ==
    [vendor |-> d.vendor, product |-> d.product,
     interface |-> IF platform = "linux" THEN -1 ELSE d.interface]

\* init_device_info.
DeviceInfo ==
    /\ pc = "info"
    /\ \/ /\ ~gone
          /\ LET info == InfoOf(object.handle)
                 o == [object EXCEPT !.device_info = info]
             IN  IF platform = "windows" /\ info.interface = -1
                 THEN Throw("DisallowedUSBDevice", o)
                 ELSE /\ object' = o
                      /\ pc' = "reports"
                      /\ UNCHANGED <<platform, present, gone, op, outcome>>
       \/ Throw("OSError", object)
    /\ UNCHANGED received

Opened == IF op = "open" THEN pc' = "idle" /\ outcome' = "ok"
                         ELSE pc' = "allowed" /\ UNCHANGED outcome

\* HIDP_VALUE_CAPS has a USHORT for the count.
CountOf(d) == IF platform = "windows" THEN d.count % ShortModulus ELSE d.count

ReportOf(d) == [raw |-> d.descriptor = "raw", count |-> CountOf(d)]

\* init_reports of Linux: without a usage pair its loop never ends, see
\* HidReportParser; the descriptor of the kernel is never "malformed" to it.
LinuxReports ==
    /\ pc = "reports"
    /\ platform = "linux"
    /\ \/ /\ ~gone
          /\ object.handle.descriptor # "no_pair"
          /\ object' = [object EXCEPT !.reports = Append(@, ReportOf(object.handle))]
          /\ Opened
          /\ UNCHANGED <<platform, present, gone, op>>
       \/ /\ ~gone
          /\ object.handle.descriptor = "no_pair"
          /\ pc' = "parsing"
          /\ UNCHANGED <<platform, present, gone, object, op, outcome>>
       \/ \E e \in {"OSError", "OSLengthError"} : Throw(e, object)
    /\ UNCHANGED received

\* init_reports of Windows: the length is kept before the values are read.
WindowsReports ==
    /\ pc = "reports"
    /\ platform = "windows"
    /\ \/ Throw("OSError", object)
       \/ /\ ~gone
          /\ LET o == [object EXCEPT !.report_length = object.handle.length]
             IN  \/ Throw("OSError", o)
                 \/ /\ object.handle.descriptor = "range"
                    /\ Throw("UnsupportedHIDReportDescriptor", o)
                 \/ /\ object.handle.descriptor # "range"
                    /\ object' = [o EXCEPT !.reports = Append(@, ReportOf(object.handle))]
                    /\ Opened
                    /\ UNCHANGED <<platform, present, gone, op>>
    /\ UNCHANGED received
-----------------------------------------------------------------------------
(* The checks of identify().                                               *)

\* The table of usb_device_allowed: a mask lets in that many products from
\* the first one on.
AllowedDevices ==
    {[vid |-> 4617, pid |-> 0, products |-> 4096],    \* 0x1209 0x0000 0xF000
     [vid |-> 5824, pid |-> 1503, products |-> 1],    \* 0x16C0 0x05DF 0xFFFF
     [vid |-> 5824, pid |-> 10201, products |-> 1],   \* 0x16C0 0x27D9 0xFFFF
     [vid |-> 5824, pid |-> 10202, products |-> 2],   \* 0x16C0 0x27DA 0xFFFE
     [vid |-> 5824, pid |-> 10204, products |-> 1]}   \* 0x16C0 0x27DC 0xFFFF

\* Mutant of usb_device_allowed: the mask is ignored.
usb_device_allowed_exactly(vid, pid) ==
    \E d \in AllowedDevices : vid = d.vid /\ pid = d.pid

usb_device_allowed(vid, pid) ==
    \E d \in AllowedDevices : vid = d.vid /\ pid - (pid % d.products) = d.pid

\* Mutant of Allowed: the interface is not looked at.
AllowedOnAnyInterface(info) == usb_device_allowed(info.vendor, info.product)

Allowed(info) ==
    info.interface \in {-1, 1} /\ usb_device_allowed(info.vendor, info.product)

\* check_device_allowed: what was never set may pass or not.
CheckAllowed ==
    /\ pc = "allowed"
    /\ LET info == object.device_info
       IN  \/ /\ info = Indeterminate \/ (info # Indeterminate /\ Allowed(info))
              /\ pc' = "usage"
              /\ UNCHANGED <<platform, present, gone, object, op, outcome>>
           \/ /\ info = Indeterminate \/ (info # Indeterminate /\ ~Allowed(info))
              /\ Throw("DisallowedUSBDevice", object)
    /\ UNCHANGED received

Matching == {i \in DOMAIN object.reports :
                object.reports[i].raw /\ object.reports[i].count > 0}

\* Mutant of CheckReports: the report id is counted as well.
CheckReportsWithId ==
    /\ pc = "usage"
    /\ \/ \E i \in Matching :
            /\ \A j \in Matching : i <= j
            /\ object' = [object EXCEPT !.report_count = 1 + object.reports[i].count]
            /\ pc' = "send"
            /\ UNCHANGED <<platform, present, gone, op, outcome>>
       \/ Matching = {} /\ Throw("UnsupportedHIDReportUsage", object)
    /\ UNCHANGED received

\* check_device_reports: the first report that matches.
CheckReports ==
    /\ pc = "usage"
    /\ \/ \E i \in Matching :
            /\ \A j \in Matching : i <= j
            /\ object' = [object EXCEPT !.report_count = object.reports[i].count]
            /\ pc' = "send"
            /\ UNCHANGED <<platform, present, gone, op, outcome>>
       \/ Matching = {} /\ Throw("UnsupportedHIDReportUsage", object)
    /\ UNCHANGED received
-----------------------------------------------------------------------------
(* send_report, of HIDDevice and of the platform.                          *)

\* The size data gets in HIDDevice::send_report, in the arithmetic of uint32_t.
DataSize == (1 + object.report_count) % Modulus

\* Mutant of SendReport: a report that is too short is sent.
SendReportUnchecked ==
    /\ pc = "send"
    /\ pc' = "write"
    /\ UNCHANGED <<platform, present, gone, object, op, outcome, received>>

SendReport ==
    /\ pc = "send"
    /\ IF object.report_count < CommandSize - 1
       THEN Throw("IOLengthError", object)
       ELSE pc' = "write" /\ UNCHANGED <<platform, present, gone, object, op, outcome>>
    /\ UNCHANGED received

Deliver(size) == received' = [device |-> object.handle, size |-> size]

\* What was to be written has arrived in part, or not at all, or as a whole
\* without the system's knowing it.
WriteFails(size) ==
    /\ \/ ~gone /\ \E n \in 0 .. size : Deliver(n)
       \/ UNCHANGED received
    /\ Throw("IOError", object)

Written ==
    /\ pc' = "idle"
    /\ outcome' = "ok"
    /\ UNCHANGED <<platform, present, gone, object, op>>

\* Mutant of LinuxWrite: only an error is looked at, not a short write.
LinuxWriteShort ==
    /\ pc = "write"
    /\ platform = "linux"
    /\ ~gone
    /\ \E n \in 0 .. DataSize : Deliver(n)
    /\ Written

\* write(2): the kernel refuses what is shorter than two bytes or too long.
LinuxWrite ==
    /\ pc = "write"
    /\ platform = "linux"
    /\ \/ WriteFails(DataSize)
       \/ /\ ~gone
          /\ 2 <= DataSize /\ DataSize <= MaxTransfer
          /\ Deliver(DataSize)
          /\ Written

\* Windows writes the whole length of the report; see OverlappedWrite for what
\* happens between WriteFile and the result, and ReportWrite for what it amounts to.
WindowsWrite ==
    /\ pc = "write"
    /\ platform = "windows"
    /\ \/ /\ object.report_length < DataSize
          /\ Throw("IOLengthError", object)
          /\ UNCHANGED received
       \/ /\ object.report_length >= DataSize
          /\ \/ UNCHANGED received /\ Throw("OSError", object)
             \/ WriteFails(object.report_length)
             \/ ~gone /\ Deliver(object.report_length) /\ Written
-----------------------------------------------------------------------------
(* The user.  A handle stays with the device it was opened for.            *)

Unplug ==
    /\ present # NoDevice
    /\ present' = NoDevice
    /\ gone' = TRUE
    /\ UNCHANGED <<platform, object, op, pc, outcome, received>>

Plug(d) ==
    /\ present = NoDevice
    /\ present' = d
    /\ UNCHANGED <<platform, gone, object, op, pc, outcome, received>>

\* The operation that is executed goes on.
Proceed ==
    \/ OpenHandle
    \/ DeviceInfo
    \/ LinuxReports
    \/ WindowsReports
    \/ CheckAllowed
    \/ CheckReports
    \/ SendReport
    \/ LinuxWrite
    \/ WindowsWrite

Next ==
    \/ CallOpen
    \/ CallIdentify
    \/ CallClose
    \/ Proceed
    \/ Unplug
    \/ \E d \in Devices : Plug(d)

Spec == Init /\ [][Next]_vars
-----------------------------------------------------------------------------
(* Properties.                                                             *)

\* What the members say of a device is what the device behind the handle says:
\* whenever there are reports, there is a handle, and the device information,
\* the reports and the length come from it, however often the object has been
\* opened, closed or left half open (hid-device.cc lines 33-54).
CacheIsOfHandle ==
    object.reports # <<>> =>
        /\ object.handle # NoDevice
        /\ object.device_info = InfoOf(object.handle)
        /\ object.reports = <<ReportOf(object.handle)>>
        /\ platform = "windows" => object.report_length = object.handle.length

IsAllowed(d) ==
    \/ d.vendor = 4617 /\ d.product \in 0 .. 4095
    \/ d.vendor = 5824 /\ d.product \in {1503} \cup 10201 .. 10204

\* Nothing, not even a part of a report, is ever written to a device that is
\* not on the list, that has another interface, or that is not a raw HID
\* device (lines 59-100); the list is given here by its ranges of products.
SentOnlyToQMK ==
    received.device # NoDevice =>
        /\ IsAllowed(received.device)
        /\ received.device.descriptor = "raw"
        /\ platform = "windows" => received.device.interface = 1

\* An identify() that returns has sent the whole command to the device it has
\* opened, in a report of the size that this device has.
SuccessIsDelivered ==
    (op = "identify" /\ outcome = "ok") =>
        /\ received.device = object.handle
        /\ received.size >= CommandSize
        /\ received.size = IF platform = "linux" THEN 1 + object.handle.count
                                                 ELSE object.handle.length

\* A device is turned away as not allowed only if it is not on the list or, on
\* Windows, is another interface of the keyboard (lines 59-69).
ListedDeviceIsServed ==
    (pc = "idle" /\ op = "identify" /\ outcome = "DisallowedUSBDevice"
        /\ object.device_info \notin {Indeterminate, NullInfo})
    => \/ ~IsAllowed(object.device_info)
       \/ platform = "windows" /\ object.device_info.interface # 1
=============================================================================
