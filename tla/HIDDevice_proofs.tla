--------------------------- MODULE HIDDevice_proofs ---------------------------
(***************************************************************************)
(* Theorems about HIDDevice for all devices and all widths of integers.    *)
(***************************************************************************)
EXTENDS HIDDevice, TLAPS

-----------------------------------------------------------------------------
(* The operators that the model is built from.                             *)

ObjectType ==
    [handle : Devices \cup {NoDevice}, device_info : Info \cup {Indeterminate},
     reports : Seq(Report), report_count : 0 .. Modulus - 1, report_length : Nat]

\* What the fields of a device are.
LEMMA DeviceFields ==
    ASSUME NEW d \in Devices
    PROVE  /\ d.vendor \in Nat /\ d.product \in Nat /\ d.interface \in -1 .. 255
           /\ d.count \in 0 .. Modulus - 1 /\ d.length \in Nat
           /\ d # NoDevice
BY DevicesAssumption, NoDeviceAssumption DEF DeviceRecord

LEMMA InfoType ==
    ASSUME NEW d \in Devices
    PROVE  /\ InfoOf(d) \in Info
           /\ InfoOf(d).vendor = d.vendor
           /\ InfoOf(d).product = d.product
           /\ platform = "linux" => InfoOf(d).interface = -1
           /\ platform # "linux" => InfoOf(d).interface = d.interface
BY DeviceFields DEF InfoOf, Info

LEMMA SmallModulo ==
    ASSUME NEW m \in Nat, NEW n \in 0 .. m - 1
    PROVE  n % m = n
OBVIOUS

LEMMA ModuloRange ==
    ASSUME NEW m \in Nat, m > 0, NEW n \in Nat
    PROVE  n % m \in 0 .. m - 1
OBVIOUS

LEMMA CountType ==
    ASSUME NEW d \in Devices
    PROVE  /\ CountOf(d) \in 0 .. Modulus - 1
           /\ platform = "linux" => CountOf(d) = d.count
           /\ platform = "windows" => CountOf(d) < ShortModulus
<1>1. ShortModulus > 0 /\ ShortModulus < Modulus /\ ShortModulus \in Nat /\ Modulus \in Nat
  BY ModulusAssumption DEF CommandSize
<1>2. d.count \in 0 .. Modulus - 1
  BY DeviceFields
<1>3. d.count % ShortModulus \in 0 .. ShortModulus - 1
  BY <1>1, <1>2, ModuloRange
<1> QED BY <1>1, <1>2, <1>3 DEF CountOf

LEMMA ReportType ==
    ASSUME NEW d \in Devices
    PROVE  ReportOf(d) \in Report
BY CountType DEF ReportOf, Report

\* close() clears everything but the length of the reports.
LEMMA ClosedType ==
    ASSUME NEW o \in ObjectType
    PROVE  /\ Closed(o) \in ObjectType
           /\ Closed(o).handle = NoDevice
           /\ Closed(o).device_info = NullInfo
           /\ Closed(o).reports = <<>>
           /\ Closed(Closed(o)) = Closed(o)
<1>1. NullInfo \in Info
  BY DEF NullInfo, Info
<1>2. 0 \in 0 .. Modulus - 1
  BY ModulusAssumption DEF CommandSize
<1>3. Closed(o) \in ObjectType
  <2>1. <<>> \in Seq(Report)
    OBVIOUS
  <2> QED BY <1>1, <1>2, <2>1 DEF Closed, ObjectType
<1> QED BY <1>3 DEF Closed, ObjectType

\* What a mask with 12, 0 or 1 bits of the product leaves out.
LEMMA Masked ==
    ASSUME NEW p \in Nat
    PROVE  /\ p - (p % 4096) = 0 <=> p \in 0 .. 4095
           /\ p - (p % 1) = p
           /\ p - (p % 2) = 10202 <=> p = 10202 \/ p = 10203
<1>1. p - (p % 4096) = 0 <=> p \in 0 .. 4095
  OBVIOUS
<1>2. p - (p % 1) = p
  OBVIOUS
<1>3. p - (p % 2) = 10202 <=> p = 10202 \/ p = 10203
  OBVIOUS
<1> QED BY <1>1, <1>2, <1>3

\* The masks of usb_device_allowed (usb-vid-pid.cc) let in exactly the ranges
\* of products that IsAllowed lists.
LEMMA MasksAreRanges ==
    ASSUME NEW vid \in Nat, NEW pid \in Nat
    PROVE  usb_device_allowed(vid, pid) <=>
             \/ vid = 4617 /\ pid \in 0 .. 4095
             \/ vid = 5824 /\ pid \in {1503} \cup 10201 .. 10204
<1>1. usb_device_allowed(vid, pid) <=>
        \/ vid = 4617 /\ pid - (pid % 4096) = 0
        \/ vid = 5824 /\ pid - (pid % 1) = 1503
        \/ vid = 5824 /\ pid - (pid % 1) = 10201
        \/ vid = 5824 /\ pid - (pid % 2) = 10202
        \/ vid = 5824 /\ pid - (pid % 1) = 10204
  BY DEF usb_device_allowed, AllowedDevices
<1>2. pid - (pid % 4096) = 0 <=> pid \in 0 .. 4095
  BY Masked
<1>3. pid - (pid % 1) = pid
  BY Masked
<1>4. pid - (pid % 2) = 10202 <=> pid = 10202 \/ pid = 10203
  BY Masked
<1>5. pid \in {1503} \cup 10201 .. 10204 <=>
        pid = 1503 \/ pid = 10201 \/ pid = 10202 \/ pid = 10203 \/ pid = 10204
  OBVIOUS
<1> QED BY <1>1, <1>2, <1>3, <1>4, <1>5

LEMMA AllowedIsListed ==
    ASSUME NEW info \in Info
    PROVE  Allowed(info) <=> info.interface \in {-1, 1} /\ IsAllowed(info)
<1>1. PICK v \in Nat, p \in Nat : info.vendor = v /\ info.product = p
  BY DEF Info
<1>2. usb_device_allowed(v, p) <=>
        \/ v = 4617 /\ p \in 0 .. 4095
        \/ v = 5824 /\ p \in {1503} \cup 10201 .. 10204
  BY MasksAreRanges
<1>3. usb_device_allowed(v, p) <=> IsAllowed(info)
  BY <1>1, <1>2 DEF IsAllowed
<1> QED BY <1>1, <1>3 DEF Allowed
-----------------------------------------------------------------------------
(* The inductive invariant: the properties, and what holds at each label.  *)

\* What an operation that is being executed has established about the handle.
Where ==
    /\ pc # "idle" => /\ outcome = "none"
                      /\ op \in {"open", "identify"}
                      /\ received = NoWrite
    /\ pc = "handle" => object.handle = NoDevice
    /\ pc \in {"info", "reports"} => object.handle \in Devices /\ object.reports = <<>>
    /\ pc = "reports" => object.device_info = InfoOf(object.handle)
    /\ (pc = "reports" \/ object.reports # <<>>) /\ platform = "windows" =>
           object.handle.interface # -1
    /\ pc \in {"allowed", "usage", "send", "write"} =>
           op = "identify" /\ object.handle \in Devices

\* What the checks of identify() have established.  A device_info that was
\* never set may have passed, but then there are no reports.
Checked ==
    /\ pc \in {"usage", "send", "write"} =>
           object.device_info = Indeterminate \/ Allowed(object.device_info)
    /\ pc \in {"send", "write"} =>
           /\ object.reports # <<>>
           /\ object.reports[1].raw
           /\ object.report_count = object.reports[1].count
    /\ pc = "write" => object.report_count >= CommandSize - 1

\* On Linux the number of the interface is never known.
Unnumbered(info) ==
    info \notin {Indeterminate, NullInfo} /\ platform = "linux" => info.interface = -1

Inv ==
    /\ TypeOK
    /\ Where
    /\ Checked
    /\ Unnumbered(object.device_info)
    /\ CacheIsOfHandle
    /\ SentOnlyToQMK
    /\ SuccessIsDelivered
    /\ ListedDeviceIsServed

\* What ListedDeviceIsServed says of a device that has been turned away.
TurnedAway(info) ==
    info \notin {Indeterminate, NullInfo} =>
        ~IsAllowed(info) \/ (platform = "windows" /\ info.interface # 1)

LEMMA InitInv == Init => Inv
<1> SUFFICES ASSUME Init PROVE Inv
  OBVIOUS
<1>1. TypeOK
  <2>1. 0 \in 0 .. Modulus - 1 /\ <<>> \in Seq(Report)
    BY ModulusAssumption DEF CommandSize
  <2>2. received \in [device : Devices \cup {NoDevice}, size : Nat]
    BY DEF Init, NewObject, NoWrite
  <2> QED BY <2>1, <2>2 DEF Init, NewObject, TypeOK, Label, Outcome
<1>2. Where /\ Checked /\ Unnumbered(object.device_info)
  BY DEF Init, NewObject, Where, Checked, Unnumbered
<1>3. CacheIsOfHandle /\ SentOnlyToQMK
  BY DEF Init, NewObject, CacheIsOfHandle, SentOnlyToQMK, NoWrite
<1>4. SuccessIsDelivered /\ ListedDeviceIsServed
  BY DEF Init, NewObject, SuccessIsDelivered, ListedDeviceIsServed
<1> QED BY <1>1, <1>2, <1>3, <1>4 DEF Inv

(***************************************************************************)
(* An exception keeps the invariant if the object that it leaves has no    *)
(* reports, or those it had, and if a device is turned away for a reason.  *)
(***************************************************************************)
LEMMA ThrowInv ==
    ASSUME Inv, pc # "idle",
           NEW e \in Outcome \ {"none", "ok"}, NEW o \in ObjectType, Throw(e, o),
           o = object \/ o.reports = <<>>,
           Unnumbered(o.device_info),
           e = "DisallowedUSBDevice" => TurnedAway(o.device_info),
           received' \in [device : Devices \cup {NoDevice}, size : Nat],
           SentOnlyToQMK'
    PROVE  Inv'
<1>1. /\ outcome' = e /\ pc' = "idle" /\ op' = op /\ platform' = platform
      /\ present' = present /\ gone' = gone
      /\ op = "open" => object' = Closed(o)
      /\ op # "open" => object' = o
  BY DEF Throw
<1>2. op \in {"open", "identify"}
  BY DEF Inv, Where
<1>3. object' \in ObjectType
  BY <1>1, ClosedType
<1>4. TypeOK'
  BY <1>1, <1>3 DEF Inv, TypeOK, ObjectType, Label
<1>5. object' = object \/ object'.reports = <<>>
  BY <1>1, ClosedType
<1>6. Where'
  BY <1>1, <1>5 DEF Inv, Where
<1>7. Checked'
  BY <1>1 DEF Checked
<1>8. Unnumbered(object.device_info)'
  BY <1>1, ClosedType DEF Unnumbered
<1>9. CacheIsOfHandle'
  BY <1>1, <1>5 DEF Inv, CacheIsOfHandle, InfoOf, ReportOf, CountOf
<1>10. SuccessIsDelivered'
  BY <1>1 DEF SuccessIsDelivered
<1>11. ListedDeviceIsServed'
  BY <1>1, <1>2 DEF ListedDeviceIsServed, TurnedAway
<1> QED BY <1>4, <1>6, <1>7, <1>8, <1>9, <1>10, <1>11 DEF Inv

\* An operation that has not written anything throws and leaves its object.
LEMMA ThrowAsItIs ==
    ASSUME Inv, pc # "idle", UNCHANGED received,
           NEW e \in Outcome \ {"none", "ok", "DisallowedUSBDevice"}, Throw(e, object)
    PROVE  Inv'
<1>1. object \in ObjectType
  BY DEF Inv, TypeOK, ObjectType
<1>2. Unnumbered(object.device_info)
  BY DEF Inv
<1>3. received' \in [device : Devices \cup {NoDevice}, size : Nat]
  BY DEF Inv, TypeOK
<1>4. platform' = platform
  BY DEF Throw
<1>5. SentOnlyToQMK'
  BY <1>4 DEF Inv, SentOnlyToQMK
<1> QED BY <1>1, <1>2, <1>3, <1>5, ThrowInv

(***************************************************************************)
(* The calls, and the user.                                                *)
(***************************************************************************)
LEMMA CallInv == Inv /\ (CallOpen \/ CallIdentify \/ CallClose) => Inv'
<1> SUFFICES ASSUME Inv, CallOpen \/ CallIdentify \/ CallClose PROVE Inv'
  OBVIOUS
<1>1. /\ pc = "idle" /\ received' = NoWrite
      /\ platform' = platform /\ present' = present /\ gone' = gone
  BY DEF CallOpen, CallIdentify, CallClose, Call
<1>2. object' = object \/ (CallClose /\ object' = Closed(object))
  BY DEF CallOpen, CallIdentify, CallClose
<1>3. object \in ObjectType
  BY DEF Inv, TypeOK, ObjectType
<1>4. object' \in ObjectType
  BY <1>2, <1>3, ClosedType
<1>5. pc' \in {"idle", "handle", "allowed"} /\ op' \in {"open", "identify", "close"}
  BY <1>1 DEF CallOpen, CallIdentify, CallClose, Call
<1>6. /\ outcome' \in {"none", "ok"}
      /\ pc' # "idle" => outcome' = "none" /\ op' \in {"open", "identify"}
      /\ op' = "identify" => outcome' = "none" /\ pc' # "idle"
      /\ pc' = "handle" => object'.handle = NoDevice
      /\ pc' = "allowed" => op' = "identify" /\ object'.handle # NoDevice
  BY <1>1 DEF CallOpen, CallIdentify, CallClose, Call
<1>7. TypeOK'
  <2>1. received' \in [device : Devices \cup {NoDevice}, size : Nat]
    BY <1>1 DEF NoWrite
  <2>2. pc' \in Label /\ outcome' \in Outcome
    BY <1>5, <1>6 DEF Label, Outcome
  <2> QED BY <1>1, <1>4, <1>5, <2>1, <2>2 DEF Inv, TypeOK, ObjectType
<1>8. object' = object \/ object'.reports = <<>>
  BY <1>2, <1>3, ClosedType
<1>9. Where'
  <2>1. object'.handle \in Devices \cup {NoDevice}
    BY <1>4 DEF ObjectType
  <2> QED BY <1>1, <1>5, <1>6, <1>8, <2>1 DEF Inv, Where
<1>10. Checked'
  BY <1>5 DEF Checked
<1>11. Unnumbered(object.device_info)'
  BY <1>1, <1>2, <1>3, ClosedType DEF Inv, Unnumbered
<1>12. CacheIsOfHandle'
  BY <1>1, <1>8 DEF Inv, CacheIsOfHandle, InfoOf, ReportOf, CountOf
<1>13. SentOnlyToQMK'
  BY <1>1 DEF SentOnlyToQMK, NoWrite
<1>14. SuccessIsDelivered' /\ ListedDeviceIsServed'
  BY <1>6 DEF SuccessIsDelivered, ListedDeviceIsServed
<1> QED BY <1>7, <1>9, <1>10, <1>11, <1>12, <1>13, <1>14 DEF Inv

\* Nothing that the operations rely on is changed from outside.
LEMMA PlaceInv ==
    ASSUME Inv, UNCHANGED <<platform, object, op, pc, outcome, received>>,
           present' \in Devices \cup {NoDevice}, gone' \in BOOLEAN
    PROVE  Inv'
<1>1. UNCHANGED <<platform, object, op, pc, outcome, received>>
  OBVIOUS
<1>2. TypeOK'
  BY <1>1 DEF Inv, TypeOK
<1>3. Where' /\ Checked' /\ Unnumbered(object.device_info)'
  BY <1>1 DEF Inv, Where, Checked, Unnumbered, InfoOf, Allowed
<1>4. CacheIsOfHandle' /\ SentOnlyToQMK'
  BY <1>1 DEF Inv, CacheIsOfHandle, SentOnlyToQMK, InfoOf, ReportOf, CountOf
<1>5. SuccessIsDelivered' /\ ListedDeviceIsServed'
  BY <1>1 DEF Inv, SuccessIsDelivered, ListedDeviceIsServed
<1> QED BY <1>2, <1>3, <1>4, <1>5 DEF Inv

LEMMA UserInv == ASSUME Inv, Unplug \/ \E d \in Devices : Plug(d) PROVE Inv'
BY PlaceInv DEF Unplug, Plug, Inv, TypeOK

LEMMA StutterInv == ASSUME Inv, UNCHANGED vars PROVE Inv'
BY PlaceInv DEF vars, Inv, TypeOK

(***************************************************************************)
(* An operation that goes on, or an open() that ends, has written nothing; *)
(* what it has to keep is what holds at its next label.                    *)
(***************************************************************************)
LEMMA ProceedInv ==
    ASSUME Inv, pc # "idle",
           UNCHANGED <<platform, present, op, received>>, gone' \in BOOLEAN,
           object' \in ObjectType, pc' \in Label,
           \/ pc' # "idle" /\ UNCHANGED outcome
           \/ pc' = "idle" /\ op = "open" /\ outcome' = "ok",
           Where', Checked', Unnumbered(object.device_info)', CacheIsOfHandle'
    PROVE  Inv'
<1>1. outcome = "none" /\ received' = NoWrite
  BY DEF Inv, Where
<1>2. outcome' \in {"none", "ok"} /\ (op' = "identify" => outcome' = "none")
  BY <1>1
<1>3. TypeOK'
  BY <1>2 DEF Inv, TypeOK, ObjectType, Outcome
<1>4. SentOnlyToQMK'
  BY <1>1 DEF SentOnlyToQMK, NoWrite
<1>5. SuccessIsDelivered' /\ ListedDeviceIsServed'
  BY <1>2 DEF SuccessIsDelivered, ListedDeviceIsServed
<1> QED BY <1>3, <1>4, <1>5 DEF Inv

LEMMA OpenHandleInv == Inv /\ OpenHandle => Inv'
<1> SUFFICES ASSUME Inv, OpenHandle PROVE Inv'
  OBVIOUS
<1>1. pc = "handle" /\ object.handle = NoDevice /\ object.reports = <<>>
  BY DEF OpenHandle, Inv, Where, CacheIsOfHandle
<1>2. CASE Throw("UnavailableDevice", object)
  <2>1. UNCHANGED received
    BY DEF OpenHandle
  <2>2. "UnavailableDevice" \in Outcome \ {"none", "ok", "DisallowedUSBDevice"}
    BY DEF Outcome, Unsupported
  <2> QED BY <1>1, <1>2, <2>1, <2>2, ThrowAsItIs
<1>3. CASE /\ present # NoDevice
           /\ object' = [object EXCEPT !.handle = present]
           /\ gone' = FALSE
           /\ pc' = "info"
           /\ UNCHANGED <<platform, present, op, outcome, received>>
  <2>1. present \in Devices /\ object \in ObjectType
    BY <1>3 DEF Inv, TypeOK, ObjectType
  <2>2. /\ object' \in ObjectType
        /\ object'.handle \in Devices /\ object'.reports = <<>>
        /\ object'.device_info = object.device_info
    BY <1>1, <1>3, <2>1 DEF ObjectType
  <2>3. Where'
    BY <1>1, <1>3, <2>2 DEF Inv, Where
  <2>4. Checked' /\ CacheIsOfHandle'
    BY <1>3, <2>2 DEF Checked, CacheIsOfHandle
  <2>5. Unnumbered(object.device_info)'
    BY <1>3, <2>2 DEF Inv, Unnumbered
  <2>6. pc' \in Label
    BY <1>3 DEF Label
  <2> QED BY <1>1, <1>3, <2>2, <2>3, <2>4, <2>5, <2>6, ProceedInv
<1> QED BY <1>2, <1>3 DEF OpenHandle

LEMMA DeviceInfoInv == Inv /\ DeviceInfo => Inv'
<1> SUFFICES ASSUME Inv, DeviceInfo PROVE Inv'
  OBVIOUS
<1> DEFINE info == InfoOf(object.handle)
           o == [object EXCEPT !.device_info = info]
<1>1. /\ pc = "info" /\ object.handle \in Devices /\ object.reports = <<>>
      /\ object \in ObjectType /\ UNCHANGED received
      /\ platform \in {"linux", "windows"}
  BY PlatformsAssumption DEF DeviceInfo, Inv, Where, TypeOK, ObjectType
<1>2. /\ info \in Info
      /\ platform = "linux" => info.interface = -1
      /\ platform # "linux" => info.interface = object.handle.interface
  BY <1>1, InfoType
<1>3. /\ o \in ObjectType /\ o.device_info = info
      /\ o.handle = object.handle /\ o.reports = <<>>
  BY <1>1, <1>2 DEF ObjectType
<1>4. Unnumbered(o.device_info)
  BY <1>2, <1>3 DEF Unnumbered
<1>5. CASE Throw("OSError", object)
  <2>1. "OSError" \in Outcome \ {"none", "ok", "DisallowedUSBDevice"}
    BY DEF Outcome
  <2> QED BY <1>1, <1>5, <2>1, ThrowAsItIs
<1>6. CASE /\ platform = "windows" /\ info.interface = -1
           /\ Throw("DisallowedUSBDevice", o)
  <2>1. "DisallowedUSBDevice" \in Outcome \ {"none", "ok"}
    BY DEF Outcome, Unsupported
  <2>2. TurnedAway(o.device_info)
    BY <1>3, <1>6 DEF TurnedAway
  <2>3. received' \in [device : Devices \cup {NoDevice}, size : Nat]
    BY <1>1 DEF Inv, TypeOK
  <2>4. SentOnlyToQMK'
    BY <1>1, <1>6 DEF Inv, SentOnlyToQMK, Throw
  <2> HIDE DEF o
  <2> QED BY <1>1, <1>3, <1>4, <1>6, <2>1, <2>2, <2>3, <2>4, ThrowInv
<1>7. CASE /\ ~(platform = "windows" /\ info.interface = -1)
           /\ object' = o
           /\ pc' = "reports"
           /\ UNCHANGED <<platform, present, gone, op, outcome>>
  <2>1. Where'
    <3>1. (object.device_info = InfoOf(object.handle))'
      BY <1>3, <1>7 DEF InfoOf
    <3> HIDE DEF o
    <3> QED BY <1>1, <1>2, <1>3, <1>7, <3>1 DEF Inv, Where
  <2> HIDE DEF o
  <2>2. Checked' /\ CacheIsOfHandle'
    BY <1>3, <1>7 DEF Checked, CacheIsOfHandle
  <2>3. Unnumbered(object.device_info)'
    BY <1>4, <1>7 DEF Unnumbered
  <2>4. pc' \in Label /\ gone' \in BOOLEAN
    BY <1>7 DEF Label, Inv, TypeOK
  <2> QED BY <1>1, <1>3, <1>7, <2>1, <2>2, <2>3, <2>4, ProceedInv
<1> QED BY <1>5, <1>6, <1>7 DEF DeviceInfo

(***************************************************************************)
(* The report of the device is appended to none, so there is one then.     *)
(***************************************************************************)
LEMMA ReportsRead ==
    ASSUME Inv, pc = "reports", Opened, UNCHANGED <<platform, present, gone, op, received>>,
           NEW o \in ObjectType,
           o.handle = object.handle, o.device_info = object.device_info,
           o.reports = object.reports,
           platform = "windows" => o.report_length = o.handle.length,
           object' = [o EXCEPT !.reports = Append(@, ReportOf(object.handle))]
    PROVE  Inv'
<1>1. /\ object.handle \in Devices /\ object.reports = <<>>
      /\ object.device_info = InfoOf(object.handle)
      /\ platform = "windows" => object.handle.interface # -1
      /\ op \in {"open", "identify"} /\ outcome = "none"
  BY DEF Inv, Where
<1>2. ReportOf(object.handle) \in Report
  BY <1>1, ReportType
<1>3. Append(o.reports, ReportOf(object.handle)) = <<ReportOf(object.handle)>>
  BY <1>1
<1>4. <<ReportOf(object.handle)>> \in Seq(Report) /\ <<ReportOf(object.handle)>> # <<>>
  BY <1>2
<1>5. /\ object' \in ObjectType
      /\ object'.handle = object.handle
      /\ object'.device_info = object.device_info
      /\ object'.reports = <<ReportOf(object.handle)>>
      /\ object'.report_length = o.report_length
  BY <1>3, <1>4 DEF ObjectType
<1>6. /\ InfoOf(object.handle)' = InfoOf(object.handle)
      /\ ReportOf(object.handle)' = ReportOf(object.handle)
  BY <1>5 DEF InfoOf, ReportOf, CountOf
<1>7. CacheIsOfHandle'
  <2>1. object'.handle # NoDevice
    BY <1>1, <1>5, DeviceFields
  <2> QED BY <1>1, <1>5, <1>6, <2>1 DEF CacheIsOfHandle
<1>8. \/ pc' = "idle" /\ op = "open" /\ outcome' = "ok"
      \/ pc' = "allowed" /\ op = "identify" /\ UNCHANGED outcome
  BY <1>1 DEF Opened
<1>9. Where'
  BY <1>1, <1>5, <1>8 DEF Inv, Where
<1>10. Checked'
  BY <1>8 DEF Checked
<1>11. Unnumbered(object.device_info)'
  BY <1>5 DEF Inv, Unnumbered
<1>12. pc' \in Label /\ gone' \in BOOLEAN
  BY <1>8 DEF Label, Inv, TypeOK
<1> QED BY <1>5, <1>7, <1>8, <1>9, <1>10, <1>11, <1>12, ProceedInv

LEMMA LinuxReportsInv == Inv /\ LinuxReports => Inv'
<1> SUFFICES ASSUME Inv, LinuxReports PROVE Inv'
  OBVIOUS
<1>1. /\ pc = "reports" /\ platform = "linux" /\ UNCHANGED received
      /\ object \in ObjectType
  BY DEF LinuxReports, Inv, TypeOK, ObjectType
<1>2. CASE /\ object' = [object EXCEPT !.reports = Append(@, ReportOf(object.handle))]
           /\ Opened
           /\ UNCHANGED <<platform, present, gone, op>>
  BY <1>1, <1>2, ReportsRead
<1>3. CASE /\ pc' = "parsing"
           /\ UNCHANGED <<platform, present, gone, object, op, outcome>>
  <2>1. Where'
    BY <1>1, <1>3 DEF Inv, Where
  <2>2. Checked'
    BY <1>3 DEF Checked
  <2>3. CacheIsOfHandle'
    BY <1>3 DEF Inv, CacheIsOfHandle, InfoOf, ReportOf, CountOf
  <2>4. pc' \in Label /\ gone' \in BOOLEAN /\ Unnumbered(object.device_info)'
    BY <1>3 DEF Label, Inv, TypeOK, Unnumbered
  <2> QED BY <1>1, <1>3, <2>1, <2>2, <2>3, <2>4, ProceedInv
<1>4. CASE \E e \in {"OSError", "OSLengthError"} : Throw(e, object)
  <2>1. {"OSError", "OSLengthError"} \subseteq
            Outcome \ {"none", "ok", "DisallowedUSBDevice"}
    BY DEF Outcome
  <2> QED BY <1>1, <1>4, <2>1, ThrowAsItIs
<1> QED BY <1>2, <1>3, <1>4 DEF LinuxReports

LEMMA WindowsReportsInv == Inv /\ WindowsReports => Inv'
<1> SUFFICES ASSUME Inv, WindowsReports PROVE Inv'
  OBVIOUS
<1> DEFINE o == [object EXCEPT !.report_length = object.handle.length]
<1>1. /\ pc = "reports" /\ platform = "windows" /\ UNCHANGED received
      /\ object \in ObjectType /\ object.handle \in Devices /\ object.reports = <<>>
  BY DEF WindowsReports, Inv, Where, TypeOK, ObjectType
<1>2. /\ o \in ObjectType
      /\ o.handle = object.handle /\ o.device_info = object.device_info
      /\ o.reports = object.reports /\ o.report_length = o.handle.length
  BY <1>1, DeviceFields DEF ObjectType
<1>3. CASE Throw("OSError", object)
  <2>1. "OSError" \in Outcome \ {"none", "ok", "DisallowedUSBDevice"}
    BY DEF Outcome
  <2> QED BY <1>1, <1>3, <2>1, ThrowAsItIs
<1>4. CASE Throw("OSError", o) \/ Throw("UnsupportedHIDReportDescriptor", o)
  <2>1. {"OSError", "UnsupportedHIDReportDescriptor"} \subseteq
            Outcome \ {"none", "ok", "DisallowedUSBDevice"}
    BY DEF Outcome, Unsupported
  <2>2. Unnumbered(o.device_info)
    BY <1>2 DEF Inv
  <2>3. received' \in [device : Devices \cup {NoDevice}, size : Nat]
    BY <1>1 DEF Inv, TypeOK
  <2>4. SentOnlyToQMK'
    BY <1>1, <1>4 DEF Inv, SentOnlyToQMK, Throw
  <2> HIDE DEF o
  <2> QED BY <1>1, <1>2, <1>4, <2>1, <2>2, <2>3, <2>4, ThrowInv
<1>5. CASE /\ object' = [o EXCEPT !.reports = Append(@, ReportOf(object.handle))]
           /\ Opened
           /\ UNCHANGED <<platform, present, gone, op>>
  <2> HIDE DEF o
  <2> QED BY <1>1, <1>2, <1>5, ReportsRead
<1> QED BY <1>3, <1>4, <1>5 DEF WindowsReports

(***************************************************************************)
(* The checks of identify().                                               *)
(***************************************************************************)
LEMMA CheckAllowedInv == Inv /\ CheckAllowed => Inv'
<1> SUFFICES ASSUME Inv, CheckAllowed PROVE Inv'
  OBVIOUS
<1> DEFINE info == object.device_info
<1>1. /\ pc = "allowed" /\ UNCHANGED received /\ object \in ObjectType
      /\ op = "identify" /\ object.handle \in Devices
      /\ info \in Info \cup {Indeterminate}
      /\ platform \in {"linux", "windows"}
  BY PlatformsAssumption DEF CheckAllowed, Inv, Where, TypeOK, ObjectType
<1>2. CASE /\ info = Indeterminate \/ Allowed(info)
           /\ pc' = "usage"
           /\ UNCHANGED <<platform, present, gone, object, op, outcome>>
  <2>1. Where'
    BY <1>1, <1>2 DEF Inv, Where
  <2>2. Checked'
    BY <1>2 DEF Checked, Allowed
  <2>3. Unnumbered(object.device_info)'
    BY <1>2 DEF Inv, Unnumbered
  <2>4. CacheIsOfHandle'
    BY <1>2 DEF Inv, CacheIsOfHandle, InfoOf, ReportOf, CountOf
  <2>5. pc' \in Label /\ gone' \in BOOLEAN /\ object' \in ObjectType
    BY <1>1, <1>2 DEF Label, Inv, TypeOK
  <2> QED BY <1>1, <1>2, <2>1, <2>2, <2>3, <2>4, <2>5, ProceedInv
<1>3. CASE /\ info = Indeterminate \/ (info # Indeterminate /\ ~Allowed(info))
           /\ Throw("DisallowedUSBDevice", object)
  <2>1. "DisallowedUSBDevice" \in Outcome \ {"none", "ok"}
    BY DEF Outcome, Unsupported
  <2>2. Unnumbered(info)
    BY DEF Inv
  <2>3. TurnedAway(info)
    <3> SUFFICES ASSUME info \notin {Indeterminate, NullInfo}
                 PROVE  ~IsAllowed(info) \/ (platform = "windows" /\ info.interface # 1)
      BY DEF TurnedAway
    <3>1. info \in Info /\ ~Allowed(info)
      BY <1>1, <1>3
    <3>2. ~(info.interface \in {-1, 1}) \/ ~IsAllowed(info)
      BY <3>1, AllowedIsListed
    <3>3. platform = "linux" => info.interface = -1
      BY <2>2 DEF Unnumbered
    <3> QED BY <1>1, <3>2, <3>3
  <2>4. received' \in [device : Devices \cup {NoDevice}, size : Nat]
    BY <1>1 DEF Inv, TypeOK
  <2>5. SentOnlyToQMK'
    BY <1>1, <1>3 DEF Inv, SentOnlyToQMK, Throw
  <2> QED BY <1>1, <1>3, <2>1, <2>2, <2>3, <2>4, <2>5, ThrowInv
<1> QED BY <1>2, <1>3 DEF CheckAllowed

LEMMA CheckReportsInv == Inv /\ CheckReports => Inv'
<1> SUFFICES ASSUME Inv, CheckReports PROVE Inv'
  OBVIOUS
<1>1. /\ pc = "usage" /\ UNCHANGED received /\ object \in ObjectType
      /\ op = "identify" /\ object.handle \in Devices
  BY DEF CheckReports, Inv, Where, TypeOK, ObjectType
<1>2. CASE Throw("UnsupportedHIDReportUsage", object)
  <2>1. "UnsupportedHIDReportUsage" \in Outcome \ {"none", "ok", "DisallowedUSBDevice"}
    BY DEF Outcome, Unsupported
  <2> QED BY <1>1, <1>2, <2>1, ThrowAsItIs
<1>3. CASE \E i \in Matching :
             /\ object' = [object EXCEPT !.report_count = object.reports[i].count]
             /\ pc' = "send"
             /\ UNCHANGED <<platform, present, gone, op, outcome>>
  <2>1. PICK i \in Matching :
             /\ object' = [object EXCEPT !.report_count = object.reports[i].count]
             /\ pc' = "send"
             /\ UNCHANGED <<platform, present, gone, op, outcome>>
    BY <1>3
  <2>2. i \in DOMAIN object.reports /\ object.reports[i].raw
    BY DEF Matching
  <2>3. object.reports # <<>>
    BY <2>2
  <2>4. object.reports = <<ReportOf(object.handle)>>
    BY <2>3 DEF Inv, CacheIsOfHandle
  <2>5. i = 1
    BY <2>2, <2>4
  <2>6. object.reports[1] \in Report
    BY <1>1, <2>4, ReportType
  <2>7. /\ object' \in ObjectType
        /\ object'.handle = object.handle /\ object'.device_info = object.device_info
        /\ object'.reports = object.reports
        /\ object'.report_length = object.report_length
        /\ object'.report_count = object.reports[1].count
    BY <1>1, <2>1, <2>5, <2>6 DEF ObjectType, Report
  <2>8. Where'
    BY <1>1, <2>1, <2>7 DEF Inv, Where
  <2>9. Checked'
    BY <1>1, <2>1, <2>2, <2>3, <2>5, <2>7 DEF Inv, Checked, Allowed
  <2>10. Unnumbered(object.device_info)'
    BY <2>1, <2>7 DEF Inv, Unnumbered
  <2>11. CacheIsOfHandle'
    BY <2>1, <2>7 DEF Inv, CacheIsOfHandle, InfoOf, ReportOf, CountOf
  <2>12. pc' \in Label /\ gone' \in BOOLEAN
    BY <2>1 DEF Label, Inv, TypeOK
  <2> QED BY <1>1, <2>1, <2>7, <2>8, <2>9, <2>10, <2>11, <2>12, ProceedInv
<1> QED BY <1>2, <1>3 DEF CheckReports

LEMMA SendReportInv == Inv /\ SendReport => Inv'
<1> SUFFICES ASSUME Inv, SendReport PROVE Inv'
  OBVIOUS
<1>1. /\ pc = "send" /\ UNCHANGED received /\ object \in ObjectType
      /\ op = "identify" /\ object.report_count \in 0 .. Modulus - 1
  BY DEF SendReport, Inv, Where, TypeOK, ObjectType
<1>2. CASE Throw("IOLengthError", object)
  <2>1. "IOLengthError" \in Outcome \ {"none", "ok", "DisallowedUSBDevice"}
    BY DEF Outcome
  <2> QED BY <1>1, <1>2, <2>1, ThrowAsItIs
<1>3. CASE /\ ~(object.report_count < CommandSize - 1)
           /\ pc' = "write"
           /\ UNCHANGED <<platform, present, gone, object, op, outcome>>
  <2>1. object'.report_count >= CommandSize - 1
    BY <1>1, <1>3, ModulusAssumption DEF CommandSize
  <2>2. Where'
    BY <1>1, <1>3 DEF Inv, Where
  <2>3. Checked'
    BY <1>1, <1>3, <2>1 DEF Inv, Checked, Allowed
  <2>4. Unnumbered(object.device_info)'
    BY <1>3 DEF Inv, Unnumbered
  <2>5. CacheIsOfHandle'
    BY <1>3 DEF Inv, CacheIsOfHandle, InfoOf, ReportOf, CountOf
  <2>6. pc' \in Label /\ gone' \in BOOLEAN /\ object' \in ObjectType
    BY <1>1, <1>3 DEF Label, Inv, TypeOK
  <2> QED BY <1>1, <1>3, <2>2, <2>3, <2>4, <2>5, <2>6, ProceedInv
<1> QED BY <1>2, <1>3 DEF SendReport

(***************************************************************************)
(* What is written to has passed every check, and the size is its own.     *)
(***************************************************************************)
LEMMA Target ==
    ASSUME Inv, pc = "write"
    PROVE  /\ object.handle \in Devices
           /\ IsAllowed(object.handle) /\ object.handle.descriptor = "raw"
           /\ platform = "windows" => object.handle.interface = 1
           /\ platform = "windows" => object.report_length = object.handle.length
           /\ object.report_count = CountOf(object.handle)
           /\ object.report_count \in 0 .. Modulus - 1
           /\ object.report_count >= CommandSize - 1
           /\ platform \in {"linux", "windows"}
<1>1. /\ object.handle \in Devices /\ platform \in {"linux", "windows"}
      /\ object.report_count \in 0 .. Modulus - 1
      /\ object.report_count >= CommandSize - 1
  BY PlatformsAssumption DEF Inv, Where, Checked, TypeOK
<1>2. /\ object.reports # <<>>
      /\ object.reports = <<ReportOf(object.handle)>>
      /\ object.device_info = InfoOf(object.handle)
      /\ platform = "windows" => object.report_length = object.handle.length
      /\ platform = "windows" => object.handle.interface # -1
  BY DEF Inv, Checked, CacheIsOfHandle, Where
<1>3. object.reports[1] = ReportOf(object.handle)
  BY <1>2
<1>4. object.handle.descriptor = "raw" /\ object.report_count = CountOf(object.handle)
  <2>1. /\ ReportOf(object.handle).raw = (object.handle.descriptor = "raw")
        /\ ReportOf(object.handle).count = CountOf(object.handle)
    BY DEF ReportOf
  <2>2. object.reports[1].raw /\ object.report_count = object.reports[1].count
    BY DEF Inv, Checked
  <2>3. ReportOf(object.handle).raw
    BY <1>3, <2>2
  <2> QED BY <1>3, <2>1, <2>2, <2>3
<1>5. InfoOf(object.handle) \in Info /\ Allowed(InfoOf(object.handle))
  BY <1>1, <1>2, InfoType, IndeterminateAssumption DEF Inv, Checked
<1>6. /\ IsAllowed(InfoOf(object.handle))
      /\ InfoOf(object.handle).interface \in {-1, 1}
  BY <1>5, AllowedIsListed
<1>7. IsAllowed(object.handle)
  <2>1. PICK v \in Nat, p \in Nat : object.handle.vendor = v /\ object.handle.product = p
    BY <1>1, DeviceFields
  <2>2. /\ InfoOf(object.handle).vendor = v
        /\ InfoOf(object.handle).product = p
    BY <1>1, <2>1, InfoType
  <2> QED BY <1>6, <2>1, <2>2 DEF IsAllowed
<1>8. platform = "windows" => object.handle.interface = 1
  BY <1>1, <1>2, <1>6, InfoType
<1> QED BY <1>1, <1>2, <1>4, <1>7, <1>8

\* The size of the data wraps only if the count is the largest one, to zero.
LEMMA DataSizes ==
    ASSUME object.report_count \in 0 .. Modulus - 1
    PROVE  /\ DataSize \in Nat
           /\ object.report_count # Modulus - 1 => DataSize = 1 + object.report_count
           /\ object.report_count = Modulus - 1 => DataSize = 0
<1>1. Modulus \in Nat /\ Modulus > 0
  BY ModulusAssumption DEF CommandSize
<1>2. 1 + object.report_count \in Nat
  BY <1>1
<1>3. DataSize \in Nat
  BY <1>1, <1>2, ModuloRange DEF DataSize
<1>4. CASE object.report_count # Modulus - 1
  <2>1. 1 + object.report_count \in 0 .. Modulus - 1
    BY <1>1, <1>4
  <2>2. DataSize = 1 + object.report_count
    BY <1>1, <2>1, SmallModulo DEF DataSize
  <2> QED BY <1>3, <1>4, <2>2
<1>5. CASE object.report_count = Modulus - 1
  <2>1. 1 + object.report_count = Modulus
    BY <1>1, <1>5
  <2>2. DataSize = 0
    BY <1>1, <2>1 DEF DataSize
  <2> QED BY <1>3, <1>5, <2>2
<1> QED BY <1>4, <1>5

LEMMA WriteFailsInv ==
    ASSUME Inv, pc = "write", NEW size \in Nat, WriteFails(size)
    PROVE  Inv'
<1>1. Throw("IOError", object)
  BY DEF WriteFails
<1>2. object \in ObjectType /\ Unnumbered(object.device_info)
  BY DEF Inv, TypeOK, ObjectType
<1>3. "IOError" \in Outcome \ {"none", "ok", "DisallowedUSBDevice"}
  BY DEF Outcome
<1>4. platform' = platform
  BY <1>1 DEF Throw
<1>5. \/ UNCHANGED received
      \/ \E n \in 0 .. size : received' = [device |-> object.handle, size |-> n]
  BY DEF WriteFails, Deliver
<1>6. received' \in [device : Devices \cup {NoDevice}, size : Nat]
  BY <1>5, Target DEF Inv, TypeOK
<1>7. SentOnlyToQMK'
  <2>1. CASE UNCHANGED received
    BY <1>4, <2>1 DEF Inv, SentOnlyToQMK
  <2>2. CASE \E n \in 0 .. size : received' = [device |-> object.handle, size |-> n]
    BY <1>4, <2>2, Target DEF SentOnlyToQMK
  <2> QED BY <1>5, <2>1, <2>2
<1> QED BY <1>1, <1>2, <1>3, <1>6, <1>7, ThrowInv

LEMMA WrittenInv ==
    ASSUME Inv, pc = "write", NEW size \in Nat, Deliver(size), Written,
           size >= CommandSize,
           platform = "linux" => size = 1 + object.handle.count,
           platform = "windows" => size = object.handle.length
    PROVE  Inv'
<1>1. /\ pc' = "idle" /\ outcome' = "ok"
      /\ UNCHANGED <<platform, present, gone, object, op>>
      /\ received' = [device |-> object.handle, size |-> size]
  BY DEF Written, Deliver
<1>2. op = "identify"
  BY DEF Inv, Where
<1>3. TypeOK'
  <2>1. received' \in [device : Devices \cup {NoDevice}, size : Nat]
    BY <1>1, Target
  <2> QED BY <1>1, <2>1 DEF Inv, TypeOK, Label, Outcome
<1>4. Where' /\ Checked' /\ Unnumbered(object.device_info)'
  BY <1>1 DEF Inv, Where, Checked, Unnumbered
<1>5. CacheIsOfHandle'
  BY <1>1 DEF Inv, CacheIsOfHandle, InfoOf, ReportOf, CountOf
<1>6. SentOnlyToQMK'
  BY <1>1, Target DEF SentOnlyToQMK
<1>7. SuccessIsDelivered'
  BY <1>1, Target DEF SuccessIsDelivered
<1>8. ListedDeviceIsServed'
  BY <1>1, <1>2 DEF ListedDeviceIsServed
<1> QED BY <1>3, <1>4, <1>5, <1>6, <1>7, <1>8 DEF Inv

LEMMA LinuxWriteInv == Inv /\ LinuxWrite => Inv'
<1> SUFFICES ASSUME Inv, LinuxWrite PROVE Inv'
  OBVIOUS
<1>1. pc = "write" /\ platform = "linux" /\ DataSize \in Nat
  BY Target, DataSizes DEF LinuxWrite
<1>2. CASE WriteFails(DataSize)
  BY <1>1, <1>2, WriteFailsInv
<1>3. CASE 2 <= DataSize /\ Deliver(DataSize) /\ Written
  <2>1. object.report_count = object.handle.count
    BY <1>1, Target, CountType
  <2>2. DataSize = 1 + object.report_count
    BY <1>1, <1>3, Target, DataSizes
  <2>3. DataSize >= CommandSize
    BY <1>1, <2>2, Target DEF CommandSize
  <2> QED BY <1>1, <1>3, <2>1, <2>2, <2>3, WrittenInv
<1> QED BY <1>2, <1>3 DEF LinuxWrite

LEMMA WindowsWriteInv == Inv /\ WindowsWrite => Inv'
<1> SUFFICES ASSUME Inv, WindowsWrite PROVE Inv'
  OBVIOUS
<1>1. /\ pc = "write" /\ platform = "windows" /\ DataSize \in Nat
      /\ object.report_length \in Nat
  BY Target, DataSizes DEF WindowsWrite, Inv, TypeOK
<1>2. CASE Throw("IOLengthError", object) /\ UNCHANGED received
  <2>1. "IOLengthError" \in Outcome \ {"none", "ok", "DisallowedUSBDevice"}
    BY DEF Outcome
  <2> QED BY <1>1, <1>2, <2>1, ThrowAsItIs
<1>5. CASE UNCHANGED received /\ Throw("OSError", object)
  <2>1. "OSError" \in Outcome \ {"none", "ok", "DisallowedUSBDevice"}
    BY DEF Outcome
  <2> QED BY <1>1, <1>5, <2>1, ThrowAsItIs
<1>3. CASE WriteFails(object.report_length)
  BY <1>1, <1>3, WriteFailsInv
<1>4. CASE /\ object.report_length >= DataSize
           /\ Deliver(object.report_length) /\ Written
  <2>1. object.report_count < ShortModulus /\ object.report_count >= CommandSize - 1
    BY <1>1, Target, CountType
  <2>2. object.report_count # Modulus - 1
    BY <1>1, <2>1, ModulusAssumption, Target DEF CommandSize
  <2>3. DataSize = 1 + object.report_count
    BY <1>1, <2>2, Target, DataSizes
  <2>4. object.report_length >= CommandSize
    BY <1>1, <1>4, <2>1, <2>3, Target DEF CommandSize
  <2>5. object.report_length = object.handle.length
    BY <1>1, Target
  <2> QED BY <1>1, <1>4, <2>4, <2>5, WrittenInv
<1> QED BY <1>2, <1>3, <1>4, <1>5 DEF WindowsWrite
-----------------------------------------------------------------------------
(* The theorems.                                                           *)

LEMMA OperationInv == ASSUME Inv, Proceed PROVE Inv'
BY OpenHandleInv, DeviceInfoInv, LinuxReportsInv, WindowsReportsInv, CheckAllowedInv,
   CheckReportsInv, SendReportInv, LinuxWriteInv, WindowsWriteInv DEF Proceed

\* An operation that has ended has an outcome, and never the one it began with.
LEMMA OperationStarted == ASSUME Inv, Proceed PROVE pc # "idle" /\ outcome = "none"
BY DEF Inv, Where, Proceed, OpenHandle, DeviceInfo, LinuxReports, WindowsReports,
       CheckAllowed, CheckReports, SendReport, LinuxWrite, WindowsWrite

LEMMA OperationEnds ==
    ASSUME Inv, Proceed
    PROVE  op' = op /\ platform' = platform /\ (pc' = "idle" => outcome' # "none")
<1>1. pc # "idle" /\ outcome = "none"
  BY OperationStarted
<1>2. CASE OpenHandle \/ DeviceInfo
  BY <1>2 DEF OpenHandle, DeviceInfo, Throw
<1>3. CASE LinuxReports
  BY <1>3 DEF LinuxReports, Throw, Opened
<1>4. CASE WindowsReports
  BY <1>4 DEF WindowsReports, Throw, Opened
<1>5. CASE CheckAllowed \/ CheckReports \/ SendReport
  BY <1>5 DEF CheckAllowed, CheckReports, SendReport, Throw
<1>6. CASE LinuxWrite \/ WindowsWrite
  BY <1>6 DEF LinuxWrite, WindowsWrite, WriteFails, Written, Throw
<1> QED BY <1>2, <1>3, <1>4, <1>5, <1>6 DEF Proceed

LEMMA Invariant == Spec => []Inv
<1>1. Inv /\ [Next]_vars => Inv'
  BY CallInv, OperationInv, UserInv, StutterInv DEF Next
<1> QED BY InitInv, <1>1, PTL DEF Spec

\* The members of an HIDDevice, its handle and the results of its operations
\* keep their types, whatever operations are called in which order.
THEOREM ObjectTypeCorrect == Spec => []TypeOK
<1>1. Inv => TypeOK
  BY DEF Inv
<1> QED BY Invariant, <1>1, PTL

\* Reports, device information and length are always those of the device that
\* the handle is open for (hid-device.cc lines 33-54).
THEOREM CacheIsCurrent == Spec => []CacheIsOfHandle
<1>1. Inv => CacheIsOfHandle
  BY DEF Inv
<1> QED BY Invariant, <1>1, PTL

\* No device outside of the list of usb-vid-pid.cc, no other interface and no
\* other kind of HID device is ever written to (hid-device.cc lines 59-100).
THEOREM OnlyQMKIsWritten == Spec => []SentOnlyToQMK
<1>1. Inv => SentOnlyToQMK
  BY DEF Inv
<1> QED BY Invariant, <1>1, PTL

\* If identify() returns, the device behind the handle has received a report of
\* its own size, with the whole command in it, for integers of any width.
THEOREM SuccessMeansDelivered == Spec => []SuccessIsDelivered
<1>1. Inv => SuccessIsDelivered
  BY DEF Inv
<1> QED BY Invariant, <1>1, PTL

\* The masks and the check of the interface turn away no device of the list
\* on an interface of raw HID (lines 59-69).
THEOREM ListedIsServed == Spec => []ListedDeviceIsServed
<1>1. Inv => ListedDeviceIsServed
  BY DEF Inv
<1> QED BY Invariant, <1>1, PTL
-----------------------------------------------------------------------------
(* The write of Windows is the one of ReportWrite, which OverlappedWrite   *)
(* implements.                                                             *)

Write == INSTANCE ReportWrite
             WITH size <- object.report_length,
                  taken <- received.size,
                  outcome <- IF outcome = "ok" THEN "sent" ELSE outcome,
                  Sizes <- Nat

\* The function goes on to its write with a report that is long enough.
Writes == pc = "write" /\ platform = "windows" /\ object.report_length >= DataSize

LEMMA AtWrite ==
    ASSUME Inv, Writes
    PROVE  /\ outcome = "none" /\ op = "identify" /\ received = NoWrite
           /\ object.report_length \in Nat \ {0}
<1>1. object.report_length \in Nat /\ DataSize \in Nat
  BY Target, DataSizes DEF Inv, TypeOK, Writes
<1>2. object.report_count < ShortModulus /\ object.report_count >= CommandSize - 1
  BY Target, CountType DEF Writes
<1>3. object.report_count # Modulus - 1
  BY <1>2, ModulusAssumption, Target DEF CommandSize, Writes
<1>4. DataSize = 1 + object.report_count /\ object.report_count \in Nat
  BY <1>3, Target, DataSizes DEF Writes
<1>5. object.report_length # 0
  BY <1>1, <1>2, <1>4 DEF Writes, CommandSize
<1>6. outcome = "none" /\ op = "identify" /\ received = NoWrite
  BY DEF Inv, Where, Writes
<1> QED BY <1>1, <1>5, <1>6

\* Each write of a report is one step of what send_report promises, so that the
\* second for which the thread waits, the cancellation and the race of both with
\* the device, which OverlappedWrite has, need not be looked at here
\* (windows/hid-device.cc lines 227-297).
THEOREM WritesOneReport == Spec => [][Writes /\ WindowsWrite => Write!Next]_vars
<1>1. ASSUME Inv, Writes, WindowsWrite PROVE Write!Next
  <2> DEFINE length == object.report_length
  <2>1. /\ outcome = "none" /\ op = "identify" /\ received = NoWrite
        /\ length \in Nat
    BY <1>1, AtWrite
  <2>2. received.size = 0
    BY <2>1 DEF NoWrite
  <2>3. CASE UNCHANGED received /\ Throw("OSError", object)
    BY <2>1, <2>2, <2>3 DEF Throw, Write!Next, Write!NotBegun, Write!Return
  <2>4. CASE WriteFails(length)
    <3>1. PICK n \in 0 .. length : received'.size = n
      BY <2>1, <2>2, <2>4 DEF WriteFails, Deliver
    <3>2. outcome' = "IOError" /\ object' = object
      BY <2>1, <2>4 DEF WriteFails, Throw
    <3> QED BY <2>1, <3>1, <3>2 DEF Write!Next, Write!Failed, Write!Return
  <2>5. CASE Deliver(length) /\ Written
    BY <2>1, <2>5 DEF Deliver, Written, Write!Next, Write!Sent, Write!Return
  <2> QED BY <1>1, <2>3, <2>4, <2>5, Target, DataSizes DEF WindowsWrite, Writes, Inv, TypeOK
<1>2. Inv /\ [Next]_vars => [Writes /\ WindowsWrite => Write!Next]_vars
  BY <1>1
<1> QED BY <1>2, Invariant, PTL DEF Spec

\* What a return of send_report changes.
Returned ==
    /\ pc' = "idle"
    /\ outcome' \in Outcome
    /\ UNCHANGED <<platform, present, gone, object, op>>
    /\ received' = IF received'.size = 0 THEN received
                   ELSE [device |-> object.handle, size |-> received'.size]

\* Nothing that ReportWrite allows is left out: as long as the device is there,
\* each way in which a write may end there is one of HIDDevice.
THEOREM WritesAnyReport ==
    ASSUME Inv, Writes, ~gone, Returned, Write!Next
    PROVE  WindowsWrite
<1> DEFINE length == object.report_length
<1>1. /\ outcome = "none" /\ op = "identify" /\ received = NoWrite /\ length \in Nat \ {0}
      /\ pc = "write" /\ platform = "windows" /\ length >= DataSize
  BY AtWrite DEF Writes
<1>2. /\ pc' = "idle" /\ UNCHANGED <<platform, present, gone, object, op>>
      /\ outcome' # "sent"
  BY DEF Returned, Outcome, Unsupported
<1>3. CASE Write!Sent
  <2>1. outcome' = "ok" /\ received'.size = length
    BY <1>1, <1>2, <1>3 DEF Write!Sent, Write!Return
  <2>2. Deliver(length) /\ Written
    BY <1>1, <1>2, <2>1 DEF Returned, Deliver, Written
  <2> QED BY <1>1, <2>2 DEF WindowsWrite
<1>4. CASE Write!NotBegun
  <2>1. outcome' = "OSError" /\ received'.size = 0
    BY <1>1, <1>2, <1>4 DEF Write!NotBegun, Write!Return
  <2>2. UNCHANGED received /\ Throw("OSError", object)
    BY <1>1, <1>2, <2>1 DEF Returned, Throw
  <2> QED BY <1>1, <2>2 DEF WindowsWrite
<1>5. CASE Write!Failed
  <2>1. PICK n \in 0 .. length : outcome' = "IOError" /\ received'.size = n
    BY <1>1, <1>2, <1>5 DEF Write!Failed, Write!Return
  <2>2. Throw("IOError", object)
    BY <1>1, <1>2, <2>1 DEF Throw
  <2>3. (\E m \in 0 .. length : Deliver(m)) \/ UNCHANGED received
    BY <1>1, <2>1 DEF Returned, Deliver
  <2> QED BY <1>1, <2>2, <2>3 DEF WindowsWrite, WriteFails
<1> QED BY <1>3, <1>4, <1>5 DEF Write!Next
=============================================================================
