# QMK HID Identify: models, checks and proofs

This directory specifies the programs of this repository in TLA+, checks them on
small instances with TLC, and proves the central results for every instance with
TLAPS. All definitions are translated from the code; `PROJECT.json` ("map") gives
the lines each one stands for.

## The system

The program tells a QMK keyboard which operating system it is connected to, by
one raw HID report. On Linux a command does this for the devices that udev names.
On Windows a service does it for every HID device when it starts, when a device
arrives and when the computer resumes from sleep.

| Component | State | Operations | Interacts with |
| --- | --- | --- | --- |
| Windows service, `windows/service.cc` | five handles (three events, a mutex, a notification), the queue `devices_`, the status | `main`, `run`, `startup`, `queue_all_devices`, `process_events`, `report_one_device` on the main thread; `control`, `device_arrival` on the dispatcher thread | service control manager (controls, status), enumeration, HID device |
| Enumeration, `windows/hid-enumerate.cc` | a snapshot of the devices, a position | constructor, `++`, `*` | service, `report` command |
| HID device, `common/hid-device.cc` and one subclass per platform | handle, device information, reports, report count, report length | `open`, `identify`, `close` | operating system, report parser, list of allowed devices |
| Report parser, `linux/hid-report-desc.cc` | position, flags of a call, local items | `get_next_hid_usage`, `get_hid_item_size`, `get_hid_report_bytes` | `init_reports` of Linux |
| Overlapped write, `windows/hid-identify.cc` | `OVERLAPPED`, event, data of one call | `send_report` of Windows | driver, device |
| Service control, `windows/service-control.cc` | none; works on the manager's | `service_install`, `service_uninstall`, `wait_service_status` | service control manager, registry |
| Event source, `windows/registry.cc` | none; one key of the registry | `registry_add_event_log`, `registry_remove_event_log` | kernel transaction manager |
| Commands, `linux/main.cc`, `windows/main.cc` | exit code, index, the exception in hand | `main`, `wmain`, `command_report`, `run_elevated` | HID device, enumeration, an elevated process, all of the above |

What is hard in them, and what makes them correct:

* The **service** has two threads that share a queue, three events and the
  status, none of which is tested. A device must not be forgotten between
  notification, enumeration, queue and resume; the main thread must not sleep
  over a queue that is not empty; the handler must return to the manager; a stop
  must be completed; the status must not go back; a failure must not look like
  success.
* The **device object** keeps what it has learnt of a device across calls. It must
  be of the device that the handle is for whenever a report is sent, the device
  must be one of the list, and a success must mean that the command arrived.
* The **parser** must end, must not mix the local items of different reports, and
  must find the pair of a descriptor that has one.
* The **overlapped write** races with its time-out, and nothing may be freed
  before it has ended.
* **Install and uninstall** wait for a service that may hang, with a tick count
  that wraps, and act on a status that may have changed.
* The **event source** must be registered as a whole or not at all.
* The **enumeration** moves while devices come, are installed and go. It must
  stand on each device that is there all the time, and on none twice.
* The **commands** serve several devices that fail one by one, and may do their
  work in another process. Every device must be tried, and the exit code must tell
  what has happened.

`PROJECT.json` ("hazards") lists these with their lines.

## The modules

| Module | Models | Checked by | Proved in |
| --- | --- | --- | --- |
| `Commands` | `linux/main.cc`, `windows/main.cc`, elevation; composes `HIDDevice` and `HIDEnumeration` | `commands` | `Commands_proofs` |
| `HIDEnumeration` | `hid-enumerate.cc`, `make_sized` | as part of `Commands` | `HIDEnumeration_proofs` |
| `HIDDevice` | `hid-device.cc`, `usb-vid-pid.cc`, open and send of both platforms | `hid_device`, and as part of `Commands` | `HIDDevice_proofs` |
| `IdentifyService` | what the service promises, without threads | through `WindowsHIDService` | |
| `WindowsHIDService` | `service.cc`, `acquire_mutex` | `service_*` | `WindowsHIDService_proofs` |
| `HidReportParser` | `get_next_hid_usage`, `init_reports` of Linux | `report_parser*` | `HidReportParser_proofs` |
| `ReportWrite` | what `send_report` of Windows promises: one write | through `OverlappedWrite` | |
| `OverlappedWrite` | `send_report` of Windows | `overlapped_write` | `OverlappedWrite_proofs` |
| `ServiceControl` | `service-control.cc` | `service_control` | `ServiceControl_proofs` |
| `AtomicKey` | what `register` and `unregister` promise: a key that changes in one step | through `EventLogRegistry` | |
| `EventLogRegistry` | `registry.cc` | `event_log_registry` | `EventLogRegistry_proofs` |

Three specifications are abstract, and a detailed one is shown to implement each
(`INSTANCE ... WITH`): `IdentifyService` by `WindowsHIDService`, `ReportWrite` by
`OverlappedWrite`, `AtomicKey` by `EventLogRegistry`.

The modules `MC...` only give constants their values for TLC. An operator whose
comment begins with "Mutant of" is a deliberately wrong form of the definition
named there. Nothing uses it; `PROJECT.json` ("mutants") says which property is
violated when it takes the place of the right one, which shows that the property
depends on the code.

### Commands and HIDEnumeration

`Commands` is a program from its start to its exit code: `main` of Linux with its
arguments, or `wmain` with one command. `at` is where each process is, `Process` is
the one that the user starts and the elevated one that it may start. In the loop it
makes one object for each path (`MakeObject`), calls its `identify()` (`Call`), lets
`HIDDevice` run (`Identify`) and looks at how that has ended (`EndOfIdentify`). The
variables of the object are those of `HIDDevice`, and its operations are used as
they are; when the object is destroyed they are reset (`Destroyed`), the handle
with them. `connected` has the device at each path, and the object sees the one at its own
(`Coupled`). `Base` and the handlers are the exception classes and the catch
clauses in their order, so the code of an exception is found as C++ finds it.

The commands that need an administrator are one call each here (`FunctionReturns`,
`FunctionThrows`), as `ServiceControl` and `EventLogRegistry` open them up. What is
assumed of Windows is that "runas" gives the new process the rights (otherwise
it would start another one in turn), and that a process may be killed. Three
details of the source show in the model, and `ExitTellsWhetherDone` names each of
them as an exception. `current_process_filename` compares the length that
it gets with the number `ERROR_INSUFFICIENT_BUFFER`, 122, so a path of exactly that
length is refused (`FilenameThrows`). When `ShellExecuteEx` succeeds
without a process handle, 0 is returned. And `service_install` and
`service_uninstall` return normally when the service did not start or stop in time
(`MayGiveUp`, `unfinished`), so that the exit code is 0 then as well.

`HIDEnumeration` is the constructor and the iterator. `interface` is the state
of each interface, which the computer changes at any time; `devinfo` is the
snapshot, in an order of the system's choice. `place` is the call that comes next in
`populate_device_path`. Each call may fail for an interface, or find that it has
changed between the question for its size and that for its value; `make_sized`
then returns nothing and the loop goes on. The registry may still have the state of
an interface that is gone. `due` is the history variable of the promise: the paths
that were installed from the snapshot on and for which no call has failed. The others
are skipped without a trace in the exit code of `report`. The loop
and `operator++` share `di_idx`, and MAXDWORD is the end.

### WindowsHIDService and IdentifyService

The main thread (`pc`) and the control handler (`hpc`) take one action per call
that can block, fail or be seen by the other thread. `pc` has the name of the
next step, so the labels group into the functions of the source (`Startup`,
`QueueAll`, `ReportOne`). `stop_event`, `power_resume_event`, `device_event`,
`devices_mutex` and `devices` are the members of those names; `handles` says which
of them have been created; `status` is what the last `SetServiceStatus` has said.
`Wait` follows `WaitForMultipleObjects`: the first signalled handle of the array
wins, and an event of auto reset is reset by that. Notifications are put in
`controls` in order, and the dispatcher thread handles one at a time. A call in
the constant `Faults` may fail each time it is made. An exception of the main thread
is reported as an error and ends the process, since it leaves a `noexcept`
function. An exception in the handler makes it stop the service, in whatever state
that is (`arrival_failed`). `acquire_mutex` throws for a null mutex, and whenever the
wait for the mutex fails (`AcquireThrows`). It would throw for `WAIT_ABANDONED` too,
but that is returned only when a thread has ended while it owned the mutex. The main
thread releases it before it does anything that could end it, and the dispatcher
thread ends with the process. Memory is assumed to suffice: `std::bad_alloc` is left
out, as it is in every module. What the manager makes of a STOP_PENDING that is
reported after STOPPED is not modelled; `status` keeps the last report.

The environment plugs and unplugs devices, installs their drivers (`installed`),
resumes from sleep and asks for a stop. `owed` records which connected devices have
not been identified since they arrived or since the last resume, and `announced`
those of them whose arrival the service was notified of; no code reads either.
The enumeration goes from one device of the snapshot to the next (`NextDevice`). As
in the code it passes over a device that is not installed after a second, that has
gone or for which a call fails, and takes any failure to get the next one for
the end. What it passes over is owed no report any more, unless the service has been
notified of it or a resume is pending (`PassOver`).

`IdentifyService` describes the same environment and a service with only `owed` and
a `mode`. As long as no call fails, it may pass over a device only while that is not
installed. `Mode` in `WindowsHIDService` is the refinement mapping: a service whose
stop event is set is "stopping" while a report may still be sent, and "spent" once
only the stop is left.

### HidReportParser

A descriptor is a sequence of bytes. `KeySize` and `DataLen` are what
`get_hid_item_size` finds for the item at a position, long items and the fall-through
of one without its length byte included; `Valid` is its return value, and `Skip`
advances by the sum. The tags are the `case` labels (`KeyCmd`), with the bits of the
size taken off. The parser copies the data of an item without looking at it, so
`ItemData` is the place of the item, and whether the data could be read: a result
shows which items it was made from. An item that has no data, or is cut short at the
end of the descriptor, reads as 0. `calling` is TRUE inside of `get_next_hid_usage`;
`Call` and `Keep` are the loop of `init_reports`.

The properties compare a result with the whole descriptor. Where its items begin
(`descriptor.items`) is stated apart from the parser, as the HID specification has it
(`ItemLength`, `ItemsAreAt`); for them, too, a long item without its length byte ends
the descriptor. `LocalItemsConsumed` says that the fields of a report are exactly the local
items in scope at it. `ReturnTellsOfPair` and `PairIsReported` say what a pair is,
following the comment before `get_next_hid_usage`, and give the three departures of
the code from it a name each: a Usage Page inside of a collection is not the current
one (`InCollection`); the pair is returned at the next End Collection, and never
without one (`Closed`); and the Usage of a pair at the top level is looked for but not
stored (`TopLevelPair`).

### HIDDevice and OverlappedWrite

`HIDDevice` is one object of either subclass (`platform`). Its public operations
come in any order; `op` and `pc` say which runs and where it is. The record
`object` has its members. `present` is the device at the path, `gone` tells that
the one behind the handle has been unplugged, and then every call fails.
`Closed` is `close()` and `Throw` an exception, which makes `open()` close the
object and `identify()` leave it as it is. `device_info_` starts uninitialized,
and a check of it may go either way. A descriptor is one of four classes, since
the parser has a module of its own. The Linux kernel refuses a write of fewer than
two bytes or of too many; this is taken from hidraw and is external to the
repository. `report_count_` is a `uint32_t` and `1 + report_count_` wraps at `Modulus`.

On Linux a descriptor without a usage pair leads to the label `parsing`, which nothing
leads out of: the parser does not end (see the finding below).

`OverlappedWrite` opens up the write of Windows, one action per call, against the
system and the device. Its abstract form `ReportWrite` is one step, which takes place
when the function returns; until then, nothing that the device may have taken is
visible to the caller. `WindowsWrite` of `HIDDevice` is that step.

### ServiceControl and EventLogRegistry

`ServiceControl` runs one command after another. `wait_service_status` is `Wait`,
`Sleep` and `Poll`, with its locals as variables, `clock` as the tick count
and `elapsed` as the time that has really passed. The service reports what
`WindowsHIDService` reports, or hangs. Another administrator interferes up to
`MaxOther` times, at any step: the service is started, stopped or deleted, and the event
source registered or removed by the commands `register` and `unregister` of other processes.
Nobody else creates the service. `restarted` tells that the service was started after
its status had been read last, and `unregistered` that the event source was removed
after it had been registered; no code reads them. A command that has waited in vain
returns normally.

In `EventLogRegistry` several commands add and remove the key. `view` is the key
inside of a transaction; `Throw` stands for the failure of a call and for a command
that is killed: in both cases the handle of the transaction is closed. The code does
not look at what `CreateTransaction` returns (lines 59 and 118); that the next call
refuses the invalid handle is an assumption about Windows. In `AtomicKey`
a command that has found no key to remove, or whose transaction has run out of time,
has made up its mind before it returns; everything else happens when it succeeds.

## What is checked

| Run | Bounds | Shows |
| --- | --- | --- |
| `service_safety` | 2 devices (symmetric), backlog 2, every call may fail | `NoLostWakeup`, `AccountedFor`, `QueueExclusive`, `CleanStopOnlyOnRequest`, `StatusOrder`; every step is one of the promise |
| `service_refinement` | 2 devices, backlog 1, no failures | the whole promise with liveness, `StopCompletes` |
| `service_faults` | 1 device, backlog 2, every call may fail, a device may never answer | `HandlerReturns`, `IncompleteStartupFails` |
| `service_mutex_fault` | `CreateMutex` fails | violated: `StartedComplete` |
| `report_parser` | descriptors of up to 5 bytes of 9 values, and of up to 6 bytes of the 4 tags of a pair | `LocalItemsConsumed`, `ReturnTellsOfPair`, `CallReturns`, `PairIsReported` |
| `report_parser_ends`, `..._malformed` | up to 2 bytes | violated: `FinishedProcessing`, `TruncatedIsMalformed` |
| `hid_device` | 20 devices, each at the boundary of one check; 6-bit and 4-bit integers | `CacheIsOfHandle`, `SentOnlyToQMK`, `SuccessIsDelivered`, `ListedDeviceIsServed` |
| `overlapped_write` | sizes 1, 7 and 9 | `NothingPendingOnReturn`, `SentIfTaken`, `ImplementsReportWrite` |
| `service_control` | tick count modulo 8, sleeps of 1 or 2, hints 2 and 3, 2 interferences | `TimeoutJustified`, `StoppedBeforeDelete`, `EventSourceFirst`, `CommandEnds` |
| `event_log_registry` | 3 commands | `KeyIsWhole`, `ImplementsAtomicKey` |
| `commands` | 2 paths, 3 devices, up to 3 arguments of which one is repeated, path lengths 121 and 122, MAXDWORD 3 | `FirstFailureDecides`, `ZeroMeansServed`, `EveryInstalledVisited`, `ExitTellsWhetherDone`, `CommandEnds` |

**Bounds.** Two devices are the fewest for which one can be in the queue while
another is enumerated, identified or announced; the order of more is of no
consequence, as no code compares devices. `MaxBacklog` pauses the environment while
controls and queue hold that much. It has a price: endless arrivals are not
explored, and so neither is a main thread that never gets the mutex because the
handler always does. A backlog of 2 lets a queue hold a device while another control
is on its way, or two devices. Without failures a backlog of 1 is enough: the
enumeration fills the queue beyond it, and a device arrives while another is in hand
or in the listing. One device is enough for `service_faults`, whose properties are
about threads and handles. Five bytes make a usage page, a usage, a
collection, one item in it and its end, each without data. The nine values of a byte are the tags of these, an item of no tag
with one byte of data, a Usage with four, and a long item, whose length may be any of
the nine or missing. Six bytes of the four tags of a pair give a second collection. The devices of `hid_device` differ from a
good one in one respect each: products at both ends of every range of the list,
interfaces, descriptors, counts around the size of the command and around the wraps
of 16 and 32 bits, lengths. Two paths are enough for a device that fails before one
that works, the other way round, for one that goes while the other is served, and,
given twice, for one that has failed to work later; MAXDWORD is the least that is
larger than every snapshot. The devices of `commands` are one that works, one that
is not on the list, and one without a usage pair. The tick count of `service_control` wraps during every
second wait.

**Fairness.** Both threads of the service run when they can (`WF_vars` of `Main` and
of `Handler`): they are threads of an operating system, and the mutex of Windows is
granted in the order of the requests, though weak fairness suffices. A wait for the
mutex or for the events may fail, but must not have to: while a thread could only
go on because its wait fails, nothing is assumed of it (`MainWaits`, `HandlerWaits`).
Otherwise a handler that waits for ever would be saved by that failure.
`SlowDeviceSpec` takes the fairness away from `identify`, as a device may not
answer. The environment owes nothing. The parser runs to its end. In
`OverlappedWrite` the function runs on, a second passes, and the driver honours
`CancelIo`, as it must; nothing else is asked of the device. In `ServiceControl`
the command runs on, and the service need not. In `Commands` both processes run on
and every call to the system returns (`WF_vars(Program)`); nobody has to plug
anything, to kill a process or to stop the service.

**Where the system may stop.** `CHECK_DEADLOCK FALSE` is used where the program
ends: the service stops, the descriptor is parsed, the function returns.

## What the code does not do

Each is a run that TLC finds violated; `PROJECT.json` ("findings") quotes the lines.

* `service_mutex_fault`: `startup` tests `device_event_` a second time where it
  should test `devices_mutex_`. The service says RUNNING, and fails later when it
  first needs the mutex (`IncompleteStartupFails` shows that it does fail).
* `report_parser_ends`: `init_reports` never returns for a descriptor without a
  usage pair, and it stops after the first pair of any other.
* `report_parser_malformed`: a long item without its length byte is taken for
  a short one. As a consequence the parser never returns -1 and
  `MalformedHIDReportDescriptor` is never thrown.

Five more departures from what a line says are allowed by name in the properties, and
so have no run of their own:

* The pair of a descriptor without any collection is returned without its Usage:
  `hid-report-desc.cc` line 268 looks for the Usage and does not store it, although
  lines 134, 146 and 266-267 speak of both (`ReturnTellsOfPair`, `PairIsReported`). The
  same lines say that a pair is returned whenever a collection is found; it is
  returned when one ends.
* The service passes over a device that was there before it registered for
  notifications and whose driver is still being installed a second after the
  enumeration has come to it, although `windows/README.rst` lines 5-7 say "every device that is
  connected" (`PassOver`).
* `report` exits with 0 although it has skipped a device for which a call of the
  enumeration has failed; `windows/main.cc` line 130 says "Send HID report to all
  devices" (`ZeroMeansServed`).
* `install` and `uninstall` exit with 0 when the service did not start or stop, and
  `uninstall` has then not removed it; `windows/main.cc` lines 124-125 say "Install and
  start service" and "Stop and uninstall service" (`ExitTellsWhetherDone`).
* A path whose length is the number of an error is refused, and 0 is returned
  without a process handle (`ExitTellsWhetherDone`).

## What is proved

Every safety property of every passing run is proved, for every value of the
constants, and so are results that no run states: `PROJECT.json` ("theorems") lists
all of them.

### The service

`WindowsHIDService_proofs` proves, for all devices, backlogs and failures, every
safety property of the run `service_safety`: `TypeCorrect`, `QueueIsExclusive`,
`WakeupIsNotLost`, `CleanStopIsRequested`, `StatusIsOrdered`, `NoDeviceIsForgotten`
and `ServiceImplementsPromise`, the safety part of the refinement. None of them assumes
that a call succeeds, not even `CreateMutex`. What a failure can do is in the properties
instead: `StatusOrder` has two exceptions, and `AccountedFor` and the promise let the
enumeration pass over what it cannot ask. `TheEndIsReported` says that the manager is left
with STOPPED, but for a handler that could not have the mutex. `OnlyTheMutexIsMissed`
and `RunningIsComplete` say that the first finding above is the only one of its kind:
no other handle can be missing from a RUNNING service, and none if `CreateMutex` does
not fail, which only `RunningIsComplete` assumes. `IncompleteNeverServes` says what
becomes of a service that misses one.

None of these is inductive by itself. Exclusive use of the queue needs to know
that a thread inside a section holds the mutex and that nobody else does.
`NoLostWakeup` needs that `drained` was decided under the mutex, so a device that
is in the queue although `drained` holds was appended later, by a handler that
still has `device_event` to set or has set it. The status needs to know which
statuses go with which label of the main thread, and that the handler reports a
stop only if one was accepted or its own arrival has failed. `AccountedFor` follows the
device from place to place, and needs that what was announced is never dropped by the
enumeration. The mapping needs `owed \subseteq connected` and that
a device in hand is not queued under another mode. Each invariant is a conjunction
of named parts, with one step per action in its proof. `StartupInv`, which
`CleanStopIsRequested` and the results on incomplete services follow from, makes no
assumption on failures: it says which handles exist at which label, and what the
exit and the event are there.

### The device object and its write

`HIDDevice_proofs` proves every property of the run `hid_device`, for all sets of
devices, all vendors and products, and integers of any width (`ShortModulus` and
`Modulus` are 2^16 and 2^32 in the program, and assumed only to exceed the size of
the command and to be in this order). The invariant adds to the properties what
holds at each label: between `open` and the reading of the reports the object has
a handle and no reports; `Checked` says what the checks of `identify` have
established. One case makes it necessary to prove them together: an `identify` whose
`open` throws leaves a handle without reports, and a later `identify` skips `open`
and reads a `device_info_` that was never set. The check of it may pass, but without
reports the next check does not. That an interface without a number never
gets as far as its reports (in `Where`) is needed for the same reason.
`MasksAreRanges` shows that the masks of the list stand for ranges of products, and
`DataSizes` where `1 + report_count_` wraps.

`OverlappedWrite_proofs` proves `TypeOK`, `NothingPendingOnReturn` and `SentIfTaken`
(`SentIsTaken`) for data of every size; its invariant adds that a write exists exactly from the wait
on. `WriteIsOneStep` is the safety part of its refinement: every step is a stutter of
`ReportWrite` but the return. `WritesOneReport` and `WritesAnyReport` close the
circle: each `WindowsWrite` of `HIDDevice` is one step of `ReportWrite`, and while the
device is there every end that `ReportWrite` has is one of `WindowsWrite`. So nothing
that the object can see of a write is lost by having it in one step.
`NeverWaitsForTheDevice` says that the last call waits for a pending write only when
it has been cancelled.

### The registry, the enumeration and the commands

`EventLogRegistry_proofs` proves for any number of commands that the key is whole and
that the transactions implement `AtomicKey`. The invariant (`ViewIsOwn`) says what
each transaction has changed at each label of its command: nothing, as many values as
have been set, all of them its own, or the removal of the key.

`HIDEnumeration_proofs` proves `EveryInstalledVisited` for any number of
interfaces. Its invariant: the snapshot has no path twice; only what the iterator has
passed has been visited; and what is due has been visited or is still ahead. That
its actions keep this is stated apart from its specification, so that
`Commands_proofs` can use the lemmas for its instance.

`Commands_proofs` proves every safety property of the run `commands`, for all paths,
devices and arguments. It rests on the invariants of its two parts, taken from
`HIDDevice_proofs` and `HIDEnumeration_proofs` through instances. To them it adds
where each process can be (`Places`, `Control`), that `results` are the paths
served so far and `exit_ret` is the code of their first failure (`Codes`), and that
the object stands at the argument or at the path of the iterator (`Stands`). It
takes from the invariant of `HIDDevice` that a success was a write of the whole command.

That the programs use their parts as these are specified is proved as well.
`ImplementsEnumeration` says that `Commands` implements `HIDEnumeration`,
`ProgramsKeepThePromises` that the properties of `HIDDevice` hold of its objects, and
`ObjectsAreUsedOnce` that no object is called again. This last one has a consequence:
the state that makes `HIDDevice` hard to prove, `identify` after an `identify` that
failed, is never reached by a program. `InfoIsRead` says that the uninitialized
`device_info_` never decides there, and `OnlyUnlistedAreTurnedAway` that a device is
turned away only for its own sake, without the exceptions of `ListedDeviceIsServed`.

### Install and uninstall

`ServiceControl_proofs` proves `TimeoutJustified` for every width of the tick count
and every wait hint that fits in it. The invariant relates the tick count of the
start, the count now and the time that has really passed, modulo `Ticks`; lemma
`Difference` is that unsigned subtraction gives this time across the wrap, which
needs that no wait is as long as the period. `StoppedBeforeDelete` and
`EventSourceFirst` follow the status that was read and the steps of an install, and
hold whatever another administrator does in between: the one exception of each is a start
since the status was read last, and a removal of the event source since it was registered.

### The parser

`HidReportParser_proofs` proves `TypeOK`, `LocalItemsConsumed` and
`ReturnTellsOfPair` (`PairsAreExact`) for descriptors of any bytes and any length. It
starts from sizes: what `KeySize` and `DataLen` give is the `ItemLength` of the
specification, but for a long item without its length byte, behind which the descriptor
ends either way (`SkipItem`). So the parser is always at an item or behind the
descriptor. What it remembers is then related to the items in front of its
position: the local fields are those in scope (`FieldsAt`), and each entry of a report
had the fields in scope where it was made (`EntryOf`). `FlagsAt` says that `collection`
tells whether the position is inside of a collection, the usage page is the last one that was
set outside of one, and a ready pair belongs to a collection that is open. A call that has
returned has either found a pair (`Found`) or passed all items without one (`NoPair`).
A second call begins behind the descriptor (in `Returned`), without which its flags, all reset
then, would say something wrong.

The same invariant proves two of the findings for every descriptor, where the runs have
one counterexample each: nothing but a pair ends `init_reports` (`OnlyPairsEnd`), and
whatever the bytes, `get_hid_item_size` never refuses an item (`NothingIsMalformed`).

### Towards liveness

Fairness is beyond the prover, but what the liveness properties rest on is not: that
each step brings a process closer to where it has to get, and that no other process
takes it back. These are action properties with a distance that decreases:

| Theorem | Distance | For the property |
| --- | --- | --- |
| `StopLeadsToTheEnd` | labels to the end once the stop is signalled, then the devices of the listing | `StopCompletes` |
| `HandlerLeadsToReturn` | labels of the handler | `HandlerReturns` |
| `IncompleteLeadsToFailure` | labels to the error, then the devices of the listing | `IncompleteStartupFails` |
| `CallsAdvance` | bytes behind the position | `CallReturns` |
| `ReturnsInFiveSteps` | labels of `send_report` | `ImplementsReportWrite` |
| `ProgramsLeadToTheEnd` | stage of the processes, paths left, turn of the one at hand | `CommandEnds` of `Commands` |
| `CommandsLeadToTheEnd` | stage of the command, check points left, time of the wait | `CommandEnds` of `ServiceControl` |

`NobodyWaitsForAWaiter` adds that who waits for the mutex waits for a thread that
does not wait, and `StopIsSignalled` that a stop that was reported is signalled.

### What stays with TLC

The liveness properties themselves: `ImplementsPromise`, `StopCompletes`,
`HandlerReturns`, `IncompleteStartupFails`, `CallReturns`, `PairIsReported`,
`CommandEnds` of both modules and the return in `ImplementsReportWrite`. What the
theorems above lack is that a process which is not at its end can take a step, and
takes it: ENABLED and weak fairness, for which there is no prover here. For
`PairIsReported` and the reports of `ImplementsPromise` no distance is proved
either.

## What is not modelled

Logging and formatting, the search for the interface number in a path, the value
of the data of an item (it is the place of the item), exhausted memory, the moves of the handle owners in
`windows++.h` and `unique-fd.h` (each has one owner from its creation to the
end of a function or an object), and build and packaging files. What a command
does between the elevated start and its return is in the modules of its own, and
`Commands` has it as one step. `PROJECT.json` ("components") gives the reason for each.

## Plan

Done: all modules above, each with its properties checked and its safety proved.
What could follow:

1. A wait that ends as the abstract form of `wait_service_status`, with
   `ServiceControl` as its implementation.
2. `HIDDevice` as the implementation of the step `Identify` of the service, and
   `HIDEnumeration` in the place of its snapshot.
3. `ServiceControl` and `EventLogRegistry` composed with `Commands`, so that
   the elevated process carries out their steps.
