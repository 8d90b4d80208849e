---------------------------- MODULE HIDEnumeration ----------------------------
(***************************************************************************)
(* WindowsHIDEnumeration and its iterator (src/windows/hid-enumerate.cc):  *)
(* a snapshot of the HID interfaces of the computer, of which the iterator *)
(* stands on those that are installed, while interfaces arrive, are        *)
(* installed and are removed.  A call may fail for an interface at any     *)
(* time; what make_sized (src/windows/windows++.h) returns for it is empty *)
(* then.                                                                   *)
(***************************************************************************)
EXTENDS Naturals, Sequences, FiniteSets

CONSTANTS
    Path,     \* the paths that interfaces may have
    NoPath,   \* the empty path
    MAXDWORD  \* the index of the iterator at its end

\* What is assumed of them: no snapshot is as long as the largest DWORD.
Parameters ==
    /\ IsFiniteSet(Path) /\ NoPath \notin Path
    /\ MAXDWORD \in Nat /\ Cardinality(Path) < MAXDWORD

VARIABLES
    interface,    \* the state of each interface
    devinfo,      \* devinfo_, the interfaces that the enumeration is over
    di_idx,       \* the index of the iterator
    device_path,  \* what it stands on
    place,        \* where populate_device_path is
    visited,      \* history: the paths that it has stood on
    due           \* history: the paths that were installed all the time, and
                  \* for which no call has failed

vars == <<interface, devinfo, di_idx, device_path, place, visited, due>>

\* An interface has no state of installation at first, and then one that says
\* that it is not installed yet.
State == {"absent", "new", "unfinished", "installed"}

\* The orders a set may be enumerated in.
Orders(S) ==
    {s \in [1 .. Cardinality(S) -> S] : \A i, j \in DOMAIN s : s[i] = s[j] => i = j}

TypeOK ==
    /\ interface \in [Path -> State]
    /\ devinfo \in UNION {Orders(S) : S \in SUBSET Path}
    /\ di_idx \in 0 .. MAXDWORD
    /\ device_path \in Path \cup {NoPath}
    /\ place \in {"none", "interface", "detail", "size", "state", "ready", "end"}
    /\ visited \in Seq(Path)
    /\ due \subseteq Path

Init ==
    /\ interface \in [Path -> State]
    /\ devinfo = <<>>
    /\ di_idx = MAXDWORD
    /\ device_path = NoPath
    /\ place = "none"
    /\ visited = <<>>
    /\ due = {}
-----------------------------------------------------------------------------
(* The enumeration.                                                        *)

\* SetupDiGetClassDevs, and begin().
Construct ==
    /\ place = "none"
    /\ devinfo' \in Orders({p \in Path : interface[p] # "absent"})
    /\ di_idx' = 0
    /\ place' = "interface"
    /\ due' = {p \in Path : interface[p] = "installed"}
    /\ UNCHANGED <<interface, device_path, visited>>

Current == devinfo[di_idx + 1]

\* SetupDiEnumDeviceInterfaces has the interface at the index.
Interface ==
    /\ place = "interface"
    /\ di_idx < Len(devinfo)
    /\ place' = "detail"
    /\ UNCHANGED <<interface, devinfo, di_idx, device_path, visited, due>>

\* Mutant of NoInterface: the loop is not left, and its index wraps.
NoInterfaceAgain ==
    /\ place = "interface"
    /\ di_idx >= Len(devinfo)
    /\ di_idx' = 0
    /\ UNCHANGED <<interface, devinfo, device_path, place, visited, due>>

\* It has none, or fails; whatever the reason, this is the end.
NoInterface ==
    /\ place = "interface"
    /\ place' = "end"
    /\ di_idx' = MAXDWORD
    /\ device_path' = NoPath
    /\ due' = due \ {devinfo[i] : i \in di_idx + 1 .. Len(devinfo)}
    /\ UNCHANGED <<interface, devinfo, visited>>

\* The loop goes on to the next interface.
Continue ==
    /\ di_idx' = di_idx + 1
    /\ place' = "interface"
    /\ UNCHANGED <<interface, devinfo, device_path, visited>>

\* A call of make_sized returns nothing.
CallFails ==
    /\ place \in {"detail", "size", "state"}
    /\ due' = due \ {Current}
    /\ Continue

\* The path, from the snapshot.
Detail ==
    /\ place = "detail"
    /\ place' = "size"
    /\ UNCHANGED <<interface, devinfo, di_idx, device_path, visited, due>>

\* The first call for the state of installation asks for its size.
Size ==
    /\ place = "size"
    /\ interface[Current] # "new"
    /\ place' = "state"
    /\ UNCHANGED <<interface, devinfo, di_idx, device_path, visited, due>>

\* It fails if there is no such state yet.
NoState ==
    /\ place = "size"
    /\ interface[Current] = "new"
    /\ Continue
    /\ UNCHANGED due

\* Mutant of Installed: an interface that is not installed ends the loop.
InstalledOrEnd ==
    /\ place = "state"
    /\ IF interface[Current] = "installed"
       THEN /\ place' = "ready"
            /\ device_path' = Current
            /\ visited' = Append(visited, Current)
            /\ UNCHANGED di_idx
       ELSE /\ place' = "end"
            /\ di_idx' = MAXDWORD
            /\ UNCHANGED <<device_path, visited>>
    /\ UNCHANGED <<interface, devinfo, due>>

\* The second call, and the decision.  The registry may still have the state
\* of an interface that has been removed.
Installed ==
    /\ place = "state"
    /\ interface[Current] \in {"installed", "absent"}
    /\ place' = "ready"
    /\ device_path' = Current
    /\ visited' = Append(visited, Current)
    /\ UNCHANGED <<interface, devinfo, di_idx, due>>

NotInstalled ==
    /\ place = "state"
    /\ interface[Current] # "installed"
    /\ Continue
    /\ UNCHANGED due

\* operator++.
Increment ==
    /\ place = "ready"
    /\ Continue
    /\ UNCHANGED due

Iterate ==
    \/ Interface
    \/ NoInterface
    \/ CallFails
    \/ Detail
    \/ Size
    \/ NoState
    \/ Installed
    \/ NotInstalled
-----------------------------------------------------------------------------
(* The computer.                                                           *)

Arrive(p, state) ==
    /\ interface[p] = "absent"
    /\ interface' = [interface EXCEPT ![p] = state]
    /\ UNCHANGED <<devinfo, di_idx, device_path, place, visited, due>>

\* The installation of an interface goes on.
Progress(p) ==
    /\ \/ interface[p] = "new" /\ interface' = [interface EXCEPT ![p] = "unfinished"]
       \/ interface[p] \in {"new", "unfinished"}
          /\ interface' = [interface EXCEPT ![p] = "installed"]
    /\ UNCHANGED <<devinfo, di_idx, device_path, place, visited, due>>

Remove(p) ==
    /\ interface[p] # "absent"
    /\ interface' = [interface EXCEPT ![p] = "absent"]
    /\ due' = due \ {p}
    /\ UNCHANGED <<devinfo, di_idx, device_path, place, visited>>

Computer ==
    \E p \in Path :
        \/ \E s \in State \ {"absent"} : Arrive(p, s)
        \/ Progress(p)
        \/ Remove(p)

Next == Construct \/ Iterate \/ Increment \/ Computer

Spec == Init /\ [][Next]_vars
-----------------------------------------------------------------------------
(* Properties.                                                             *)

\* When the iteration is over, the iterator has stood once on each interface
\* that was installed all the time and for which no call has failed, and on no
\* interface twice, although interfaces came, went and were installed while it
\* was moving, and some were skipped (lines 69-121).
EveryInstalledVisited ==
    place = "end" =>
        /\ \A p \in due : \E i \in DOMAIN visited : visited[i] = p
        /\ \A i, j \in DOMAIN visited : visited[i] = visited[j] => i = j
=============================================================================
