-------------------------- MODULE EventLogRegistry --------------------------
(***************************************************************************)
(* registry_add_event_log and registry_remove_event_log                    *)
(* (src/windows/registry.cc), as the commands register, unregister and     *)
(* install call them: a transaction on one key of the registry, while      *)
(* other such commands run, run out of time, fail or are killed.           *)
(***************************************************************************)
EXTENDS FiniteSets

CONSTANTS
    Process,  \* the commands; each is run from an executable of its own
    Nothing   \* in place of a value that is not set

ASSUME NothingAssumption == Nothing \notin Process

\* The values that are set, in the order of registry_add_event_log.
Name == {"CategoryMessageFile", "CategoryCount", "EventMessageFile", "TypesSupported"}

\* Mutant of Following: the transaction is not committed.
FollowingWithoutCommit(name) ==
    CASE name = "CategoryMessageFile" -> "CategoryCount"
      [] name = "CategoryCount" -> "EventMessageFile"
      [] name = "EventMessageFile" -> "TypesSupported"
      [] name = "TypesSupported" -> "close"

Following(name) ==
    CASE name = "CategoryMessageFile" -> "CategoryCount"
      [] name = "CategoryCount" -> "EventMessageFile"
      [] name = "EventMessageFile" -> "TypesSupported"
      [] name = "TypesSupported" -> "commit"

\* A key has a value for each name, or none yet; a value is known by the
\* executable that has set it.
Values == [Name -> Process \cup {Nothing}]
Empty == [n \in Name |-> Nothing]
Absent == [n \in {} |-> Nothing]
Key == Values \cup {Absent}

VARIABLES
    key,     \* the key as everybody sees it
    view,    \* the key as the transaction of a command sees it
    txn,     \* the transaction of a command
    pc,      \* where a command is
    command, \* which function it runs, or ran last
    exit     \* how that has ended

vars == <<key, view, txn, pc, command, exit>>

TypeOK ==
    /\ key \in Key
    /\ view \in [Process -> Key]
    /\ txn \in [Process -> {"none", "open", "changed", "rolled_back"}]
    /\ pc \in [Process -> Name \cup {"idle", "key", "commit"}]
    /\ command \in [Process -> {"none", "add", "remove"}]
    /\ exit \in [Process -> {"none", "ok", "failed"}]

Init ==
    /\ key = Absent
    /\ view = [p \in Process |-> Absent]
    /\ txn = [p \in Process |-> "none"]
    /\ pc = [p \in Process |-> "idle"]
    /\ command = [p \in Process |-> "none"]
    /\ exit = [p \in Process |-> "none"]
-----------------------------------------------------------------------------
\* CreateTransaction, whose result nobody looks at (registry.cc lines 59 and 118).
\* Without a transaction the function goes on.  That RegCreateKeyTransacted and
\* RegDeleteKeyTransacted then refuse the handle, and change nothing outside of a
\* transaction, is an assumption about Windows: Change and DeleteKey state it as
\* their guards, and Throw is what is left.
Begin(p, function) ==
    /\ pc[p] = "idle"
    /\ pc' = [pc EXCEPT ![p] = "key"]
    /\ command' = [command EXCEPT ![p] = function]
    /\ exit' = [exit EXCEPT ![p] = "none"]
    /\ txn' \in {[txn EXCEPT ![p] = t] : t \in {"open", "none"}}
    /\ UNCHANGED <<key, view>>

\* The function ends; the handle of the transaction is closed, which rolls
\* back what is not committed.
Finish(p, how) ==
    /\ pc' = [pc EXCEPT ![p] = "idle"]
    /\ exit' = [exit EXCEPT ![p] = how]
    /\ txn' = [txn EXCEPT ![p] = "none"]
    /\ view' = [view EXCEPT ![p] = Absent]
    /\ UNCHANGED command

Throw(p) ==
    /\ pc[p] # "idle"
    /\ Finish(p, "failed")
    /\ UNCHANGED key

\* Two transactions cannot both change the key.
Locked(p) == \E q \in Process \ {p} : txn[q] = "changed"

\* Mutant of Change: what is changed is seen at once.
ChangeAtOnce(p, was, is, next) ==
    /\ pc[p] = was
    /\ txn[p] \in {"open", "changed"}
    /\ ~Locked(p)
    /\ txn' = [txn EXCEPT ![p] = "changed"]
    /\ view' = [view EXCEPT ![p] = is]
    /\ key' = is
    /\ pc' = [pc EXCEPT ![p] = next]
    /\ UNCHANGED <<command, exit>>

Change(p, was, is, next) ==
    /\ pc[p] = was
    /\ txn[p] \in {"open", "changed"}
    /\ ~Locked(p)
    /\ txn' = [txn EXCEPT ![p] = "changed"]
    /\ view' = [view EXCEPT ![p] = is]
    /\ pc' = [pc EXCEPT ![p] = next]
    /\ UNCHANGED <<key, command, exit>>

\* RegCreateKeyTransacted, of a key that may exist already.
CreateKey(p) ==
    /\ command[p] = "add"
    /\ Change(p, "key", IF key = Absent THEN Empty ELSE key, "CategoryMessageFile")

\* registry_set_value.
SetValue(p, name) ==
    Change(p, name, [view[p] EXCEPT ![name] = p], Following(name))

\* RegDeleteKeyTransacted; it is no error if there is no key.
DeleteKey(p) ==
    /\ command[p] = "remove"
    /\ \/ key # Absent /\ Change(p, "key", Absent, "commit")
       \/ /\ key = Absent /\ pc[p] = "key"
          /\ txn[p] = "open"
          /\ pc' = [pc EXCEPT ![p] = "commit"]
          /\ UNCHANGED <<key, view, txn, command, exit>>

\* Mutant of Commit: its result is not looked at.
CommitUnchecked(p) ==
    /\ pc[p] = "commit"
    /\ key' = IF txn[p] = "changed" THEN view[p] ELSE key
    /\ Finish(p, "ok")

\* CommitTransaction fails for a transaction that was rolled back.
Commit(p) ==
    /\ pc[p] = "commit"
    /\ txn[p] \in {"open", "changed"}
    /\ key' = IF txn[p] = "changed" THEN view[p] ELSE key
    /\ Finish(p, "ok")

\* The 60 seconds of the transaction are over.
TimeOut(p) ==
    /\ txn[p] \in {"open", "changed"}
    /\ txn' = [txn EXCEPT ![p] = "rolled_back"]
    /\ view' = [view EXCEPT ![p] = Absent]
    /\ UNCHANGED <<key, pc, command, exit>>

\* Throw stands for the failure of any call, and for the end of the process.
Next ==
    \E p \in Process :
        \/ Begin(p, "add")
        \/ Begin(p, "remove")
        \/ CreateKey(p)
        \/ \E n \in Name : SetValue(p, n)
        \/ DeleteKey(p)
        \/ Commit(p)
        \/ TimeOut(p)
        \/ Throw(p)

Spec == Init /\ [][Next]_vars
-----------------------------------------------------------------------------
(* Properties.                                                             *)

\* The key is there with all of its values, or not at all: a command that
\* fails, is killed or runs out of time anywhere leaves no part of them, and
\* two commands that run at once never mix their files (lines 58-115).
KeyIsWhole == key = Absent \/ \E p \in Process : \A n \in Name : key[n] = p

\* What a command is to do, from what it has done: only a transaction that is
\* open can succeed, and one in which nothing was changed is to commit only if
\* there was no key to be removed.
CallOf(p) ==
    IF pc[p] = "idle" THEN "none"
    ELSE IF txn[p] \notin {"open", "changed"} THEN "failing"
    ELSE IF pc[p] = "commit" /\ txn[p] = "open" THEN "removed"
    ELSE command[p]

Atomic == INSTANCE AtomicKey WITH
    owner <- IF key = Absent THEN Nothing ELSE key["CategoryMessageFile"],
    call <- [p \in Process |-> CallOf(p)]

\* A command succeeds only in the step in which what it was asked for becomes
\* visible, or if there was no key to remove at some moment while it ran; no
\* other step changes the key, and a transaction that has run out of time is
\* never reported as a success (lines 56-115 and 117-140).
ImplementsAtomicKey == Atomic!Spec
=============================================================================
