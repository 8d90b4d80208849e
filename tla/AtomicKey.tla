------------------------------ MODULE AtomicKey ------------------------------
(***************************************************************************)
(* What register and unregister promise: the key of the event source       *)
(* belongs to one executable as a whole, or does not exist, and each       *)
(* command has its effect in one step or none at all, however many run at  *)
(* once.  EventLogRegistry implements it.                                  *)
(***************************************************************************)
CONSTANTS
    Process,  \* the commands; each is run from an executable of its own
    Nothing   \* in place of an owner where there is no key

VARIABLES
    owner,  \* the executable that the values of the key are about
    call,   \* what a command is to do, or has done
    exit    \* how it has ended

vars == <<owner, call, exit>>

Init ==
    /\ owner = Nothing
    /\ call = [p \in Process |-> "none"]
    /\ exit = [p \in Process |-> "none"]

\* A command may be bound to fail from its beginning.
Begin(p) ==
    /\ call[p] = "none"
    /\ call' \in {[call EXCEPT ![p] = c] : c \in {"add", "remove", "failing"}}
    /\ exit' = [exit EXCEPT ![p] = "none"]
    /\ UNCHANGED owner

\* A command that is to remove the key finds none.
FindNoKey(p) ==
    /\ call[p] = "remove"
    /\ owner = Nothing
    /\ call' = [call EXCEPT ![p] = "removed"]
    /\ UNCHANGED <<owner, exit>>

\* A command runs out of time and can no longer succeed.
RunOut(p) ==
    /\ call[p] \in {"add", "remove", "removed"}
    /\ call' = [call EXCEPT ![p] = "failing"]
    /\ UNCHANGED <<owner, exit>>

Return(p, how) ==
    /\ call' = [call EXCEPT ![p] = "none"]
    /\ exit' = [exit EXCEPT ![p] = how]

Succeed(p) ==
    /\ \/ call[p] = "add" /\ owner' = p
       \/ call[p] = "remove" /\ owner' = Nothing
       \/ call[p] = "removed" /\ UNCHANGED owner
    /\ Return(p, "ok")

Fail(p) ==
    /\ call[p] # "none"
    /\ Return(p, "failed")
    /\ UNCHANGED owner

Next ==
    \E p \in Process : Begin(p) \/ FindNoKey(p) \/ RunOut(p) \/ Succeed(p) \/ Fail(p)

Spec == Init /\ [][Next]_vars
=============================================================================
