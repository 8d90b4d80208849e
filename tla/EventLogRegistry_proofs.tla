----------------------- MODULE EventLogRegistry_proofs -----------------------
(***************************************************************************)
(* Theorems about EventLogRegistry for any number of commands.             *)
(***************************************************************************)
EXTENDS EventLogRegistry, TLAPS

\* The values that have been set before each label.
Done(label) ==
    CASE label = "CategoryMessageFile" -> {}
      [] label = "CategoryCount" -> {"CategoryMessageFile"}
      [] label = "EventMessageFile" -> {"CategoryMessageFile", "CategoryCount"}
      [] label = "TypesSupported" -> Name \ {"TypesSupported"}
      [] label = "commit" -> Name

\* What the transaction of a command has changed: as much of the key as has
\* been set, or its removal; one that has changed nothing is at its beginning
\* or has found no key.
ViewIsOwn(p) ==
    /\ pc[p] # "idle" => command[p] \in {"add", "remove"}
    /\ pc[p] = "idle" => txn[p] = "none"
    /\ pc[p] \in Name => command[p] = "add"
    /\ txn[p] = "open" => \/ pc[p] = "key"
                          \/ pc[p] = "commit" /\ command[p] = "remove"
    /\ txn[p] = "changed" => pc[p] \in Name \cup {"commit"}
    /\ txn[p] = "changed" /\ command[p] = "add" =>
           view[p] \in Values /\ \A n \in Done(pc[p]) : view[p][n] = p
    /\ txn[p] = "changed" /\ command[p] = "remove" => view[p] = Absent

Inv ==
    /\ TypeOK
    /\ KeyIsWhole
    /\ \A p \in Process : ViewIsOwn(p)

LEMMA NamesDiffer ==
    /\ Absent \notin Values
    /\ Empty \in Values
    /\ "idle" \notin Name /\ "key" \notin Name /\ "commit" \notin Name
<1>1. "CategoryCount" \in Name
  BY DEF Name
<1>2. DOMAIN Absent = {} /\ \A v \in Values : DOMAIN v = Name
  BY DEF Absent, Values
<1>3. Absent \notin Values
  BY <1>1, <1>2
<1>4. Empty \in Values
  BY DEF Empty, Values
<1> QED BY <1>3, <1>4 DEF Name

LEMMA InitInv == Init => Inv
<1> SUFFICES ASSUME Init PROVE Inv
  OBVIOUS
<1>1. TypeOK
  BY DEF Init, TypeOK, Key
<1>2. KeyIsWhole
  BY DEF Init, KeyIsWhole
<1>3. \A p \in Process : ViewIsOwn(p)
  BY NamesDiffer DEF Init, ViewIsOwn
<1> QED BY <1>1, <1>2, <1>3 DEF Inv

(***************************************************************************)
(* A step of command p keeps the invariant if it does for p and the key:   *)
(* it leaves alone what the others rely on.                                *)
(***************************************************************************)
LEMMA StepInv ==
    ASSUME Inv, NEW p \in Process,
           NEW c \in Name \cup {"idle", "key", "commit"},
           NEW t \in {"none", "open", "changed", "rolled_back"},
           NEW v \in Key, NEW f \in {"none", "add", "remove"},
           NEW e \in {"none", "ok", "failed"},
           pc' = [pc EXCEPT ![p] = c], txn' = [txn EXCEPT ![p] = t],
           view' = [view EXCEPT ![p] = v], command' = [command EXCEPT ![p] = f],
           exit' = [exit EXCEPT ![p] = e],
           key' \in Key, KeyIsWhole', ViewIsOwn(p)'
    PROVE  Inv'
<1>1. TypeOK'
  BY DEF Inv, TypeOK
<1>2. ASSUME NEW q \in Process PROVE ViewIsOwn(q)'
  <2>1. CASE q = p
    BY <2>1
  <2>2. CASE q # p
    <3>1. /\ pc'[q] = pc[q] /\ txn'[q] = txn[q] /\ view'[q] = view[q]
          /\ command'[q] = command[q]
      BY <2>2 DEF Inv, TypeOK
    <3> QED BY <3>1 DEF Inv, ViewIsOwn
  <2> QED BY <2>1, <2>2
<1> QED BY <1>1, <1>2 DEF Inv

LEMMA BeginInv ==
    ASSUME Inv, NEW p \in Process, NEW f \in {"add", "remove"}, Begin(p, f)
    PROVE  Inv'
<1>1. PICK t \in {"open", "none"} : txn' = [txn EXCEPT ![p] = t]
  BY DEF Begin
<1>2. /\ pc' = [pc EXCEPT ![p] = "key"] /\ command' = [command EXCEPT ![p] = f]
      /\ exit' = [exit EXCEPT ![p] = "none"] /\ key' = key
      /\ view' = [view EXCEPT ![p] = view[p]] /\ view[p] \in Key
  BY DEF Begin, Inv, TypeOK
<1>3. ViewIsOwn(p)'
  BY <1>1, <1>2, NamesDiffer DEF ViewIsOwn, Inv, TypeOK
<1>4. KeyIsWhole' /\ key' \in Key
  BY <1>2 DEF Inv, KeyIsWhole, TypeOK
<1> QED BY <1>1, <1>2, <1>3, <1>4, StepInv

\* The end of a function, however it has come.
LEMMA FinishInv ==
    ASSUME Inv, NEW p \in Process, NEW how \in {"ok", "failed"}, Finish(p, how),
           key' \in Key, KeyIsWhole'
    PROVE  Inv'
<1>1. /\ pc' = [pc EXCEPT ![p] = "idle"] /\ exit' = [exit EXCEPT ![p] = how]
      /\ txn' = [txn EXCEPT ![p] = "none"] /\ view' = [view EXCEPT ![p] = Absent]
      /\ command' = [command EXCEPT ![p] = command[p]]
      /\ command[p] \in {"none", "add", "remove"}
  BY DEF Finish, Inv, TypeOK
<1>2. ViewIsOwn(p)'
  BY <1>1, NamesDiffer DEF ViewIsOwn, Inv, TypeOK
<1>3. Absent \in Key
  BY DEF Key
<1> QED BY <1>1, <1>2, <1>3, StepInv

\* A change keeps the invariant if what the transaction sees then is its own.
LEMMA ChangeInv ==
    ASSUME Inv, NEW p \in Process, NEW was, NEW v \in Key,
           NEW next \in Name \cup {"commit"}, Change(p, was, v, next),
           command[p] \in {"add", "remove"},
           next \in Name => command[p] = "add",
           command[p] = "add" => v \in Values /\ \A n \in Done(next) : v[n] = p,
           command[p] = "remove" => v = Absent
    PROVE  Inv'
<1>1. /\ pc' = [pc EXCEPT ![p] = next] /\ txn' = [txn EXCEPT ![p] = "changed"]
      /\ view' = [view EXCEPT ![p] = v] /\ key' = key
      /\ command' = [command EXCEPT ![p] = command[p]]
      /\ exit' = [exit EXCEPT ![p] = exit[p]] /\ exit[p] \in {"none", "ok", "failed"}
  BY DEF Change, Inv, TypeOK
<1>2. /\ pc'[p] = next /\ txn'[p] = "changed" /\ view'[p] = v
      /\ command'[p] = command[p]
  BY <1>1 DEF Inv, TypeOK
<1>3. ViewIsOwn(p)'
  BY <1>2, NamesDiffer DEF ViewIsOwn
<1>4. KeyIsWhole' /\ key' \in Key
  BY <1>1 DEF Inv, KeyIsWhole, TypeOK
<1> QED BY <1>1, <1>3, <1>4, StepInv

LEMMA CreateKeyInv == ASSUME Inv, NEW p \in Process, CreateKey(p) PROVE Inv'
<1> DEFINE v == IF key = Absent THEN Empty ELSE key
<1>1. command[p] = "add" /\ Change(p, "key", v, "CategoryMessageFile")
  BY DEF CreateKey
<1>2. v \in Values /\ v \in Key
  BY NamesDiffer DEF Inv, TypeOK, Key
<1>3. "CategoryMessageFile" \in Name /\ Done("CategoryMessageFile") = {}
  BY DEF Name, Done
<1> HIDE DEF v
<1> QED BY <1>1, <1>2, <1>3, ChangeInv

LEMMA SetValueInv ==
    ASSUME Inv, NEW p \in Process, NEW name \in Name, SetValue(p, name)
    PROVE  Inv'
<1> DEFINE v == [view[p] EXCEPT ![name] = p]
<1>1. /\ Change(p, name, v, Following(name)) /\ pc[p] = name
      /\ txn[p] \in {"open", "changed"}
  BY DEF SetValue, Change
<1>2. command[p] = "add" /\ txn[p] = "changed" /\ view[p] \in Values
  BY <1>1, NamesDiffer DEF Inv, ViewIsOwn
<1>3. v \in Values /\ v \in Key
  BY <1>2 DEF Values, Key
<1>4. Following(name) \in Name \cup {"commit"}
  BY DEF Following, Name
<1>5. Done(Following(name)) \subseteq Done(name) \cup {name}
  BY DEF Following, Done, Name
<1>6. \A n \in Done(name) : view[p][n] = p
  BY <1>1, <1>2 DEF Inv, ViewIsOwn
<1>7. Done(name) \subseteq Name
  BY DEF Done, Name
<1>8. \A n \in Done(Following(name)) : v[n] = p
  BY <1>2, <1>5, <1>6, <1>7 DEF Values
<1> HIDE DEF v
<1> QED BY <1>1, <1>2, <1>3, <1>4, <1>8, ChangeInv

LEMMA DeleteKeyInv == ASSUME Inv, NEW p \in Process, DeleteKey(p) PROVE Inv'
<1>1. command[p] = "remove"
  BY DEF DeleteKey
<1>2. CASE key # Absent /\ Change(p, "key", Absent, "commit")
  <2>1. Absent \in Key
    BY DEF Key
  <2> QED BY <1>1, <1>2, <2>1, NamesDiffer, ChangeInv
<1>3. CASE /\ key = Absent /\ pc[p] = "key" /\ txn[p] = "open"
           /\ pc' = [pc EXCEPT ![p] = "commit"]
           /\ UNCHANGED <<key, view, txn, command, exit>>
  <2>1. /\ txn' = [txn EXCEPT ![p] = "open"] /\ view' = [view EXCEPT ![p] = view[p]]
        /\ command' = [command EXCEPT ![p] = "remove"]
        /\ exit' = [exit EXCEPT ![p] = exit[p]]
        /\ view[p] \in Key /\ exit[p] \in {"none", "ok", "failed"}
    BY <1>1, <1>3 DEF Inv, TypeOK
  <2>2. ViewIsOwn(p)'
    BY <1>1, <1>3, NamesDiffer DEF ViewIsOwn, Inv, TypeOK
  <2>3. KeyIsWhole' /\ key' \in Key
    BY <1>3 DEF Inv, KeyIsWhole, TypeOK
  <2> QED BY <1>3, <2>1, <2>2, <2>3, StepInv
<1> QED BY <1>2, <1>3 DEF DeleteKey

\* What is committed is whole.
LEMMA CommitInv == ASSUME Inv, NEW p \in Process, Commit(p) PROVE Inv'
<1>1. /\ pc[p] = "commit" /\ Finish(p, "ok")
      /\ key' = IF txn[p] = "changed" THEN view[p] ELSE key
  BY DEF Commit
<1>2. key' \in Key
  BY <1>1 DEF Inv, TypeOK
<1>3. KeyIsWhole'
  <2>1. CASE txn[p] # "changed"
    BY <1>1, <2>1 DEF Inv, KeyIsWhole
  <2>2. CASE txn[p] = "changed" /\ command[p] = "remove"
    BY <1>1, <2>2 DEF Inv, ViewIsOwn, KeyIsWhole
  <2>3. CASE txn[p] = "changed" /\ command[p] = "add"
    <3>1. \A n \in Name : view[p][n] = p
      BY <1>1, <2>3 DEF Inv, ViewIsOwn, Done
    <3> QED BY <1>1, <2>3, <3>1 DEF KeyIsWhole
  <2>4. command[p] \in {"add", "remove"}
    BY <1>1 DEF Inv, ViewIsOwn
  <2> QED BY <2>1, <2>2, <2>3, <2>4
<1> QED BY <1>1, <1>2, <1>3, FinishInv

LEMMA TimeOutInv == ASSUME Inv, NEW p \in Process, TimeOut(p) PROVE Inv'
<1>1. /\ txn[p] \in {"open", "changed"}
      /\ txn' = [txn EXCEPT ![p] = "rolled_back"] /\ view' = [view EXCEPT ![p] = Absent]
      /\ pc' = [pc EXCEPT ![p] = pc[p]] /\ command' = [command EXCEPT ![p] = command[p]]
      /\ exit' = [exit EXCEPT ![p] = exit[p]] /\ key' = key
      /\ pc[p] \in Name \cup {"idle", "key", "commit"} /\ exit[p] \in {"none", "ok", "failed"}
      /\ command[p] \in {"none", "add", "remove"} /\ Absent \in Key
  BY DEF TimeOut, Inv, TypeOK, Key
<1>2. ViewIsOwn(p)'
  BY <1>1 DEF ViewIsOwn, Inv, TypeOK
<1>3. KeyIsWhole' /\ key' \in Key
  BY <1>1 DEF Inv, KeyIsWhole, TypeOK
<1> QED BY <1>1, <1>2, <1>3, StepInv

LEMMA ThrowInv == ASSUME Inv, NEW p \in Process, Throw(p) PROVE Inv'
<1>1. Finish(p, "failed") /\ key' = key
  BY DEF Throw
<1>2. key' \in Key /\ KeyIsWhole'
  BY <1>1 DEF Inv, TypeOK, KeyIsWhole
<1> QED BY <1>1, <1>2, FinishInv

LEMMA NextInv == Inv /\ [Next]_vars => Inv'
<1>1. Inv /\ Next => Inv'
  BY BeginInv, CreateKeyInv, SetValueInv, DeleteKeyInv, CommitInv, TimeOutInv,
     ThrowInv DEF Next
<1>2. Inv /\ UNCHANGED vars => Inv'
  BY DEF Inv, TypeOK, KeyIsWhole, ViewIsOwn, vars
<1> QED BY <1>1, <1>2

LEMMA Invariant == Spec => []Inv
  BY InitInv, NextInv, PTL DEF Spec
-----------------------------------------------------------------------------
(* Every step of a command is one of AtomicKey, or none.                   *)

Owner == IF key = Absent THEN Nothing ELSE key["CategoryMessageFile"]
Calls == [p \in Process |-> CallOf(p)]

\* What is to be shown of a step: it is command p's, and the owner and p's call
\* change as they do in a step of AtomicKey.
LEMMA StepRefines ==
    ASSUME Inv, NEW p \in Process,
           \A q \in Process \ {p} :
               /\ pc'[q] = pc[q] /\ txn'[q] = txn[q] /\ command'[q] = command[q]
    PROVE  Calls' = [Calls EXCEPT ![p] = CallOf(p)']
<1>1. \A q \in Process \ {p} : CallOf(q)' = CallOf(q)
  BY DEF CallOf
<1>2. Calls' = [q \in Process |-> CallOf(q)']
  BY DEF Calls
<1>3. Calls = [q \in Process |-> CallOf(q)]
  BY DEF Calls
<1> HIDE DEF CallOf
<1> QED BY <1>1, <1>2, <1>3

LEMMA BeginRefines ==
    ASSUME Inv, NEW p \in Process, NEW f \in {"add", "remove"}, Begin(p, f)
    PROVE  Atomic!Begin(p)
<1>1. PICK t \in {"open", "none"} : txn' = [txn EXCEPT ![p] = t]
  BY DEF Begin
<1>2. /\ pc[p] = "idle" /\ pc' = [pc EXCEPT ![p] = "key"]
      /\ command' = [command EXCEPT ![p] = f]
      /\ exit' = [exit EXCEPT ![p] = "none"] /\ key' = key
  BY DEF Begin
<1>3. CallOf(p) = "none" /\ CallOf(p)' \in {f, "failing"}
  BY <1>1, <1>2 DEF CallOf, Inv, TypeOK
<1>4. Calls' = [Calls EXCEPT ![p] = CallOf(p)']
  BY <1>1, <1>2, StepRefines DEF Inv, TypeOK
<1> QED BY <1>2, <1>3, <1>4 DEF Atomic!Begin, Calls

LEMMA FinishRefines ==
    ASSUME Inv, NEW p \in Process, NEW how \in {"ok", "failed"}, Finish(p, how)
    PROVE  Atomic!Return(p, how)
<1>1. /\ pc' = [pc EXCEPT ![p] = "idle"] /\ exit' = [exit EXCEPT ![p] = how]
      /\ txn' = [txn EXCEPT ![p] = "none"] /\ command' = command
  BY DEF Finish
<1>2. CallOf(p)' = "none"
  BY <1>1 DEF CallOf, Inv, TypeOK
<1>3. Calls' = [Calls EXCEPT ![p] = CallOf(p)']
  BY <1>1, StepRefines DEF Inv, TypeOK
<1> QED BY <1>1, <1>2, <1>3 DEF Atomic!Return, Calls

\* Until it is committed, a change is no step.
LEMMA ChangeRefines ==
    ASSUME Inv, NEW p \in Process, NEW was, NEW v, NEW next \in Name \cup {"commit"},
           Change(p, was, v, next), was \in Name \cup {"key"}
    PROVE  UNCHANGED (Atomic!vars)
<1>1. /\ pc[p] = was /\ txn[p] \in {"open", "changed"}
      /\ pc' = [pc EXCEPT ![p] = next] /\ txn' = [txn EXCEPT ![p] = "changed"]
      /\ UNCHANGED <<key, command, exit>>
  BY DEF Change
<1>2. CallOf(p) = command[p] /\ CallOf(p)' = command[p]
  BY <1>1, NamesDiffer DEF CallOf, Inv, TypeOK
<1>3. Calls' = [Calls EXCEPT ![p] = CallOf(p)']
  BY <1>1, StepRefines DEF Inv, TypeOK
<1> QED BY <1>1, <1>2, <1>3 DEF Atomic!vars, Calls

LEMMA DeleteKeyRefines ==
    ASSUME Inv, NEW p \in Process, DeleteKey(p)
    PROVE  Atomic!FindNoKey(p) \/ UNCHANGED (Atomic!vars)
<1>1. CASE Change(p, "key", Absent, "commit")
  BY <1>1, ChangeRefines
<1>2. CASE /\ key = Absent /\ pc[p] = "key" /\ txn[p] = "open"
           /\ pc' = [pc EXCEPT ![p] = "commit"]
           /\ UNCHANGED <<key, view, txn, command, exit>>
  <2>1. CallOf(p) = "remove" /\ CallOf(p)' = "removed"
    BY <1>2 DEF DeleteKey, CallOf, Inv, TypeOK
  <2>2. Calls' = [Calls EXCEPT ![p] = CallOf(p)']
    BY <1>2, StepRefines DEF Inv, TypeOK
  <2> QED BY <1>2, <2>1, <2>2 DEF Atomic!FindNoKey, Calls
<1> QED BY <1>1, <1>2 DEF DeleteKey

LEMMA CommitRefines ==
    ASSUME Inv, NEW p \in Process, Commit(p) PROVE Atomic!Succeed(p)
<1>1. /\ pc[p] = "commit" /\ txn[p] \in {"open", "changed"} /\ Finish(p, "ok")
      /\ key' = IF txn[p] = "changed" THEN view[p] ELSE key
  BY DEF Commit
<1>2. Atomic!Return(p, "ok")
  BY <1>1, FinishRefines
<1>3. CASE txn[p] = "open"
  <2>1. CallOf(p) = "removed"
    BY <1>1, <1>3 DEF CallOf
  <2> QED BY <1>1, <1>2, <1>3, <2>1 DEF Atomic!Succeed
<1>4. CASE txn[p] = "changed" /\ command[p] = "remove"
  <2>1. CallOf(p) = "remove" /\ key' = Absent
    BY <1>1, <1>4 DEF CallOf, Inv, ViewIsOwn
  <2> QED BY <1>2, <2>1 DEF Atomic!Succeed
<1>5. CASE txn[p] = "changed" /\ command[p] = "add"
  <2>1. CallOf(p) = "add" /\ key' = view[p]
    BY <1>1, <1>5 DEF CallOf
  <2>2. view[p] # Absent /\ view[p]["CategoryMessageFile"] = p
    BY <1>1, <1>5, NamesDiffer DEF Inv, ViewIsOwn, Done, Name
  <2> QED BY <1>2, <2>1, <2>2 DEF Atomic!Succeed
<1>6. command[p] \in {"add", "remove"}
  BY <1>1 DEF Inv, ViewIsOwn
<1> QED BY <1>1, <1>3, <1>4, <1>5, <1>6

LEMMA TimeOutRefines ==
    ASSUME Inv, NEW p \in Process, TimeOut(p) PROVE Atomic!RunOut(p)
<1>1. /\ txn[p] \in {"open", "changed"} /\ txn' = [txn EXCEPT ![p] = "rolled_back"]
      /\ UNCHANGED <<key, pc, command, exit>>
  BY DEF TimeOut
<1>2. CallOf(p) \in {"add", "remove", "removed"} /\ CallOf(p)' = "failing"
  BY <1>1 DEF CallOf, Inv, TypeOK, ViewIsOwn
<1>3. Calls' = [Calls EXCEPT ![p] = CallOf(p)']
  BY <1>1, StepRefines DEF Inv, TypeOK
<1> QED BY <1>1, <1>2, <1>3 DEF Atomic!RunOut, Calls

LEMMA ThrowRefines ==
    ASSUME Inv, NEW p \in Process, Throw(p) PROVE Atomic!Fail(p)
<1>1. Finish(p, "failed") /\ key' = key /\ pc[p] # "idle"
  BY DEF Throw
<1>2. CallOf(p) # "none"
  BY <1>1 DEF CallOf, Inv, ViewIsOwn
<1> QED BY <1>1, <1>2, FinishRefines DEF Atomic!Fail

LEMMA NextRefines == Inv /\ [Next]_vars => [Atomic!Next]_(Atomic!vars)
<1> SUFFICES ASSUME Inv, [Next]_vars
             PROVE  Atomic!Next \/ UNCHANGED (Atomic!vars)
  OBVIOUS
<1>1. CASE Next
  <2>1. PICK p \in Process :
          \/ Begin(p, "add") \/ Begin(p, "remove") \/ CreateKey(p)
          \/ \E n \in Name : SetValue(p, n)
          \/ DeleteKey(p) \/ Commit(p) \/ TimeOut(p) \/ Throw(p)
    BY <1>1 DEF Next
  <2>2. CASE CreateKey(p)
    BY <2>2, ChangeRefines DEF CreateKey, Name
  <2>3. CASE \E n \in Name : SetValue(p, n)
    <3>1. PICK n \in Name : SetValue(p, n)
      BY <2>3
    <3>2. Following(n) \in Name \cup {"commit"}
      BY DEF Following, Name
    <3> QED BY <3>1, <3>2, ChangeRefines DEF SetValue
  <2>4. CASE Begin(p, "add") \/ Begin(p, "remove")
    BY <2>4, BeginRefines DEF Atomic!Next
  <2>5. CASE DeleteKey(p) \/ Commit(p) \/ TimeOut(p) \/ Throw(p)
    BY <2>5, DeleteKeyRefines, CommitRefines, TimeOutRefines, ThrowRefines
       DEF Atomic!Next
  <2> QED BY <2>1, <2>2, <2>3, <2>4, <2>5
<1>2. CASE UNCHANGED vars
  BY <1>2 DEF vars, Atomic!vars, CallOf
<1> QED BY <1>1, <1>2
-----------------------------------------------------------------------------
(* The theorems.                                                           *)

\* The key, the transactions and the results keep their types.
THEOREM RegistryTypeCorrect == Spec => []TypeOK
<1>1. Inv => TypeOK
  BY DEF Inv
<1> QED BY Invariant, <1>1, PTL

\* The key is whole or absent whatever commands run, fail, run out of time or
\* are killed at whatever point (registry.cc lines 58-142).
THEOREM KeyIsAlwaysWhole == Spec => []KeyIsWhole
<1>1. Inv => KeyIsWhole
  BY DEF Inv
<1> QED BY Invariant, <1>1, PTL

\* register and unregister have their effect in one step or none, in some order
\* of all commands, and report it truly (registry.cc lines 58-142).
THEOREM RegistryIsAtomic == Spec => ImplementsAtomicKey
<1>1. Init => Atomic!Init
  BY DEF Init, Atomic!Init, CallOf
<1>2. Spec => Atomic!Init /\ [][Atomic!Next]_(Atomic!vars)
  BY <1>1, Invariant, NextRefines, PTL DEF Spec
<1> QED BY <1>2 DEF ImplementsAtomicKey, Atomic!Spec
==============================================================================
