------------------------ MODULE HIDEnumeration_proofs ------------------------
(***************************************************************************)
(* Theorems about HIDEnumeration for any number of interfaces.             *)
(***************************************************************************)
EXTENDS HIDEnumeration, FunctionTheorems, FiniteSetTheorems, TLAPS

-----------------------------------------------------------------------------
(* Snapshots.                                                              *)

Distinct(s) == \A i, j \in 1 .. Len(s) : s[i] = s[j] => i = j

\* A snapshot is a sequence, and has all of what it was taken of, once.
LEMMA OrdersOf ==
    ASSUME NEW S, IsFiniteSet(S), NEW s \in Orders(S)
    PROVE  /\ s \in Seq(S) /\ Distinct(s)
           /\ \A p \in S : \E i \in 1 .. Len(s) : s[i] = p
<1> DEFINE n == Cardinality(S)
<1>1. n \in Nat
  BY FS_CardinalityType
<1>2. s \in [1 .. n -> S] /\ \A i, j \in 1 .. n : s[i] = s[j] => i = j
  BY DEF Orders
<1> HIDE DEF n
<1>3. s \in Seq(S) /\ Len(s) = n
  BY <1>1, <1>2
<1>4. IsFiniteSet(1 .. n) /\ Cardinality(1 .. n) = n
  <2>1. 1 \in Int /\ n \in Int
    BY <1>1
  <2> QED BY <1>1, <2>1, FS_Interval
<1>5. s \in Injection(1 .. n, S)
  BY <1>2 DEF Injection, IsInjective
<1>6. s \in Surjection(1 .. n, S)
  BY <1>4, <1>5, FS_Injection DEF n
<1> QED BY <1>2, <1>3, <1>6 DEF Surjection, Distinct

LEMMA OrderLength ==
    ASSUME Parameters, NEW S \in SUBSET Path, NEW s \in Orders(S)
    PROVE  Len(s) \in Nat /\ Len(s) < MAXDWORD
<1>1. IsFiniteSet(Path) /\ IsFiniteSet(S) /\ Cardinality(S) <= Cardinality(Path)
  BY FS_Subset DEF Parameters
<1>2. Cardinality(S) \in Nat /\ Cardinality(Path) \in Nat
  BY <1>1, FS_CardinalityType
<1>3. Len(s) = Cardinality(S)
  BY <1>2 DEF Orders
<1> QED BY <1>1, <1>2, <1>3 DEF Parameters

\* One more path that is not among the others.
LEMMA AppendDistinct ==
    ASSUME NEW s \in Seq(Path), NEW p \in Path, Distinct(s),
           \A i \in 1 .. Len(s) : s[i] # p
    PROVE  /\ Append(s, p) \in Seq(Path) /\ Distinct(Append(s, p))
           /\ Len(Append(s, p)) = Len(s) + 1
           /\ Append(s, p)[Len(s) + 1] = p
           /\ \A i \in 1 .. Len(s) : Append(s, p)[i] = s[i]
<1>1. /\ Len(Append(s, p)) = Len(s) + 1 /\ Append(s, p) \in Seq(Path)
      /\ Append(s, p)[Len(s) + 1] = p
      /\ \A i \in 1 .. Len(s) : Append(s, p)[i] = s[i]
  OBVIOUS
<1>2. Distinct(Append(s, p))
  BY <1>1 DEF Distinct
<1> QED BY <1>1, <1>2
-----------------------------------------------------------------------------
(* The inductive invariant.                                                *)

Shape ==
    /\ interface \in [Path -> State]
    /\ devinfo \in Seq(Path)
    /\ di_idx \in Nat
    /\ visited \in Seq(Path)
    /\ due \subseteq Path
    /\ place \in {"none", "interface", "detail", "size", "state", "ready", "end"}
    /\ Distinct(devinfo) /\ Distinct(visited)

\* The index of the first interface that has not been passed.
Ahead == IF place = "ready" THEN di_idx + 2 ELSE di_idx + 1

AtInterface == place \in {"detail", "size", "state", "ready"}

\* The iterator has visited only what it has passed, and what is due has been
\* visited or is ahead of it.
Inv ==
    /\ Shape
    /\ place = "none" => due = {} /\ visited = <<>>
    /\ AtInterface => di_idx < Len(devinfo)
    /\ place = "ready" => Len(visited) > 0 /\ visited[Len(visited)] = device_path
    /\ place # "end" => \A i \in 1 .. Len(visited) : \E j \in 1 .. Len(devinfo) :
                            j < Ahead /\ visited[i] = devinfo[j]
    /\ \A p \in due : \/ \E i \in 1 .. Len(visited) : visited[i] = p
                      \/ place # "end" /\ \E j \in 1 .. Len(devinfo) :
                                              j >= Ahead /\ devinfo[j] = p
    /\ \A p \in due : interface[p] = "installed"

LEMMA InitInv == ASSUME Parameters, Init PROVE Inv
<1>1. Len(devinfo) = 0 /\ Len(visited) = 0
  BY DEF Init
<1> QED BY <1>1 DEF Init, Inv, Shape, Distinct, AtInterface, Parameters

LEMMA ConstructInv == ASSUME Parameters, Inv, Construct PROVE Inv'
<1> DEFINE S == {p \in Path : interface[p] # "absent"}
<1>1. IsFiniteSet(S)
  BY FS_Subset DEF Parameters
<1>2. devinfo' \in Orders(S)
  BY DEF Construct
<1>3. /\ devinfo' \in Seq(S) /\ Distinct(devinfo')
      /\ \A p \in S : \E i \in 1 .. Len(devinfo') : devinfo'[i] = p
  BY <1>1, <1>2, OrdersOf
<1>4. devinfo' \in Seq(Path) /\ Len(devinfo') \in Nat
  BY <1>3
<1>5. due' \subseteq S /\ \A p \in due' : interface'[p] = "installed"
  BY DEF Construct
<1>6. /\ visited' = <<>> /\ di_idx' = 0 /\ place' = "interface"
      /\ interface' \in [Path -> State]
  BY DEF Construct, Inv, Shape
<1> HIDE DEF S
<1>7. due' \subseteq Path
  BY <1>5 DEF S
<1>8. \A p \in due' : \E j \in 1 .. Len(devinfo') : j >= 1 /\ devinfo'[j] = p
  BY <1>3, <1>4, <1>5
<1>9. visited' \in Seq(Path) /\ Len(visited') = 0 /\ Distinct(visited')
  BY <1>6 DEF Distinct
<1>10. Shape'
  BY <1>3, <1>4, <1>6, <1>7, <1>9 DEF Shape
<1> QED BY <1>4, <1>5, <1>6, <1>8, <1>9, <1>10 DEF Inv, Ahead, AtInterface

\* The loop goes on behind an interface that is not due.
LEMMA ContinueInv ==
    ASSUME Inv, Continue, AtInterface, due' \subseteq due,
           place = "ready" \/ Current \notin due'
    PROVE  Inv'
<1>1. /\ Shape /\ di_idx \in Nat /\ di_idx < Len(devinfo) /\ Len(devinfo) \in Nat
      /\ Len(visited) \in Nat
  BY DEF Inv, Shape
<1>2. /\ di_idx' = di_idx + 1 /\ place' = "interface"
      /\ interface' = interface /\ devinfo' = devinfo /\ visited' = visited
  BY DEF Continue
<1>3. Ahead' = di_idx + 2 /\ Ahead \in {di_idx + 1, di_idx + 2}
  BY <1>1, <1>2 DEF Ahead
<1>4. \A i \in 1 .. Len(visited) : \E j \in 1 .. Len(devinfo) :
          j < Ahead' /\ visited[i] = devinfo[j]
  BY <1>1, <1>3 DEF Inv, AtInterface
<1>5. ASSUME NEW p \in due'
      PROVE  \/ \E i \in 1 .. Len(visited) : visited[i] = p
             \/ \E j \in 1 .. Len(devinfo) : j >= Ahead' /\ devinfo[j] = p
  <2>1. CASE \E i \in 1 .. Len(visited) : visited[i] = p
    BY <2>1
  <2>2. CASE \E j \in 1 .. Len(devinfo) : j >= Ahead /\ devinfo[j] = p
    <3>1. PICK j \in 1 .. Len(devinfo) : j >= Ahead /\ devinfo[j] = p
      BY <2>2
    <3>2. j >= Ahead'
      BY <1>1, <1>3, <3>1 DEF Ahead, Current
    <3> QED BY <3>1, <3>2
  <2> QED BY <2>1, <2>2 DEF Inv
<1>6. Shape'
  BY <1>1, <1>2 DEF Shape
<1> QED BY <1>2, <1>4, <1>5, <1>6 DEF Inv, AtInterface

LEMMA NoInterfaceInv == ASSUME Parameters, Inv, NoInterface PROVE Inv'
<1>1. /\ Shape /\ di_idx \in Nat /\ Len(devinfo) \in Nat
  BY DEF Inv, Shape
<1>2. /\ place = "interface" /\ place' = "end" /\ di_idx' = MAXDWORD
      /\ due' = due \ {devinfo[i] : i \in di_idx + 1 .. Len(devinfo)}
      /\ interface' = interface /\ devinfo' = devinfo /\ visited' = visited
  BY DEF NoInterface
<1>3. ASSUME NEW p \in due'
      PROVE  \E i \in 1 .. Len(visited) : visited[i] = p
  <2>1. p \in due /\ \A j \in di_idx + 1 .. Len(devinfo) : devinfo[j] # p
    BY <1>2
  <2>2. ~ \E j \in 1 .. Len(devinfo) : j >= Ahead /\ devinfo[j] = p
    BY <1>1, <1>2, <2>1 DEF Ahead
  <2> QED BY <2>1, <2>2 DEF Inv
<1>4. Shape'
  BY <1>1, <1>2 DEF Shape, Parameters
<1> QED BY <1>2, <1>3, <1>4 DEF Inv, AtInterface

LEMMA InstalledInv == ASSUME Inv, Installed PROVE Inv'
<1>1. /\ Shape /\ di_idx \in Nat /\ di_idx < Len(devinfo) /\ Len(devinfo) \in Nat
      /\ Len(visited) \in Nat /\ place = "state" /\ Ahead = di_idx + 1
  BY DEF Inv, Shape, AtInterface, Installed, Ahead
<1>2. /\ place' = "ready" /\ di_idx' = di_idx /\ due' = due
      /\ interface' = interface /\ devinfo' = devinfo
      /\ visited' = Append(visited, Current) /\ Ahead' = di_idx + 2
  BY DEF Installed, Ahead
<1>3. Current \in Path /\ Current = devinfo[di_idx + 1] /\ di_idx + 1 \in 1 .. Len(devinfo)
  BY <1>1 DEF Shape, Current
<1>4. \A i \in 1 .. Len(visited) : \E j \in 1 .. Len(devinfo) :
          j < di_idx + 1 /\ visited[i] = devinfo[j]
  BY <1>1 DEF Inv
<1>5. \A i \in 1 .. Len(visited) : visited[i] # Current
  BY <1>1, <1>3, <1>4 DEF Shape, Distinct
<1>6. /\ visited' \in Seq(Path) /\ Distinct(visited')
      /\ Len(visited') = Len(visited) + 1
      /\ visited'[Len(visited) + 1] = Current
      /\ \A i \in 1 .. Len(visited) : visited'[i] = visited[i]
  BY <1>1, <1>2, <1>3, <1>5, AppendDistinct DEF Shape
<1>7. ASSUME NEW i \in 1 .. Len(visited')
      PROVE  \E j \in 1 .. Len(devinfo) : j < di_idx + 2 /\ visited'[i] = devinfo[j]
  <2>1. CASE i = Len(visited) + 1
    BY <1>1, <1>3, <1>6, <2>1
  <2>2. CASE i \in 1 .. Len(visited)
    <3>1. PICK j \in 1 .. Len(devinfo) : j < di_idx + 1 /\ visited[i] = devinfo[j]
      BY <1>4, <2>2
    <3>2. j < di_idx + 2
      BY <1>1, <3>1
    <3>3. visited'[i] = devinfo[j]
      BY <1>6, <2>2, <3>1
    <3> QED BY <3>2, <3>3
  <2>3. i = Len(visited) + 1 \/ i \in 1 .. Len(visited)
    <3>1. i \in 1 .. Len(visited) + 1
      BY <1>6
    <3> QED BY <1>1, <3>1
  <2> QED BY <2>1, <2>2, <2>3
<1>8. ASSUME NEW p \in due
      PROVE  \/ \E i \in 1 .. Len(visited') : visited'[i] = p
             \/ \E j \in 1 .. Len(devinfo) : j >= di_idx + 2 /\ devinfo[j] = p
  <2>1. CASE \E i \in 1 .. Len(visited) : visited[i] = p
    <3>1. PICK i \in 1 .. Len(visited) : visited[i] = p
      BY <2>1
    <3> QED BY <1>1, <1>6, <3>1
  <2>2. CASE \E j \in 1 .. Len(devinfo) : j >= di_idx + 1 /\ devinfo[j] = p
    <3>1. PICK j \in 1 .. Len(devinfo) : j >= di_idx + 1 /\ devinfo[j] = p
      BY <2>2
    <3>2. CASE j = di_idx + 1
      BY <1>1, <1>3, <1>6, <3>1, <3>2
    <3>3. CASE j >= di_idx + 2
      BY <3>1, <3>3
    <3> QED BY <1>1, <3>1, <3>2, <3>3
  <2> QED BY <1>1, <2>1, <2>2 DEF Inv
<1>9. Shape'
  BY <1>1, <1>2, <1>6 DEF Shape
<1>10. Len(visited') > 0 /\ visited'[Len(visited')] = device_path'
  BY <1>1, <1>6 DEF Installed
<1> QED BY <1>1, <1>2, <1>7, <1>8, <1>9, <1>10 DEF Inv

\* The steps between, which pass no interface.
LEMMA StayInv ==
    ASSUME Inv, Interface \/ Detail \/ Size
    PROVE  Inv'
<1>1. /\ Ahead' = Ahead /\ di_idx' < Len(devinfo') /\ place # "none"
      /\ place' # "end" /\ place # "end" /\ place' # "none"
      /\ place' \in {"detail", "size", "state"}
  BY DEF Inv, Shape, Interface, Detail, Size, Ahead, AtInterface
<1>2. UNCHANGED <<interface, devinfo, di_idx, visited, due>>
  BY DEF Interface, Detail, Size
<1> QED BY <1>1, <1>2 DEF Inv, Shape, Distinct, AtInterface

LEMMA ComputerInv == ASSUME Inv, Computer PROVE Inv'
<1>1. UNCHANGED <<devinfo, di_idx, device_path, visited, place>> /\ due' \subseteq due
  BY DEF Computer, Arrive, Progress, Remove
<1>2. interface' \in [Path -> State] /\ \A p \in due' : interface'[p] = "installed"
  BY DEF Computer, Arrive, Progress, Remove, Inv, Shape, State
<1>3. Shape'
  BY <1>1, <1>2 DEF Inv, Shape
<1>4. place' # "end" => \A i \in 1 .. Len(visited') : \E j \in 1 .. Len(devinfo') :
                            j < Ahead' /\ visited'[i] = devinfo'[j]
  BY <1>1 DEF Inv, Ahead
<1>5. \A p \in due' : \/ \E i \in 1 .. Len(visited') : visited'[i] = p
                      \/ place' # "end" /\ \E j \in 1 .. Len(devinfo') :
                                              j >= Ahead' /\ devinfo'[j] = p
  BY <1>1 DEF Inv, Ahead
<1> QED BY <1>1, <1>2, <1>3, <1>4, <1>5 DEF Inv, AtInterface

LEMMA NextInv == ASSUME Parameters, Inv, Next PROVE Inv'
<1>1. CASE Construct
  BY <1>1, ConstructInv
<1>2. CASE NoInterface
  BY <1>2, NoInterfaceInv
<1>3. CASE Interface \/ Detail \/ Size
  BY <1>3, StayInv
<1>4. CASE Installed
  BY <1>4, InstalledInv
<1>5. CASE CallFails
  BY <1>5, ContinueInv DEF CallFails, AtInterface
<1>6. CASE NoState
  BY <1>6, ContinueInv DEF NoState, AtInterface, Inv
<1>7. CASE NotInstalled
  BY <1>7, ContinueInv DEF NotInstalled, AtInterface, Inv
<1>8. CASE Increment
  BY <1>8, ContinueInv DEF Increment, AtInterface
<1>9. CASE Computer
  BY <1>9, ComputerInv
<1> QED BY <1>1, <1>2, <1>3, <1>4, <1>5, <1>6, <1>7, <1>8, <1>9 DEF Next, Iterate

LEMMA StutterInv == ASSUME Inv, UNCHANGED vars PROVE Inv'
BY DEF Inv, Shape, Distinct, Ahead, AtInterface, vars

(***************************************************************************)
(* The types: the index stays within the snapshot, but for its end.        *)
(***************************************************************************)
Snapshots == UNION {Orders(S) : S \in SUBSET Path}

Position ==
    /\ devinfo \in Snapshots
    /\ Len(devinfo) < MAXDWORD
    /\ device_path \in Path \cup {NoPath}
    /\ di_idx <= Len(devinfo) \/ (place \in {"none", "end"} /\ di_idx = MAXDWORD)

LEMMA InitPosition == ASSUME Parameters, Init PROVE Position
<1>1. Cardinality({}) = 0
  BY FS_EmptySet
<1>2. <<>> \in Orders({})
  BY <1>1 DEF Orders
<1>3. devinfo \in Snapshots
  <2>1. {} \in SUBSET Path
    OBVIOUS
  <2> QED BY <1>2, <2>1 DEF Init, Snapshots
<1>4. Len(devinfo) < MAXDWORD
  BY <1>2, OrderLength DEF Init
<1> QED BY <1>3, <1>4 DEF Init, Position

LEMMA NextPosition == ASSUME Parameters, Inv, Position, Next PROVE Position'
<1>1. Len(devinfo) \in Nat /\ di_idx \in Nat /\ MAXDWORD \in Nat
  BY DEF Inv, Shape, Parameters
<1>2. CASE Construct
  <2>1. PICK S \in SUBSET Path : devinfo' \in Orders(S)
    BY <1>2 DEF Construct
  <2>2. devinfo' \in Snapshots
    BY <2>1 DEF Snapshots
  <2>3. Len(devinfo') \in Nat /\ Len(devinfo') < MAXDWORD
    BY <2>1, OrderLength
  <2> QED BY <1>2, <2>2, <2>3 DEF Construct, Position
<1>3. CASE devinfo' = devinfo /\ AtInterface /\ Continue
  <2>1. di_idx' <= Len(devinfo')
    BY <1>1, <1>3 DEF Inv, Continue
  <2> QED BY <1>3, <2>1 DEF Position, Continue
<1>4. CASE NoInterface
  BY <1>4 DEF NoInterface, Position
<1>5. CASE Interface \/ Detail \/ Size
  BY <1>5 DEF Interface, Detail, Size, Position
<1>6. CASE Installed
  <2>1. di_idx < Len(devinfo)
    BY <1>6 DEF Inv, AtInterface, Installed
  <2>2. Current \in Path
    BY <1>1, <2>1 DEF Inv, Shape, Current
  <2> QED BY <1>6, <2>2 DEF Installed, Position
<1>7. CASE Computer
  BY <1>7 DEF Computer, Arrive, Progress, Remove, Position
<1> QED BY <1>2, <1>3, <1>4, <1>5, <1>6, <1>7
        DEF Next, Iterate, CallFails, NoState, NotInstalled, Increment, Continue, AtInterface

LEMMA StutterPosition == ASSUME Position, UNCHANGED vars PROVE Position'
BY DEF Position, vars

LEMMA TypeOfInv == ASSUME Parameters, Inv, Position PROVE TypeOK
<1>1. Len(devinfo) \in Nat /\ di_idx \in Nat /\ MAXDWORD \in Nat
  BY DEF Inv, Shape, Parameters
<1>2. di_idx \in 0 .. MAXDWORD
  BY <1>1 DEF Position
<1>3. devinfo \in UNION {Orders(S) : S \in SUBSET Path}
  BY DEF Position, Snapshots
<1> QED BY <1>2, <1>3 DEF Position, Inv, Shape, TypeOK

LEMMA InvImplies == Inv => EveryInstalledVisited
BY DEF Inv, Shape, Distinct, EveryInstalledVisited

\* Every variable keeps its type, for any number of interfaces.
THEOREM EnumerationTypeCorrect ==
    ASSUME Parameters
    PROVE  Spec => []TypeOK
<1>1. Init => Inv /\ Position
  BY InitInv, InitPosition
<1>2. Inv /\ Position /\ [Next]_vars => Inv' /\ Position'
  BY NextInv, NextPosition, StutterInv, StutterPosition
<1>3. Inv /\ Position => TypeOK
  BY TypeOfInv
<1> QED BY <1>1, <1>2, <1>3, PTL DEF Spec

\* Whatever devices there are, and whenever they come and go: the iterator
\* stands once on each that is installed all the time.
THEOREM InstalledAreVisited ==
    ASSUME Parameters
    PROVE  Spec => []EveryInstalledVisited
<1>1. Inv /\ [Next]_vars => Inv'
  BY NextInv, StutterInv
<1>2. Init => Inv
  BY InitInv
<1> QED BY <1>1, <1>2, InvImplies, PTL DEF Spec
=============================================================================
