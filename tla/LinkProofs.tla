------------------------------ MODULE LinkProofs ------------------------------
(***************************************************************************)
(* Theorems about LogicalLink, for every set of threads, parameters and    *)
(* values, with a worker and without: its types, what the two buffers      *)
(* show, that the link is destroyed alone, and the order of its locks.     *)
(***************************************************************************)
EXTENDS LogicalLink, TLAPS

-----------------------------------------------------------------------------
(***************************************************************************)
(* Partial assignments, and what the driver does with one.                 *)
(***************************************************************************)
LEMMA AssignmentValues ==
  ASSUME NEW f \in Assignments
  PROVE  DOMAIN f \subseteq Params /\ \A p \in DOMAIN f : f[p] \in Values
<1>1. PICK P \in SUBSET Params : f \in [P -> Values]
  BY DEF Assignments
<1>2. QED BY <1>1

LEMMA NothingAssigned == Nothing \in Assignments /\ DOMAIN Nothing = {}
<1>1. Nothing \in [{} -> Values] /\ DOMAIN Nothing = {}
  BY DEF Nothing
<1>2. QED BY <1>1 DEF Assignments

LEMMA TargetAssigned ==
  ASSUME NEW S \in SUBSET Params, NEW f \in Targets(S)
  PROVE  f \in Assignments /\ DOMAIN f \subseteq S
<1>1. PICK P \in SUBSET S : f \in [P -> Values]
  BY DEF Targets
<1>2. P \in SUBSET Params
  OBVIOUS
<1>3. QED BY <1>1, <1>2 DEF Assignments

LEMMA PartsAssigned ==
  ASSUME NEW f \in Assignments, NEW p \in DOMAIN f
  PROVE  /\ Without(f, p) \in Assignments
         /\ DOMAIN Without(f, p) = DOMAIN f \ {p}
         /\ \A x \in DOMAIN f \ {p} : Without(f, p)[x] = f[x]
         /\ Only(f, p) \in Assignments
         /\ DOMAIN Only(f, p) = {p}
         /\ Only(f, p)[p] = f[p]
<1>1. DOMAIN f \subseteq Params /\ \A x \in DOMAIN f : f[x] \in Values
  BY AssignmentValues
<1>2. Without(f, p) \in [DOMAIN f \ {p} -> Values]
  BY <1>1 DEF Without
<1>3. Only(f, p) \in [{p} -> Values]
  BY <1>1 DEF Only
<1>4. DOMAIN f \ {p} \in SUBSET Params /\ {p} \in SUBSET Params
  BY <1>1
<1>5. Without(f, p) \in Assignments /\ Only(f, p) \in Assignments
  BY <1>2, <1>3, <1>4 DEF Assignments
<1>6. /\ DOMAIN Without(f, p) = DOMAIN f \ {p}
      /\ \A x \in DOMAIN f \ {p} : Without(f, p)[x] = f[x]
  BY DEF Without
<1>7. DOMAIN Only(f, p) = {p} /\ Only(f, p)[p] = f[p]
  BY DEF Only
<1>8. QED BY <1>5, <1>6, <1>7

\* The driver's working buffer takes exactly the assignment, and what the
\* driver has had is never forgotten.
LEMMA Taken ==
  ASSUME DriverType, NEW f \in Assignments, DriverTakes(f), UNCHANGED cll
  PROVE  /\ DriverType'
         /\ driver'.active = driver.active
         /\ \A p \in DOMAIN f : driver'.working[p] = f[p] /\ f[p] \in accepted'[p]
         /\ \A p \in Params \ DOMAIN f : driver'.working[p] = driver.working[p]
         /\ \A p \in Params : accepted[p] \subseteq accepted'[p]
<1>1. DOMAIN f \subseteq Params /\ \A x \in DOMAIN f : f[x] \in Values
  BY AssignmentValues
<1> DEFINE W == [p \in Params |-> IF p \in DOMAIN f THEN f[p] ELSE driver.working[p]]
<1>2. driver' = [driver EXCEPT !.working = W]
  BY DEF DriverTakes
<1>3. W \in [Params -> Values]
  BY <1>1 DEF DriverType
<1> HIDE DEF W
<1>4. /\ driver' \in [working : [Params -> Values], active : [Params -> Values]]
      /\ driver'.working = W /\ driver'.active = driver.active
  BY <1>2, <1>3 DEF DriverType
<1>5. \A p \in Params : W[p] = IF p \in DOMAIN f THEN f[p] ELSE driver.working[p]
  BY DEF W
<1>6. accepted' \in [Params -> SUBSET Values]
  BY <1>1 DEF DriverTakes, DriverType
<1>7. \A p \in Params : accepted'[p] = accepted[p] \cup (IF p \in DOMAIN f THEN {f[p]} ELSE {})
  BY DEF DriverTakes
<1>8. \A p \in DOMAIN f : driver'.working[p] = f[p] /\ f[p] \in accepted'[p]
  BY <1>1, <1>4, <1>5, <1>7
<1>9. QED BY <1>4, <1>5, <1>6, <1>7, <1>8 DEF DriverType

LEMMA MadeActive ==
  ASSUME DriverType, driver' = [driver EXCEPT !.active = driver.working],
         UNCHANGED accepted
  PROVE  /\ driver' \in [working : [Params -> Values], active : [Params -> Values]]
         /\ driver'.working = driver.working /\ driver'.active = driver.working
  BY DEF DriverType

-----------------------------------------------------------------------------
(***************************************************************************)
(* Types.                                                                  *)
(***************************************************************************)
LEMMA InitTypes == Init => TypeOK
<1> SUFFICES ASSUME Init PROVE TypeOK
  OBVIOUS
<1>1. DriverType
  BY LinkAssumption DEF Init, DriverType
<1>2. BufferType
  BY LinkAssumption DEF Init, BufferType, Buffer
<1>3. LockType
  BY LinkAssumption DEF Init, LockType
<1>4. CallType
  BY LinkAssumption DEF Init, CallType, LinkCalls, Pcs
<1>5. SetType
  BY NothingAssigned DEF Init, SetType
<1>6. QED BY <1>1, <1>2, <1>3, <1>4, <1>5 DEF TypeOK

\* What the end of a call does to the call's own state.
LEMMA EndTypes ==
  ASSUME TypeOK, NEW t \in Threads, EndCall(t), UNCHANGED callVars
  PROVE  CallType' /\ SetType'
<1>1. CallType'
  BY DEF TypeOK, CallType, Pcs, EndCall, callVars
<1>2. SetType'
  BY NothingAssigned DEF TypeOK, SetType, EndCall
<1>3. QED BY <1>1, <1>2

LEMMA BeginTypes ==
  ASSUME TypeOK, NEW t \in Threads, NEW c \in Calls, NEW direct \in BOOLEAN,
         Begin(t, c, direct)
  PROVE  TypeOK'
<1>1. c \in LinkCalls \cup PrimitiveCalls /\ Body(c, direct) \in LinkCalls \cup PrimitiveCalls
  BY LinkAssumption DEF Body, LinkCalls
<1>2. FirstPc(Body(c, direct)) \in Pcs
  BY <1>1 DEF FirstPc, Pcs
<1>3. CallType'
  BY <1>1, <1>2, LinkAssumption DEF Begin, TypeOK, CallType
<1>4. PICK new \in NewValues(c) :
        /\ todo' = [todo EXCEPT ![t] = new]
        /\ \E S \in NotedFirst(c, direct, new) : unnoted' = [unnoted EXCEPT ![t] = S]
  BY DEF Begin
<1>5. new \in Assignments
  <2>1. CASE c = "set"
    BY <2>1, <1>4, TargetAssigned DEF NewValues
  <2>2. CASE c = "table"
    BY <2>2, <1>4, TargetAssigned, LinkAssumption DEF NewValues
  <2>3. CASE c # "set" /\ c # "table"
    BY <2>3, <1>4, NothingAssigned DEF NewValues
  <2>4. QED BY <2>1, <2>2, <2>3
<1>6. PICK S \in {{}, DOMAIN new} : unnoted' = [unnoted EXCEPT ![t] = S]
  BY <1>4 DEF NotedFirst
<1>7. DOMAIN new \subseteq Params
  BY <1>5, AssignmentValues
<1>8. SetType'
  BY <1>4, <1>5, <1>6, <1>7 DEF TypeOK, SetType
<1>9. DriverType' /\ BufferType' /\ LockType'
  BY DEF Begin, TypeOK, DriverType, BufferType, LockType, driverVars, bufferVars, arcVars
<1>10. QED BY <1>3, <1>8, <1>9 DEF TypeOK

LEMMA ConnectTypes ==
  ASSUME TypeOK, NEW t \in Threads, GetStatus(t) \/ Connect(t) \/ Disconnect(t)
  PROVE  TypeOK'
<1> USE DEF TypeOK
<1>1. SetType' /\ BufferType'
  BY DEF GetStatus, Connect, Disconnect, SetType, BufferType, setVars, bufferVars
<1>2. CallType'
  BY DEF GetStatus, Connect, Disconnect, CallType, Goto, After, Pcs, callVars
<1>3. LockType'
  BY DEF GetStatus, Connect, Disconnect, LockType, arcVars
<1>4. DriverType'
  <2>1. CASE UNCHANGED <<driver, accepted>>
    BY <2>1 DEF GetStatus, Connect, Disconnect, DriverType, driverVars
  <2>2. CASE Connect(t) /\ driver' = [driver EXCEPT !.active = driver.working]
    BY <2>2, MadeActive DEF Connect, DriverType
  <2>3. QED BY <2>1, <2>2 DEF GetStatus, Connect, Disconnect, driverVars
<1>5. QED BY <1>1, <1>2, <1>3, <1>4

LEMMA SetOneTypes ==
  ASSUME TypeOK, NEW t \in Threads, NEW p \in DOMAIN todo[t], SetOne(t, p)
  PROVE  TypeOK'
<1> USE DEF TypeOK
<1>1. BufferType' /\ LockType'
  BY DEF SetOne, BufferType, LockType, bufferVars, arcVars
<1>2. UNCHANGED cll /\ UNCHANGED callVars
  BY DEF SetOne
<1>3. todo[t] \in Assignments /\ p \in Params
  BY AssignmentValues DEF SetType
<1>4. CASE Takes(t, p)
  <2>1. DriverType'
    BY <1>2, <1>3, <1>4, PartsAssigned, Taken DEF Takes
  <2>2. CallType' /\ SetType'
    <3>1. CASE EndCall(t)
      BY <3>1, <1>2, EndTypes
    <3>2. CASE unnoted' = [unnoted EXCEPT ![t] = {p}] /\ UNCHANGED <<todo, pc>>
      <4>1. CallType'
        BY <3>2, <1>2 DEF CallType, callVars
      <4>2. SetType'
        BY <3>2, <1>3 DEF SetType
      <4>3. QED BY <4>1, <4>2
    <3>3. QED BY <1>4, <3>1, <3>2 DEF Takes
  <2>3. QED BY <2>1, <2>2, <1>1
<1>5. CASE Skips(t, p)
  <2>1. DriverType' /\ CallType'
    BY <1>5, <1>2 DEF Skips, DriverType, CallType, callVars
  <2>2. unnoted[t] = {}
    BY DEF SetOne
  <2>3. SetType'
    BY <1>3, <1>5, <2>2, PartsAssigned DEF Skips, SetType
  <2>4. QED BY <2>1, <2>3, <1>1
<1>6. CASE EndCall(t) /\ UNCHANGED <<driver, accepted>>
  <2>1. DriverType'
    BY <1>6, <1>2 DEF DriverType
  <2>2. QED BY <2>1, <1>1, <1>2, <1>6, EndTypes
<1>7. QED BY <1>4, <1>5, <1>6 DEF SetOne

LEMMA SetEndTypes ==
  ASSUME TypeOK, NEW t \in Threads, SetEnd(t)
  PROVE  TypeOK'
<1>1. CallType' /\ SetType'
  BY EndTypes DEF SetEnd
<1>2. DriverType' /\ BufferType' /\ LockType'
  BY DEF SetEnd, TypeOK, DriverType, BufferType, LockType, driverVars, bufferVars, arcVars
<1>3. QED BY <1>1, <1>2 DEF TypeOK

LEMMA NoteTypes ==
  ASSUME TypeOK, NEW t \in Threads, NEW p \in unnoted[t], Note(t, p)
  PROVE  TypeOK'
<1> USE DEF TypeOK
<1>1. /\ todo[t] \in Assignments /\ p \in DOMAIN todo[t]
      /\ p \in Params /\ todo[t][p] \in Values
  BY AssignmentValues DEF SetType
<1>2. DriverType' /\ LockType' /\ CallType'
  BY DEF Note, DriverType, LockType, CallType, driverVars, arcVars, callVars
<1>3. BufferType'
  BY <1>1 DEF Note, NoteIn, BufferType, Buffer
<1>4. SetType'
  <2>1. CASE op[t] = "set"
    <3>1. todo' = [todo EXCEPT ![t] = Without(todo[t], p)]
      BY <2>1 DEF Note, SetType
    <3>2. unnoted' = [unnoted EXCEPT ![t] = unnoted[t] \ {p}]
      BY DEF Note
    <3>3. /\ Without(todo[t], p) \in Assignments
          /\ DOMAIN Without(todo[t], p) = DOMAIN todo[t] \ {p}
      BY <1>1, PartsAssigned
    <3>4. QED BY <3>1, <3>2, <3>3 DEF SetType
  <2>2. CASE op[t] # "set"
    BY <2>2 DEF Note, SetType
  <2>3. QED BY <2>1, <2>2
<1>5. QED BY <1>2, <1>3, <1>4

LEMMA SetTableTypes ==
  ASSUME TypeOK, NEW t \in Threads, SetTable(t)
  PROVE  TypeOK'
<1> USE DEF TypeOK
<1>1. CallType' /\ SetType'
  BY EndTypes DEF SetTable
<1>2. BufferType' /\ LockType'
  BY DEF SetTable, BufferType, LockType, bufferVars, arcVars
<1>3. DriverType'
  <2>1. CASE DriverTakes(todo[t])
    <3>1. todo[t] \in Assignments
      BY DEF SetType
    <3>2. QED BY <2>1, <3>1, Taken DEF SetTable
  <2>2. CASE UNCHANGED <<driver, accepted>>
    BY <2>2 DEF SetTable, DriverType
  <2>3. QED BY <2>1, <2>2 DEF SetTable
<1>4. QED BY <1>1, <1>2, <1>3

LEMMA PrimitiveTypes ==
  ASSUME TypeOK, NEW t \in Threads, StartPrimitive(t) \/ Upgrade(t)
  PROVE  TypeOK'
<1> USE DEF TypeOK
<1>1. BufferType' /\ SetType'
  BY DEF StartPrimitive, Upgrade, BufferType, SetType, bufferVars, setVars
<1>2. CallType'
  BY DEF StartPrimitive, Upgrade, CallType, Goto, After, Pcs, callVars
<1>3. LockType'
  BY DEF StartPrimitive, Upgrade, TakeArc, LockType, arcVars
<1>4. DriverType'
  <2>1. CASE UNCHANGED <<driver, accepted>>
    BY <2>1 DEF StartPrimitive, Upgrade, DriverType, driverVars
  <2>2. CASE UNCHANGED <<cll, accepted>> /\ driver' = [driver EXCEPT !.active = driver.working]
    BY <2>2, MadeActive DEF DriverType
  <2>3. CASE UNCHANGED cll /\ DriverTakes(driver.active)
    <3>1. driver.active \in [Params -> Values] /\ Params \in SUBSET Params
      BY DEF DriverType
    <3>2. driver.active \in Assignments
      BY <3>1 DEF Assignments
    <3>3. QED BY <2>3, <3>2, Taken
  <2>4. QED BY <2>1, <2>2, <2>3 DEF StartPrimitive, Upgrade, driverVars
<1>5. QED BY <1>1, <1>2, <1>3, <1>4

LEMMA CopyTypes ==
  ASSUME TypeOK, NEW t \in Threads, CopyFrom(t) \/ CopyTo(t)
  PROVE  TypeOK'
<1> USE DEF TypeOK
<1>1. DriverType' /\ SetType'
  BY DEF CopyFrom, CopyTo, DriverType, SetType, driverVars, setVars
<1>2. BufferType'
  BY DEF CopyFrom, CopyTo, BufferType, bufferVars
<1>3. CallType'
  BY DEF CopyFrom, CopyTo, CallType, Goto, Pcs, callVars
<1>4. LockType'
  BY DEF CopyFrom, CopyTo, ReleaseGuards, From, LockType, Mutexes, arcVars
<1>5. QED BY <1>1, <1>2, <1>3, <1>4

LEMMA NextTypes == TypeOK /\ [Next]_vars => TypeOK'
<1> SUFFICES ASSUME TypeOK, [Next]_vars PROVE TypeOK'
  OBVIOUS
<1>1. ASSUME NEW t \in Threads, NEW c \in Calls, NEW direct \in BOOLEAN, Begin(t, c, direct)
      PROVE  TypeOK'
  BY <1>1, BeginTypes
<1>2. ASSUME NEW t \in Threads, Step(t)
      PROVE  TypeOK'
  BY <1>2, ConnectTypes, SetOneTypes, SetEndTypes, NoteTypes, SetTableTypes,
     PrimitiveTypes, CopyTypes DEF Step
<1>3. ASSUME NEW t \in Threads, DropArc(t)
      PROVE  TypeOK'
  BY <1>3 DEF DropArc, TypeOK, DriverType, BufferType, LockType, CallType, SetType,
     driverVars, bufferVars, threadVars, callVars, setVars
<1>4. CASE Destruct
  BY <1>4 DEF Destruct, TypeOK, DriverType, BufferType, LockType, CallType, SetType,
     bufferVars, arcVars, threadVars, callVars, setVars
<1>5. CASE UNCHANGED vars
  BY <1>5 DEF vars, TypeOK, DriverType, BufferType, LockType, CallType, SetType,
     driverVars, bufferVars, arcVars, threadVars, callVars, setVars
<1>6. QED BY <1>1, <1>2, <1>3, <1>4, <1>5 DEF Next

(***************************************************************************)
(* TypeCorrect: every variable of the link keeps its type, in particular   *)
(* the buffers never gain or lose a parameter.                             *)
(***************************************************************************)
THEOREM TypeCorrect == Spec => []TypeOK
  BY InitTypes, NextTypes, PTL DEF Spec

-----------------------------------------------------------------------------
(***************************************************************************)
(* Nothing is invented.  A value on its way to the buffer, and the values  *)
(* of the driver's own buffers, are ones the driver has had.               *)
(***************************************************************************)
Accepted ==
  /\ \A p \in Params : driver.working[p] \in accepted[p] /\ driver.active[p] \in accepted[p]
  /\ \A t \in Threads : \A p \in unnoted[t] \ Unique : todo[t][p] \in accepted[p]

NothingInventedInv == TypeOK /\ Accepted /\ NothingInvented

LEMMA InitAccepted == Init => Accepted /\ NothingInvented
  BY LinkAssumption DEF Init, Accepted, NothingInvented

\* Steps that move no value between the buffers.
LEMMA KeepsAccepted ==
  ASSUME Accepted, NothingInvented, UNCHANGED <<driver, accepted, bufferVars>>,
         \A t \in Threads : \A p \in unnoted'[t] \ Unique :
           p \in unnoted[t] /\ todo'[t][p] = todo[t][p]
  PROVE  Accepted' /\ NothingInvented'
  BY DEF Accepted, NothingInvented, bufferVars

LEMMA BeginAccepted ==
  ASSUME NothingInventedInv, NEW t \in Threads, NEW c \in Calls,
         NEW direct \in BOOLEAN, Begin(t, c, direct)
  PROVE  Accepted' /\ NothingInvented'
<1>1. PICK new \in NewValues(c) :
        /\ todo' = [todo EXCEPT ![t] = new]
        /\ \E S \in NotedFirst(c, direct, new) : unnoted' = [unnoted EXCEPT ![t] = S]
  BY DEF Begin
<1>2. PICK S \in NotedFirst(c, direct, new) : unnoted' = [unnoted EXCEPT ![t] = S]
  BY <1>1
<1>3. S \subseteq Unique
  <2>1. CASE c = "table"
    <3>1. new \in Targets(Unique) /\ Unique \in SUBSET Params
      BY <2>1, <1>1, LinkAssumption DEF NewValues
    <3>2. QED BY <3>1, <1>2, TargetAssigned DEF NotedFirst
  <2>2. CASE c # "table"
    BY <2>2, <1>2 DEF NotedFirst
  <2>3. QED BY <2>1, <2>2
<1>4. UNCHANGED <<driver, accepted, bufferVars>>
  BY DEF Begin, driverVars
<1>5. \A u \in Threads : \A p \in unnoted'[u] \ Unique :
        p \in unnoted[u] /\ todo'[u][p] = todo[u][p]
  BY <1>1, <1>2, <1>3 DEF NothingInventedInv, TypeOK, SetType
<1>6. QED BY <1>4, <1>5, KeepsAccepted DEF NothingInventedInv

\* A step that ends the setting call of t, or leaves the setting calls alone.
LEMMA OthersKept ==
  ASSUME TypeOK, NEW t \in Threads, EndCall(t) \/ UNCHANGED setVars
  PROVE  \A u \in Threads : \A p \in unnoted'[u] \ Unique :
           p \in unnoted[u] /\ todo'[u][p] = todo[u][p]
  BY DEF TypeOK, SetType, EndCall, setVars

\* A step in which the driver takes an assignment and the buffers stay.
LEMMA TakenAccepted ==
  ASSUME NothingInventedInv, NEW f \in Assignments, DriverTakes(f), UNCHANGED cll,
         UNCHANGED bufferVars,
         \A t \in Threads : \A p \in unnoted'[t] \ Unique :
           \/ p \in unnoted[t] /\ todo'[t][p] = todo[t][p]
           \/ p \in DOMAIN f /\ todo'[t][p] = f[p]
  PROVE  Accepted' /\ NothingInvented'
<1> USE DEF NothingInventedInv, TypeOK
<1>1. /\ driver'.active = driver.active
      /\ \A p \in DOMAIN f : driver'.working[p] = f[p] /\ f[p] \in accepted'[p]
      /\ \A p \in Params \ DOMAIN f : driver'.working[p] = driver.working[p]
      /\ \A p \in Params : accepted[p] \subseteq accepted'[p]
  BY Taken
<1>2. \A p \in Params : /\ driver'.working[p] \in accepted'[p]
                        /\ driver'.active[p] \in accepted'[p]
  BY <1>1 DEF Accepted
<1>3. \A t \in Threads : unnoted[t] \subseteq Params
  BY DEF SetType
<1>4. \A t \in Threads : \A p \in unnoted'[t] \ Unique : todo'[t][p] \in accepted'[p]
  BY <1>1, <1>3 DEF Accepted
<1>5. NothingInvented'
  BY <1>1, LinkAssumption DEF NothingInvented, bufferVars
<1>6. QED BY <1>2, <1>4, <1>5 DEF Accepted

\* Noting one parameter leaves the others as they are.
LEMMA NoteFrame ==
  ASSUME TypeOK, NEW t \in Threads, NEW p \in unnoted[t], Note(t, p)
  PROVE  /\ p \in DOMAIN todo[t] /\ todo[t][p] \in Values
         /\ unnoted' = [unnoted EXCEPT ![t] = unnoted[t] \ {p}]
         /\ \A u \in Threads : \A x \in unnoted'[u] :
              x \in unnoted[u] /\ todo'[u][x] = todo[u][x]
<1>1. /\ unnoted' = [unnoted EXCEPT ![t] = unnoted[t] \ {p}]
      /\ unnoted \in [Threads -> SUBSET Params]
  BY DEF Note, TypeOK, SetType
<1>2. todo[t] \in Assignments /\ p \in DOMAIN todo[t] /\ unnoted[t] \subseteq DOMAIN todo[t]
  BY DEF TypeOK, SetType
<1>3. todo[t][p] \in Values
  BY <1>2, AssignmentValues
<1>4. \A x \in DOMAIN todo[t] \ {p} : Without(todo[t], p)[x] = todo[t][x]
  BY <1>2, PartsAssigned
<1>5. /\ todo \in [Threads -> Assignments]
      /\ todo' = [todo EXCEPT ![t] = Without(todo[t], p)] \/ todo' = todo
  BY DEF Note, TypeOK, SetType
<1>6. \A u \in Threads \ {t} : todo'[u] = todo[u] /\ unnoted'[u] = unnoted[u]
  BY <1>1, <1>5
<1>7. todo'[t] \in {Without(todo[t], p), todo[t]} /\ unnoted'[t] = unnoted[t] \ {p}
  BY <1>1, <1>5
<1>8. \A x \in unnoted'[t] : x \in unnoted[t] /\ todo'[t][x] = todo[t][x]
  BY <1>2, <1>4, <1>7
<1>9. QED BY <1>1, <1>2, <1>3, <1>6, <1>8

LEMMA StepAccepted ==
  ASSUME NothingInventedInv, NEW t \in Threads, Step(t)
  PROVE  Accepted' /\ NothingInvented'
<1> USE DEF NothingInventedInv
<1>1. CASE UNCHANGED <<driver, accepted, bufferVars, setVars>>
  BY <1>1, OthersKept, KeepsAccepted
<1>2. CASE /\ driver' = [driver EXCEPT !.active = driver.working]
           /\ UNCHANGED <<accepted, bufferVars, setVars>>
  <2>1. driver'.working = driver.working /\ driver'.active = driver.working
    BY <1>2, MadeActive DEF TypeOK
  <2>2. Accepted'
    BY <1>2, <2>1 DEF Accepted, setVars
  <2>3. NothingInvented'
    BY <1>2 DEF NothingInvented, bufferVars
  <2>4. QED BY <2>2, <2>3
<1>3. ASSUME NEW p \in DOMAIN todo[t], SetOne(t, p)
      PROVE  Accepted' /\ NothingInvented'
  <2>1. UNCHANGED cll /\ UNCHANGED bufferVars /\ unnoted[t] = {}
    BY <1>3 DEF SetOne
  <2>2. todo[t] \in Assignments
    BY DEF TypeOK, SetType
  <2>3. CASE Takes(t, p)
    <3>1. Only(todo[t], p) \in Assignments /\ DriverTakes(Only(todo[t], p))
      BY <2>2, <2>3, PartsAssigned DEF Takes
    <3>2. DOMAIN Only(todo[t], p) = {p} /\ Only(todo[t], p)[p] = todo[t][p]
      BY <2>2, PartsAssigned
    <3>3. CASE EndCall(t)
      BY <3>1, <3>3, <2>1, OthersKept, TakenAccepted
    <3>4. CASE unnoted' = [unnoted EXCEPT ![t] = {p}] /\ UNCHANGED todo
      <4>1. \A u \in Threads : \A x \in unnoted'[u] \ Unique :
              \/ x \in unnoted[u] /\ todo'[u][x] = todo[u][x]
              \/ x \in DOMAIN Only(todo[t], p) /\ todo'[u][x] = Only(todo[t], p)[x]
        BY <3>2, <3>4 DEF TypeOK, SetType
      <4>2. QED BY <3>1, <4>1, <2>1, TakenAccepted
    <3>5. QED BY <2>3, <3>3, <3>4 DEF Takes
  <2>4. CASE Skips(t, p)
    <3>1. \A u \in Threads : \A x \in unnoted'[u] \ Unique :
            x \in unnoted[u] /\ todo'[u][x] = todo[u][x]
      BY <2>1, <2>4 DEF Skips, TypeOK, SetType
    <3>2. QED BY <2>1, <2>4, <3>1, KeepsAccepted DEF Skips
  <2>5. CASE EndCall(t) /\ UNCHANGED <<driver, accepted>>
    BY <2>1, <2>5, OthersKept, KeepsAccepted
  <2>6. QED BY <1>3, <2>3, <2>4, <2>5 DEF SetOne
<1>4. CASE SetEnd(t)
  BY <1>4, OthersKept, KeepsAccepted DEF SetEnd, driverVars
<1>5. ASSUME NEW p \in unnoted[t], Note(t, p)
      PROVE  Accepted' /\ NothingInvented'
  <2>1. /\ unnoted' = [unnoted EXCEPT ![t] = unnoted[t] \ {p}]
        /\ UNCHANGED <<driver, accepted, active>>
    BY <1>5 DEF Note, driverVars
  <2>5. \A u \in Threads : \A x \in unnoted'[u] \ Unique :
          x \in unnoted[u] /\ todo'[u][x] = todo[u][x]
    BY <1>5, NoteFrame
  <2>6. Accepted'
    BY <2>1, <2>5 DEF Accepted
  <2>7. NothingInvented'
    <3>1. \A x \in Known : working'[x] = IF x = p THEN todo[t][p] ELSE working[x]
      BY <1>5 DEF Note, NoteIn, TypeOK, BufferType, Buffer
    <3>2. p \notin Unique => todo[t][p] \in accepted[p]
      BY DEF Accepted
    <3>3. QED BY <2>1, <3>1, <3>2 DEF NothingInvented
  <2>8. QED BY <2>6, <2>7
<1>6. CASE SetTable(t)
  <2>1. todo[t] \in Assignments
    BY DEF TypeOK, SetType
  <2>2. CASE DriverTakes(todo[t])
    BY <1>6, <2>1, <2>2, OthersKept, TakenAccepted DEF SetTable
  <2>3. CASE UNCHANGED <<driver, accepted>>
    BY <1>6, <2>3, OthersKept, KeepsAccepted DEF SetTable
  <2>4. QED BY <1>6, <2>2, <2>3 DEF SetTable
<1>7. CASE UNCHANGED <<cll, bufferVars, setVars>> /\ DriverTakes(driver.active)
  <2>1. driver.active \in [Params -> Values] /\ Params \in SUBSET Params
    BY DEF TypeOK, DriverType
  <2>2. driver.active \in Assignments
    BY <2>1 DEF Assignments
  <2>3. QED BY <1>7, <2>2, OthersKept, TakenAccepted
<1>8. CASE CopyTo(t)
  <2>1. UNCHANGED <<driver, accepted, setVars>>
    BY <1>8 DEF CopyTo, driverVars
  <2>2. Accepted'
    BY <2>1 DEF Accepted, setVars
  <2>3. NothingInvented'
    BY <1>8, <2>1 DEF CopyTo, NothingInvented
  <2>4. QED BY <2>2, <2>3
<1>9. CASE GetStatus(t) \/ Connect(t) \/ Disconnect(t)
  BY <1>9, <1>1, <1>2 DEF GetStatus, Connect, Disconnect, driverVars
<1>10. CASE StartPrimitive(t) \/ Upgrade(t)
  BY <1>10, <1>1, <1>2, <1>7 DEF StartPrimitive, Upgrade, driverVars
<1>11. CASE CopyFrom(t)
  BY <1>11, <1>1 DEF CopyFrom, driverVars
<1>12. QED BY <1>3, <1>4, <1>5, <1>6, <1>8, <1>9, <1>10, <1>11 DEF Step

LEMMA NextAccepted ==
  NothingInventedInv /\ [Next]_vars => NothingInventedInv'
<1> SUFFICES ASSUME NothingInventedInv, [Next]_vars PROVE NothingInventedInv'
  OBVIOUS
<1>1. TypeOK'
  BY NextTypes DEF NothingInventedInv
<1>2. CASE UNCHANGED <<driver, accepted, bufferVars, setVars>>
  <2>1. \A t \in Threads : \A p \in unnoted'[t] \ Unique :
          p \in unnoted[t] /\ todo'[t][p] = todo[t][p]
    BY <1>2 DEF setVars
  <2>2. QED BY <1>1, <1>2, <2>1, KeepsAccepted DEF NothingInventedInv
<1>3. ASSUME NEW t \in Threads, DropArc(t)
      PROVE  UNCHANGED <<driver, accepted, bufferVars, setVars>>
  BY <1>3 DEF DropArc, driverVars, threadVars
<1>4. CASE Destruct
  BY <1>2, <1>4 DEF Destruct, threadVars
<1>5. CASE UNCHANGED vars
  BY <1>2, <1>5 DEF vars, driverVars, threadVars
<1>6. QED BY <1>1, <1>2, <1>3, <1>4, <1>5, BeginAccepted, StepAccepted
     DEF Next, NothingInventedInv

(***************************************************************************)
(* BuffersAreHonest: whatever the threads do, in whatever order, a value a *)
(* buffer shows for a parameter set with set_com_params is one the driver  *)
(* has had for it.                                                         *)
(***************************************************************************)
THEOREM BuffersAreHonest == Spec => []NothingInvented
<1>1. Init => NothingInventedInv
  BY InitTypes, InitAccepted DEF NothingInventedInv
<1>2. NothingInventedInv /\ [Next]_vars => NothingInventedInv'
  BY NextAccepted
<1>3. NothingInventedInv => NothingInvented
  BY DEF NothingInventedInv
<1>4. QED BY <1>1, <1>2, <1>3, PTL DEF Spec

-----------------------------------------------------------------------------
(***************************************************************************)
(* The working buffer mirrors the driver's.  Who sets what: only a setter  *)
(* has parameters to set, a table holds only parameters of class UniqueId, *)
(* and only the calls of the instance are made.                            *)
(***************************************************************************)
CallsKnown ==
  \A t \in Threads : /\ DOMAIN todo[t] # {} => t \in Setters
                     /\ pc[t] = "table" => DOMAIN todo[t] \subseteq Unique
                     /\ pc[t] \notin {"set", "table"} => DOMAIN todo[t] = {}
                     /\ op[t] \in Calls \cup {"connect"}

\* A value the setter is about to note is the one the driver has.
Fresh ==
  \A t \in Threads : \A p \in unnoted[t] \ Unique : driver.working[p] = todo[t][p]

MirrorInv == TypeOK /\ CallsKnown /\ (OneWriter => Fresh /\ Mirrored)

LEMMA InitMirror == Init => CallsKnown /\ Fresh /\ Mirrored
<1> SUFFICES ASSUME Init PROVE CallsKnown /\ Fresh /\ Mirrored
  OBVIOUS
<1>1. CallsKnown
  BY NothingAssigned DEF Init, CallsKnown
<1>2. Fresh
  BY DEF Init, Fresh
<1>3. Mirrored
  BY LinkAssumption DEF Init, Mirrored
<1>4. QED BY <1>1, <1>2, <1>3

LEMMA NextCallsKnown ==
  ASSUME TypeOK, CallsKnown, [Next]_vars
  PROVE  CallsKnown'
<1>1. ASSUME NEW t \in Threads, NEW c \in Calls, NEW direct \in BOOLEAN, Begin(t, c, direct)
      PROVE  CallsKnown'
  <2>1. PICK new \in NewValues(c) : todo' = [todo EXCEPT ![t] = new]
    BY <1>1 DEF Begin
  <2>2. /\ op' = [op EXCEPT ![t] = Body(c, direct)]
        /\ pc' = [pc EXCEPT ![t] = FirstPc(Body(c, direct))]
        /\ c \in {"set", "table"} => t \in Setters
    BY <1>1 DEF Begin
  <2>3. Body(c, direct) \in Calls \cup {"connect"}
    BY DEF Body
  <2>4. c \notin {"set", "table"} => DOMAIN new = {}
    BY <2>1, NothingAssigned DEF NewValues
  <2>5. c = "table" => DOMAIN new \subseteq Unique
    <3>1. CASE c = "table"
      <4>1. new \in Targets(Unique) /\ Unique \in SUBSET Params
        BY <2>1, <3>1, LinkAssumption DEF NewValues
      <4>2. QED BY <4>1, TargetAssigned
    <3>2. QED BY <3>1
  <2>6. /\ FirstPc(Body(c, direct)) = "table" => c = "table"
        /\ FirstPc(Body(c, direct)) \notin {"set", "table"} => c \notin {"set", "table"}
    BY DEF FirstPc, Body
  <2>7. /\ todo \in [Threads -> Assignments]
        /\ pc \in [Threads -> Pcs]
        /\ op \in [Threads -> LinkCalls \cup PrimitiveCalls]
    BY DEF TypeOK, SetType, CallType
  <2>8. \A u \in Threads \ {t} : todo'[u] = todo[u] /\ pc'[u] = pc[u] /\ op'[u] = op[u]
    BY <2>1, <2>2, <2>7
  <2>9. /\ todo'[t] = new /\ op'[t] = Body(c, direct)
        /\ pc'[t] = FirstPc(Body(c, direct))
    BY <2>1, <2>2, <2>7
  <2>10. QED BY <2>2, <2>3, <2>4, <2>5, <2>6, <2>8, <2>9 DEF CallsKnown
<1>2. ASSUME UNCHANGED op,
             \A t \in Threads : /\ DOMAIN todo'[t] \subseteq DOMAIN todo[t]
                                /\ pc'[t] = "table" => pc[t] = "table"
                                /\ \/ pc'[t] \in {"set", "table"}
                                   \/ DOMAIN todo'[t] = {}
                                   \/ pc[t] \notin {"set", "table"}
      PROVE  CallsKnown'
  BY <1>2 DEF CallsKnown
<1>3. ASSUME NEW t \in Threads, EndCall(t), UNCHANGED op
      PROVE  CallsKnown'
  <2>1. \A u \in Threads : /\ DOMAIN todo'[u] \subseteq DOMAIN todo[u]
                           /\ pc'[u] = "table" => pc[u] = "table"
                           /\ \/ pc'[u] \in {"set", "table"}
                              \/ DOMAIN todo'[u] = {}
                              \/ pc[u] \notin {"set", "table"}
    BY <1>3, NothingAssigned DEF EndCall, TypeOK, SetType, CallType
  <2>2. QED BY <1>2, <1>3, <2>1
<1>4. ASSUME NEW t \in Threads, NEW where \in Pcs \ {"table"}, Goto(t, where),
             pc[t] \notin {"set", "table"}, UNCHANGED <<op, todo>>
      PROVE  CallsKnown'
  <2>1. \A u \in Threads : /\ pc'[u] = "table" => pc[u] = "table"
                           /\ \/ pc'[u] \in {"set", "table"}
                              \/ pc[u] \notin {"set", "table"}
    BY <1>4 DEF Goto, TypeOK, CallType
  <2>2. QED BY <1>2, <1>4, <2>1
<1>5. ASSUME NEW t \in Threads,
             GetStatus(t) \/ Connect(t) \/ Disconnect(t) \/ StartPrimitive(t)
               \/ Upgrade(t) \/ CopyFrom(t) \/ CopyTo(t)
      PROVE  CallsKnown'
  <2>1. UNCHANGED <<op, todo>>
    BY <1>5 DEF GetStatus, Connect, Disconnect, StartPrimitive, Upgrade, CopyFrom,
       CopyTo, callVars, setVars
  <2>2. /\ pc[t] \notin {"set", "table"}
        /\ \E where \in Pcs \ {"table"} : Goto(t, where)
    BY <1>5 DEF GetStatus, Connect, Disconnect, StartPrimitive, Upgrade, CopyFrom,
       CopyTo, After, Pcs
  <2>3. QED BY <1>4, <2>1, <2>2
<1>6. ASSUME NEW t \in Threads, NEW p \in DOMAIN todo[t], SetOne(t, p)
      PROVE  CallsKnown'
  <2>1. UNCHANGED op
    BY <1>6 DEF SetOne, callVars
  <2>2. CASE Skips(t, p)
    <3>1. DOMAIN Without(todo[t], p) = DOMAIN todo[t] \ {p}
      BY PartsAssigned DEF TypeOK, SetType
    <3>2. \A u \in Threads : DOMAIN todo'[u] \subseteq DOMAIN todo[u] /\ pc'[u] = pc[u]
      BY <2>2, <3>1 DEF Skips, TypeOK, SetType
    <3>3. pc[t] = "set"
      BY <1>6 DEF SetOne
    <3>4. QED BY <1>2, <2>1, <3>2, <3>3
  <2>3. CASE UNCHANGED <<todo, pc>>
    BY <1>2, <2>1, <2>3
  <2>4. QED BY <1>3, <1>6, <2>1, <2>2, <2>3 DEF SetOne, Takes
<1>7. ASSUME NEW t \in Threads, SetEnd(t) \/ SetTable(t)
      PROVE  CallsKnown'
  BY <1>3, <1>7 DEF SetEnd, SetTable, callVars
<1>8. ASSUME NEW t \in Threads, NEW p \in unnoted[t], Note(t, p)
      PROVE  CallsKnown'
  <2>1. todo[t] \in Assignments /\ p \in DOMAIN todo[t]
    BY DEF TypeOK, SetType
  <2>2. DOMAIN Without(todo[t], p) = DOMAIN todo[t] \ {p}
    BY <2>1, PartsAssigned
  <2>3. todo' = [todo EXCEPT ![t] = Without(todo[t], p)] \/ todo' = todo
    BY <1>8 DEF Note, TypeOK, SetType
  <2>4. \A u \in Threads : DOMAIN todo'[u] \subseteq DOMAIN todo[u]
    BY <2>2, <2>3 DEF TypeOK, SetType
  <2>5. UNCHANGED <<op, pc>>
    BY <1>8 DEF Note, callVars
  <2>6. QED BY <1>2, <2>4, <2>5
<1>9. CASE UNCHANGED threadVars
  BY <1>9 DEF CallsKnown, threadVars, callVars, setVars
<1>10. QED BY <1>1, <1>5, <1>6, <1>7, <1>8, <1>9 DEF Next, Step, DropArc, Destruct, vars

\* With one writer, a thread other than the one that sets has nothing to note.
LEMMA OnlyWriter ==
  ASSUME MirrorInv, OneWriter, NEW t \in Threads, DOMAIN todo[t] # {}
  PROVE  t \in Setters /\ \A u \in Threads \ {t} : unnoted[u] = {}
<1>1. \A u \in Threads : DOMAIN todo[u] # {} => u \in Setters
  BY DEF MirrorInv, CallsKnown
<1>2. \A u \in Threads \ {t} : DOMAIN todo[u] = {}
  BY <1>1 DEF OneWriter
<1>3. QED BY <1>1, <1>2 DEF MirrorInv, TypeOK, SetType

\* A step that touches neither working buffer nor what is still to be noted
\* of the parameters set with set_com_params.
LEMMA KeepsMirror ==
  ASSUME MirrorInv, OneWriter, UNCHANGED working,
         \A p \in Params \ Unique : driver'.working[p] = driver.working[p],
         \A t \in Threads : /\ unnoted'[t] \ Unique = unnoted[t] \ Unique
                            /\ \A p \in unnoted[t] \ Unique : todo'[t][p] = todo[t][p]
  PROVE  Fresh' /\ Mirrored'
<1>1. \A t \in Threads : unnoted[t] \subseteq Params
  BY DEF MirrorInv, TypeOK, SetType
<1>2. Fresh'
  BY <1>1 DEF MirrorInv, Fresh
<1>3. Setters \subseteq Threads /\ Known \subseteq Params
  BY LinkAssumption
<1>4. Mirrored'
  BY <1>3 DEF MirrorInv, Mirrored
<1>5. QED BY <1>2, <1>4

\* The end of a call with nothing left to note but entries of a table.
LEMMA EndKeeps ==
  ASSUME TypeOK, NEW t \in Threads, EndCall(t), unnoted[t] \subseteq Unique
  PROVE  \A u \in Threads : /\ unnoted'[u] \ Unique = unnoted[u] \ Unique
                            /\ \A p \in unnoted[u] \ Unique : todo'[u][p] = todo[u][p]
  BY DEF EndCall, TypeOK, SetType

LEMMA BeginMirror ==
  ASSUME MirrorInv, OneWriter, NEW t \in Threads, NEW c \in Calls,
         NEW direct \in BOOLEAN, Begin(t, c, direct)
  PROVE  Fresh' /\ Mirrored'
<1>1. PICK new \in NewValues(c) :
        /\ todo' = [todo EXCEPT ![t] = new]
        /\ \E S \in NotedFirst(c, direct, new) : unnoted' = [unnoted EXCEPT ![t] = S]
  BY DEF Begin
<1>2. PICK S \in NotedFirst(c, direct, new) : unnoted' = [unnoted EXCEPT ![t] = S]
  BY <1>1
<1>3. S \subseteq Unique
  <2>1. CASE c = "table"
    <3>1. new \in Targets(Unique) /\ Unique \in SUBSET Params
      BY <2>1, <1>1, LinkAssumption DEF NewValues
    <3>2. QED BY <3>1, <1>2, TargetAssigned DEF NotedFirst
  <2>2. CASE c # "table"
    BY <2>2, <1>2 DEF NotedFirst
  <2>3. QED BY <2>1, <2>2
<1>4. unnoted[t] = {}
  BY DEF Begin, MirrorInv, CallsKnown, TypeOK, SetType
<1>5. \A u \in Threads : /\ unnoted'[u] \ Unique = unnoted[u] \ Unique
                         /\ \A p \in unnoted[u] \ Unique : todo'[u][p] = todo[u][p]
  BY <1>1, <1>2, <1>3, <1>4 DEF MirrorInv, TypeOK, SetType
<1>6. UNCHANGED <<driver, working>>
  BY DEF Begin, driverVars, bufferVars
<1>7. QED BY <1>5, <1>6, KeepsMirror

\* The driver takes one parameter: the writer alone has it to note.
LEMMA TakesMirror ==
  ASSUME MirrorInv, OneWriter, NEW t \in Threads, NEW p \in DOMAIN todo[t],
         SetOne(t, p), Takes(t, p)
  PROVE  Fresh' /\ Mirrored'
<1> USE DEF MirrorInv
<1>1. ~Abandonable(t)
  BY DEF OneWriter, Abandonable, Blocks
<1>2. /\ DriverTakes(Only(todo[t], p))
      /\ unnoted' = [unnoted EXCEPT ![t] = {p}] /\ UNCHANGED todo
      /\ UNCHANGED <<cll, working>> /\ unnoted[t] = {}
  BY <1>1 DEF Takes, SetOne, bufferVars
<1>3. t \in Setters /\ \A u \in Threads : unnoted[u] = {}
  BY <1>2, OnlyWriter
<1>4. todo[t] \in Assignments
  BY DEF TypeOK, SetType
<1>5. /\ Only(todo[t], p) \in Assignments
      /\ DOMAIN Only(todo[t], p) = {p} /\ Only(todo[t], p)[p] = todo[t][p]
  BY <1>4, PartsAssigned
<1>6. /\ driver'.working[p] = todo[t][p]
      /\ \A x \in Params \ {p} : driver'.working[x] = driver.working[x]
  BY <1>2, <1>5, Taken DEF TypeOK
<1>7. \A u \in Threads : unnoted'[u] = IF u = t THEN {p} ELSE {}
  BY <1>2, <1>3 DEF TypeOK, SetType
<1>8. Fresh'
  BY <1>2, <1>6, <1>7 DEF Fresh
<1>9. Setters \subseteq Threads /\ Known \subseteq Params
  BY LinkAssumption
<1>10. \A x \in Known \ Unique : working[x] = driver.working[x]
  BY <1>3, <1>9 DEF Mirrored
<1>11. \A x \in Known \ Unique : working'[x] = driver'.working[x] \/ p = x
  BY <1>2, <1>6, <1>9, <1>10
<1>12. Mirrored'
  BY <1>3, <1>7, <1>11 DEF Mirrored
<1>13. QED BY <1>8, <1>12

LEMMA NoteMirror ==
  ASSUME MirrorInv, OneWriter, NEW t \in Threads, NEW p \in unnoted[t], Note(t, p)
  PROVE  Fresh' /\ Mirrored'
<1> USE DEF MirrorInv
<1>1. /\ p \in DOMAIN todo[t] /\ UNCHANGED driver
      /\ unnoted' = [unnoted EXCEPT ![t] = unnoted[t] \ {p}]
      /\ \A u \in Threads : \A x \in unnoted'[u] :
           x \in unnoted[u] /\ todo'[u][x] = todo[u][x]
  BY NoteFrame DEF Note, driverVars
<1>2. Fresh'
  BY <1>1 DEF Fresh
<1>3. \A x \in Known : working'[x] = IF x = p THEN todo[t][p] ELSE working[x]
  BY DEF Note, NoteIn, TypeOK, BufferType, Buffer
<1>4. p \notin Unique => driver.working[p] = todo[t][p]
  BY DEF Fresh
<1>5. \A u \in Threads : unnoted[u] \ {p} \subseteq unnoted'[u]
  BY <1>1 DEF TypeOK, SetType
<1>6. Setters \subseteq Threads
  BY LinkAssumption
<1>7. Mirrored'
  BY <1>1, <1>3, <1>4, <1>5, <1>6 DEF Mirrored
<1>8. QED BY <1>2, <1>7

LEMMA StepMirror ==
  ASSUME MirrorInv, OneWriter, NEW t \in Threads, Step(t)
  PROVE  Fresh' /\ Mirrored'
<1> USE DEF MirrorInv
<1>1. CASE /\ UNCHANGED <<working, setVars>>
           /\ \A p \in Params \ Unique : driver'.working[p] = driver.working[p]
  BY <1>1, KeepsMirror DEF setVars
<1>2. CASE GetStatus(t) \/ Disconnect(t) \/ Upgrade(t) \/ CopyFrom(t)
  BY <1>1, <1>2 DEF GetStatus, Disconnect, Upgrade, CopyFrom, driverVars, bufferVars
<1>3. op[t] # "restore"
  BY DEF CallsKnown, OneWriter
<1>4. CASE CopyTo(t)
  BY <1>1, <1>3, <1>4 DEF CopyTo, driverVars
<1>5. CASE Connect(t) \/ StartPrimitive(t)
  <2>1. UNCHANGED <<working, setVars>>
    BY <1>5 DEF Connect, StartPrimitive, bufferVars
  <2>2. CASE UNCHANGED driver
    BY <1>1, <2>1, <2>2
  <2>3. CASE driver' = [driver EXCEPT !.active = driver.working]
    BY <1>1, <2>1, <2>3 DEF TypeOK, DriverType
  <2>4. QED BY <1>3, <1>5, <2>2, <2>3 DEF Connect, StartPrimitive
<1>6. ASSUME NEW p \in DOMAIN todo[t], SetOne(t, p)
      PROVE  Fresh' /\ Mirrored'
  <2>1. UNCHANGED working /\ unnoted[t] = {}
    BY <1>6 DEF SetOne, bufferVars
  <2>2. CASE Takes(t, p)
    BY <1>6, <2>2, TakesMirror
  <2>3. CASE Skips(t, p)
    <3>1. \A u \in Threads : /\ unnoted'[u] \ Unique = unnoted[u] \ Unique
                             /\ \A x \in unnoted[u] \ Unique : todo'[u][x] = todo[u][x]
      BY <2>1, <2>3 DEF Skips, TypeOK, SetType
    <3>2. QED BY <2>1, <2>3, <3>1, KeepsMirror DEF Skips
  <2>4. CASE EndCall(t) /\ UNCHANGED <<driver, accepted>>
    BY <2>1, <2>4, EndKeeps, KeepsMirror
  <2>5. QED BY <1>6, <2>2, <2>3, <2>4 DEF SetOne
<1>7. CASE SetEnd(t)
  <2>1. UNCHANGED <<driver, working>> /\ EndCall(t) /\ DOMAIN todo[t] = {}
    BY <1>7, NothingAssigned DEF SetEnd, driverVars, bufferVars
  <2>2. unnoted[t] \subseteq Unique
    BY <2>1 DEF TypeOK, SetType
  <2>3. QED BY <2>1, <2>2, EndKeeps, KeepsMirror
<1>8. ASSUME NEW p \in unnoted[t], Note(t, p)
      PROVE  Fresh' /\ Mirrored'
  BY <1>8, NoteMirror
<1>9. CASE SetTable(t)
  <2>1. UNCHANGED <<cll, working>> /\ EndCall(t) /\ pc[t] = "table"
    BY <1>9 DEF SetTable, bufferVars
  <2>2. DOMAIN todo[t] \subseteq Unique /\ unnoted[t] \subseteq Unique
    BY <2>1 DEF CallsKnown, TypeOK, SetType
  <2>3. \A p \in Params \ Unique : driver'.working[p] = driver.working[p]
    <3>1. todo[t] \in Assignments
      BY DEF TypeOK, SetType
    <3>2. CASE DriverTakes(todo[t])
      BY <2>1, <2>2, <3>1, <3>2, Taken DEF TypeOK
    <3>3. CASE UNCHANGED driver
      BY <3>3
    <3>4. QED BY <1>9, <3>2, <3>3 DEF SetTable
  <2>4. QED BY <2>1, <2>2, <2>3, EndKeeps, KeepsMirror
<1>10. QED BY <1>2, <1>4, <1>5, <1>6, <1>7, <1>8, <1>9 DEF Step

LEMMA NextMirror == MirrorInv /\ [Next]_vars => MirrorInv'
<1> SUFFICES ASSUME MirrorInv, [Next]_vars PROVE MirrorInv'
  OBVIOUS
<1>1. TypeOK' /\ CallsKnown'
  BY NextTypes, NextCallsKnown DEF MirrorInv
<1>2. ASSUME OneWriter' PROVE Fresh' /\ Mirrored'
  <2>1. UNCHANGED worker
    BY DEF Next, Step, Begin, GetStatus, Connect, Disconnect, SetOne, SetEnd, Note,
       SetTable, StartPrimitive, Upgrade, CopyFrom, CopyTo, DropArc, Destruct,
       vars, arcVars
  <2>2. OneWriter
    BY <1>2, <2>1 DEF OneWriter
  <2>3. CASE UNCHANGED <<driver, working, setVars>>
    BY <2>2, <2>3, KeepsMirror DEF setVars
  <2>4. ASSUME NEW t \in Threads, DropArc(t)
        PROVE  UNCHANGED <<driver, working, setVars>>
    BY <2>4 DEF DropArc, driverVars, bufferVars, threadVars
  <2>5. Destruct \/ UNCHANGED vars => UNCHANGED <<driver, working, setVars>>
    BY DEF Destruct, vars, driverVars, bufferVars, threadVars
  <2>6. QED BY <2>2, <2>3, <2>4, <2>5, BeginMirror, StepMirror DEF Next
<1>3. QED BY <1>1, <1>2 DEF MirrorInv

(***************************************************************************)
(* BufferMirrorsDriver: with one writer, the working buffer shows what the *)
(* driver's does, but for the value just set, however connects, updates,   *)
(* refused calls and drops interleave with it.                             *)
(***************************************************************************)
THEOREM BufferMirrorsDriver == Spec => []WorkingMirrors
<1>1. Init => MirrorInv
  BY InitTypes, InitMirror DEF MirrorInv
<1>2. MirrorInv /\ [Next]_vars => MirrorInv'
  BY NextMirror
<1>3. MirrorInv => WorkingMirrors
  BY DEF MirrorInv, WorkingMirrors
<1>4. QED BY <1>1, <1>2, <1>3, PTL DEF Spec

-----------------------------------------------------------------------------
(***************************************************************************)
(* DestroyedUnused.  Who is inside a call of the link holds an Arc of it,  *)
(* its own or one upgraded; a destroyed link has none left, and none can   *)
(* be upgraded again.                                                      *)
(***************************************************************************)
Inside(t) ==
  /\ pc[t] \in {"status", "call", "set", "table"} => t \in holders
  /\ pc[t] \in {"copy_from", "copy_to"} => t \in holders \cup upgraded

UseInv ==
  /\ cll = "destroyed" => ~Alive
  /\ \A t \in Threads : Inside(t)

LEMMA InitUse == Init => UseInv
BY DEF Init, UseInv, Inside, Alive

\* A thread that goes nowhere new keeps its Arc.
LEMMA OthersInside ==
  ASSUME NEW u \in Threads, Inside(u), pc'[u] = pc[u],
         u \in holders => u \in holders', u \in upgraded => u \in upgraded'
  PROVE  Inside(u)'
BY DEF Inside

LEMMA BeginUse ==
  ASSUME TypeOK, UseInv, NEW t \in Threads, NEW c \in Calls, NEW direct \in BOOLEAN,
         Begin(t, c, direct)
  PROVE  UseInv'
<1>1. /\ pc \in [Threads -> Pcs] /\ UNCHANGED <<cll, holders, upgraded>>
      /\ pc' = [pc EXCEPT ![t] = FirstPc(Body(c, direct))]
      /\ c \in LinkCalls => t \in holders
  BY DEF TypeOK, CallType, Begin, driverVars, arcVars
<1>2. c \notin LinkCalls => FirstPc(Body(c, direct)) = "start"
  BY DEF Body, FirstPc, LinkCalls
<1>3. FirstPc(Body(c, direct)) \notin {"copy_from", "copy_to"}
  BY DEF FirstPc
<1>4. \A u \in Threads : Inside(u)'
  BY <1>1, <1>2, <1>3 DEF UseInv, Inside
<1> QED
  BY <1>1, <1>4 DEF UseInv, Alive

LEMMA StepUse ==
  ASSUME TypeOK, UseInv, NEW t \in Threads, Step(t)
  PROVE  UseInv'
<1>1. /\ pc \in [Threads -> Pcs] /\ UNCHANGED holders
      /\ Inside(t) /\ \A u \in Threads : Inside(u)
  BY DEF TypeOK, CallType, UseInv, Step, GetStatus, Connect, Disconnect, SetOne,
     SetEnd, Note, SetTable, StartPrimitive, Upgrade, CopyFrom, CopyTo, arcVars
<1>2. \A u \in Threads \ {t} :
        /\ pc'[u] = pc[u]
        /\ u \in upgraded => u \in upgraded'
  BY <1>1 DEF Step, GetStatus, Connect, Disconnect, SetOne, Takes, Skips, SetEnd, Note,
     SetTable, StartPrimitive, Upgrade, TakeArc, CopyFrom, CopyTo, arcVars, callVars,
     EndCall, Goto
<1>3. Inside(t)'
  <2>1. CASE GetStatus(t) \/ Connect(t) \/ Disconnect(t)
    <3>1. t \in holders
      BY <1>1, <2>1 DEF Inside, GetStatus, Connect, Disconnect
    <3>2. pc'[t] \notin {"copy_from", "copy_to"} \/ t \in holders'
      BY <1>1, <3>1
    <3> QED
      BY <1>1, <3>1 DEF Inside
  <2>2. CASE (\E p \in DOMAIN todo[t] : SetOne(t, p)) \/ SetEnd(t)
    <3>1. pc[t] = "set" /\ pc'[t] \in {"set", "idle"}
      BY <1>1, <2>2 DEF SetOne, Takes, Skips, SetEnd, EndCall
    <3> QED
      BY <1>1, <3>1 DEF Inside
  <2>3. CASE (\E p \in unnoted[t] : Note(t, p)) \/ SetTable(t)
    <3>1. UNCHANGED <<pc, upgraded>> \/ pc'[t] = "idle"
      BY <1>1, <2>3 DEF Note, SetTable, EndCall, arcVars
    <3> QED
      BY <1>1, <3>1 DEF Inside
  <2>4. CASE StartPrimitive(t) \/ Upgrade(t)
    <3>1. \/ pc'[t] \in {"upgrade", "idle"}
          \/ pc'[t] = "copy_from" /\ t \in upgraded'
      BY <1>1, <2>4 DEF StartPrimitive, Upgrade, TakeArc, Goto, After
    <3> QED
      BY <3>1 DEF Inside
  <2>5. CASE CopyFrom(t)
    <3>1. pc[t] = "copy_from" /\ UNCHANGED upgraded /\ pc'[t] = "copy_to"
      BY <1>1, <2>5 DEF CopyFrom, Goto, arcVars
    <3> QED
      BY <1>1, <3>1 DEF Inside
  <2>6. CASE CopyTo(t)
    <3>1. pc'[t] = "idle"
      BY <1>1, <2>6 DEF CopyTo, Goto
    <3> QED
      BY <3>1 DEF Inside
  <2> QED
    BY <2>1, <2>2, <2>3, <2>4, <2>5, <2>6 DEF Step
<1>4. cll' = "destroyed" => ~Alive'
  <2>1. UNCHANGED cll \/ cll' \in {"online", "offline"}
    BY DEF Step, GetStatus, Connect, Disconnect, SetOne, SetEnd, Note, SetTable,
       StartPrimitive, Upgrade, CopyFrom, CopyTo, driverVars
  <2>2. ~Alive => ~Alive'
    BY <1>1 DEF Alive, Step, GetStatus, Connect, Disconnect, SetOne, SetEnd, Note,
       SetTable, StartPrimitive, Upgrade, CopyFrom, CopyTo, arcVars
  <2> QED
    BY <2>1, <2>2 DEF UseInv
<1> QED
  BY <1>1, <1>2, <1>3, <1>4, OthersInside DEF UseInv

LEMMA NextUse == TypeOK /\ UseInv /\ [Next]_vars => UseInv'
<1> SUFFICES ASSUME TypeOK, UseInv, [Next]_vars PROVE UseInv'
  OBVIOUS
<1>1. ASSUME NEW t \in Threads, DropArc(t)
      PROVE  UseInv'
  BY <1>1 DEF DropArc, UseInv, Inside, Alive, driverVars, threadVars
<1>2. CASE Destruct
  BY <1>2 DEF Destruct, UseInv, Inside, Alive, arcVars, threadVars
<1>3. CASE UNCHANGED vars
  BY <1>3 DEF vars, UseInv, Inside, Alive, driverVars, arcVars, threadVars
<1> QED
  BY <1>1, <1>2, <1>3, BeginUse, StepUse DEF Next

(***************************************************************************)
(* DestroyedAlone: the destructor of the last Arc meets no call of the     *)
(* link, and no copy of its buffers, whoever drops, calls and starts       *)
(* primitives meanwhile.                                                   *)
(***************************************************************************)
THEOREM DestroyedAlone == Spec => []DestroyedUnused
<1>1. TypeOK /\ UseInv => DestroyedUnused
  BY DEF TypeOK, CallType, Pcs, UseInv, Inside, Alive, DestroyedUnused
<1>2. QED BY <1>1, InitUse, NextUse, TypeCorrect, PTL DEF Spec

-----------------------------------------------------------------------------
(***************************************************************************)
(* What CallsReturn promises, but for the time it takes.  sync, the mutex  *)
(* of working_buffer and that of active_buffer are taken in this order by  *)
(* every call but a start of a RestoreParam primitive, and whoever holds   *)
(* one is in a call; so that while one is held and nobody restores, a      *)
(* holder of one waits for nobody.                                         *)
(***************************************************************************)
Locks == Mutexes \cup {"sync"}

Holds(t, m) == IF m = "sync" THEN sync = t ELSE mutex[m] = t

\* The locks the next step of a thread needs.
Wants(t) ==
  CASE pc[t] \in {"status", "call"} -> IF Blocks(t) THEN {"sync"} ELSE {}
    [] pc[t] \in {"set", "table"}   -> IF unnoted[t] # {} THEN {"working"} ELSE {}
    [] pc[t] = "copy_from"          -> {From(t)}
    [] pc[t] = "copy_to"            -> {To(t)}
    [] OTHER                        -> {}

Rank(m) == CASE m = "sync" -> 1 [] m = "working" -> 2 [] m = "active" -> 3

LocksInOrder ==
  \A t \in Threads : op[t] # "restore" =>
    \A m \in Locks : Holds(t, m) => \A n \in Wants(t) : Rank(m) < Rank(n)

Goes(t) == pc[t] # "idle" /\ \A m \in Wants(t) : \A s \in Threads : ~Holds(s, m)

HolderGoesOn ==
  "restore" \notin Calls =>
    \A t \in Threads, m \in Locks : Holds(t, m) =>
      \E s \in Threads : Goes(s) /\ \E n \in Locks : Holds(s, n)

GuardsHeld ==
  \A t \in Threads, m \in Mutexes : mutex[m] = t => pc[t] = "copy_to" /\ m = From(t)

SyncKept ==
  \A t \in Threads : sync = t => pc[t] \in {"copy_from", "copy_to"} /\ op[t] = "connect"

OpsCalled == \A t \in Threads : op[t] \in Calls \cup {"connect"}

LockInv == GuardsHeld /\ SyncKept /\ OpsCalled

LEMMA InitLocks == Init => LockInv
BY LinkAssumption DEF Init, LockInv, GuardsHeld, SyncKept, OpsCalled

LEMMA BeginLocks ==
  ASSUME TypeOK, LockInv, NEW t \in Threads, NEW c \in Calls, NEW direct \in BOOLEAN,
         Begin(t, c, direct)
  PROVE  LockInv'
<1>1. /\ pc \in [Threads -> Pcs] /\ op \in [Threads -> LinkCalls \cup PrimitiveCalls]
      /\ pc[t] = "idle" /\ UNCHANGED <<mutex, sync>>
      /\ op' = [op EXCEPT ![t] = Body(c, direct)]
      /\ pc' = [pc EXCEPT ![t] = FirstPc(Body(c, direct))]
  BY DEF TypeOK, CallType, Begin
<1>2. Body(c, direct) \in {c, "connect"}
  BY DEF Body
<1>3. \A m \in Mutexes : mutex[m] # t /\ sync # t
  BY <1>1 DEF LockInv, GuardsHeld, SyncKept
<1>4. GuardsHeld' /\ SyncKept'
  BY <1>1, <1>3 DEF LockInv, GuardsHeld, SyncKept, From, Mutexes
<1> QED
  BY <1>1, <1>2, <1>4 DEF LockInv, OpsCalled

LEMMA StepLocks ==
  ASSUME TypeOK, LockInv, NEW t \in Threads, Step(t)
  PROVE  LockInv'
<1>1. /\ pc \in [Threads -> Pcs] /\ mutex \in [Mutexes -> Threads \cup {Nobody}]
      /\ GuardsHeld /\ SyncKept /\ OpsCalled /\ Nobody \notin Threads
      /\ From(t) \in Mutexes
  BY LinkAssumption DEF TypeOK, CallType, LockType, LockInv, From, Mutexes
<1>2. /\ UNCHANGED <<op, blocking, worker>>
      /\ \A u \in Threads \ {t} : pc'[u] = pc[u]
  BY <1>1 DEF Step, GetStatus, Connect, Disconnect, SetOne, Takes, Skips, SetEnd, Note,
     SetTable, StartPrimitive, Upgrade, CopyFrom, CopyTo, callVars, arcVars, EndCall,
     Goto
<1>3. OpsCalled' /\ \A u : From(u)' = From(u)
  BY <1>1, <1>2 DEF OpsCalled, From
<1>4. CASE CopyFrom(t)
  <2>1. /\ mutex' = [mutex EXCEPT ![From(t)] = t] /\ UNCHANGED sync
        /\ pc[t] = "copy_from" /\ pc'[t] = "copy_to"
    BY <1>1, <1>4 DEF CopyFrom, Goto
  <2>2. GuardsHeld'
    <3> SUFFICES ASSUME NEW u \in Threads, NEW m \in Mutexes, mutex'[m] = u
                 PROVE  pc'[u] = "copy_to" /\ m = From(u)
      BY <1>3 DEF GuardsHeld
    <3>1. CASE m = From(t)
      BY <1>1, <2>1, <3>1
    <3>2. CASE m # From(t)
      <4>1. mutex[m] = u
        BY <1>1, <2>1, <3>2
      <4>2. u # t
        BY <1>1, <2>1, <4>1 DEF GuardsHeld
      <4> QED
        BY <1>1, <1>2, <4>1, <4>2 DEF GuardsHeld
    <3> QED
      BY <3>1, <3>2
  <2>3. SyncKept'
    BY <1>1, <1>2, <2>1 DEF SyncKept
  <2> QED
    BY <1>3, <2>2, <2>3 DEF LockInv
<1>5. CASE CopyTo(t)
  <2>1. /\ mutex' = [mutex EXCEPT ![From(t)] = Nobody]
        /\ sync' \in {sync, Nobody} /\ sync' # t
    BY <1>1, <1>5 DEF CopyTo, ReleaseGuards
  <2>2. \A m \in Mutexes : mutex'[m] \in Threads => mutex'[m] = mutex[m] /\ mutex[m] # t
    BY <1>1, <2>1 DEF GuardsHeld
  <2>3. GuardsHeld'
    BY <1>1, <1>2, <1>3, <2>2 DEF GuardsHeld
  <2>4. SyncKept'
    BY <1>1, <1>2, <2>1 DEF SyncKept
  <2> QED
    BY <1>3, <2>3, <2>4 DEF LockInv
<1>6. CASE Connect(t)
  <2>1. /\ UNCHANGED mutex /\ pc[t] = "call" /\ op[t] = "connect"
        /\ \/ UNCHANGED sync
           \/ sync' = t /\ pc'[t] = "copy_from"
    <3>1. UNCHANGED sync \/ (sync' = t /\ Blocks(t) /\ \E w \in After(t, "copy_from") : Goto(t, w))
      BY <1>6 DEF Connect
    <3>2. Blocks(t) => After(t, "copy_from") = {"copy_from"}
      BY DEF After, Abandonable
    <3>3. \A w : Goto(t, w) => pc'[t] = w
      BY <1>1 DEF Goto
    <3> QED
      BY <1>6, <3>1, <3>2, <3>3 DEF Connect
  <2>2. sync # t /\ \A m \in Mutexes : mutex[m] # t
    BY <1>1, <2>1 DEF GuardsHeld, SyncKept
  <2>3. GuardsHeld'
    BY <1>1, <1>2, <1>3, <2>1, <2>2 DEF GuardsHeld
  <2>4. SyncKept'
    BY <1>1, <1>2, <2>1, <2>2 DEF SyncKept
  <2> QED
    BY <1>3, <2>3, <2>4 DEF LockInv
<1>7. CASE \/ GetStatus(t) \/ Disconnect(t)
           \/ \E p \in DOMAIN todo[t] : SetOne(t, p)
           \/ SetEnd(t) \/ SetTable(t) \/ StartPrimitive(t) \/ Upgrade(t)
  <2>1. /\ UNCHANGED <<mutex, sync>>
        /\ pc[t] \in {"status", "call", "set", "table", "start", "upgrade"}
    BY <1>7 DEF GetStatus, Disconnect, SetOne, SetEnd, SetTable, StartPrimitive, Upgrade
  <2>2. sync # t /\ \A m \in Mutexes : mutex[m] # t
    BY <1>1, <2>1 DEF GuardsHeld, SyncKept
  <2>3. GuardsHeld' /\ SyncKept'
    BY <1>1, <1>2, <1>3, <2>1, <2>2 DEF GuardsHeld, SyncKept
  <2> QED
    BY <1>3, <2>3 DEF LockInv
<1>8. CASE \E p \in unnoted[t] : Note(t, p)
  <2>1. UNCHANGED <<mutex, sync, pc>>
    BY <1>8 DEF Note
  <2> QED
    BY <1>1, <1>2, <1>3, <2>1 DEF LockInv, GuardsHeld, SyncKept
<1> QED
  BY <1>4, <1>5, <1>6, <1>7, <1>8 DEF Step

LEMMA NextLocks == TypeOK /\ LockInv /\ [Next]_vars => LockInv'
<1> SUFFICES ASSUME TypeOK, LockInv, [Next]_vars PROVE LockInv'
  OBVIOUS
<1>1. (\E t \in Threads : DropArc(t)) \/ Destruct \/ UNCHANGED vars =>
        UNCHANGED <<mutex, sync, pc, op>>
  BY DEF DropArc, Destruct, vars, threadVars, callVars
<1>2. UNCHANGED <<mutex, sync, pc, op>> => LockInv'
  BY DEF LockInv, GuardsHeld, SyncKept, OpsCalled, From
<1> QED
  BY <1>1, <1>2, BeginLocks, StepLocks DEF Next

\* Who holds a buffer's mutex is reading that buffer and wants the other.
LEMMA WhatHoldersWant ==
  ASSUME LockInv, NEW t \in Threads, NEW m \in Locks, Holds(t, m), op[t] # "restore"
  PROVE  \/ m = "working" /\ pc[t] = "copy_to" /\ Wants(t) = {"active"}
         \/ m = "sync" /\ pc[t] = "copy_to" /\ Wants(t) = {"active"}
         \/ m = "sync" /\ pc[t] = "copy_from" /\ Wants(t) = {"working"}
<1>1. From(t) = "working" /\ To(t) = "active"
  BY DEF From, To
<1>2. pc[t] = "copy_to" => Wants(t) = {"active"}
  BY <1>1 DEF Wants
<1>3. pc[t] = "copy_from" => Wants(t) = {"working"}
  BY <1>1 DEF Wants
<1>4. CASE m = "sync"
  BY <1>2, <1>3, <1>4 DEF Holds, LockInv, SyncKept
<1>5. CASE m # "sync"
  <2>1. m \in Mutexes /\ mutex[m] = t
    BY <1>5 DEF Locks, Holds
  <2>2. pc[t] = "copy_to" /\ m = "working"
    BY <1>1, <2>1 DEF LockInv, GuardsHeld
  <2> QED
    BY <1>2, <2>2
<1> QED
  BY <1>4, <1>5

\* on_start_primitive(), connect() and the blocking calls together: every
\* thread but one that restores takes sync, working_buffer's mutex and
\* active_buffer's in this order.
THEOREM LocksAreOrdered == Spec => []LocksInOrder
<1>1. LockInv => LocksInOrder
  BY WhatHoldersWant DEF LocksInOrder, Rank
<1> QED
  BY <1>1, InitLocks, NextLocks, TypeCorrect, PTL DEF Spec

\* The same calls: where no RestoreParam primitive is started, the threads of a
\* link cannot come to wait for one another.  That a thread which can go on
\* does is liveness.
THEOREM SomebodyGoesOn == Spec => []HolderGoesOn
<1>1. LockInv => HolderGoesOn
  <2> SUFFICES ASSUME LockInv, "restore" \notin Calls,
                      NEW t \in Threads, NEW m \in Locks, Holds(t, m)
               PROVE  \E s \in Threads : Goes(s) /\ \E n \in Locks : Holds(s, n)
    BY DEF HolderGoesOn
  <2>1. \A s \in Threads : op[s] # "restore"
    BY DEF LockInv, OpsCalled
  <2>2. ASSUME NEW s \in Threads, Holds(s, "active") PROVE FALSE
    <3>1. mutex["active"] = s /\ From(s) = "working"
      BY <2>1, <2>2 DEF Holds, From
    <3> QED
      BY <3>1 DEF LockInv, GuardsHeld, Mutexes
  <2>3. ASSUME NEW s \in Threads, NEW n \in Locks, Holds(s, n), pc[s] = "copy_to"
        PROVE  Goes(s)
    BY <2>1, <2>2, <2>3, WhatHoldersWant DEF Goes
  <2>4. CASE pc[t] = "copy_to"
    BY <2>3, <2>4
  <2>5. CASE pc[t] # "copy_to"
    <3>1. Wants(t) = {"working"} /\ pc[t] = "copy_from"
      BY <2>1, <2>5, WhatHoldersWant
    <3>2. CASE \E s \in Threads : Holds(s, "working")
      <4>1. PICK s \in Threads : Holds(s, "working")
        BY <3>2
      <4>2. "working" \in Locks
        BY DEF Locks, Mutexes
      <4>3. pc[s] = "copy_to"
        BY <2>1, <4>1, <4>2, WhatHoldersWant
      <4> QED
        BY <2>3, <4>1, <4>2, <4>3
    <3>3. CASE ~ \E s \in Threads : Holds(s, "working")
      BY <3>1, <3>3 DEF Goes
    <3> QED
      BY <3>2, <3>3
  <2> QED
    BY <2>4, <2>5
<1> QED
  BY <1>1, InitLocks, NextLocks, TypeCorrect, PTL DEF Spec

\* on_start_primitive() without RestoreParam primitives: no two threads hold
\* each the mutex the other waits for.
THEOREM CopiesEndUnlessRestored ==
  ASSUME "restore" \notin Calls
  PROVE  Spec => []CopiesEnd
<1>1. LockInv => CopiesEnd
  <2> SUFFICES ASSUME LockInv, NEW s \in Threads, NEW t \in Threads,
                      WaitsFor(s, t), WaitsFor(t, s)
               PROVE  FALSE
    BY DEF CopiesEnd
  <2>1. op[s] # "restore" /\ op[t] # "restore"
    BY DEF LockInv, OpsCalled
  <2>2. mutex["active"] = t /\ From(t) = "working"
    BY <2>1 DEF WaitsFor, To, From
  <2> QED
    BY <2>2 DEF LockInv, GuardsHeld, Mutexes
<1> QED
  BY <1>1, InitLocks, NextLocks, TypeCorrect, PTL DEF Spec

=============================================================================
