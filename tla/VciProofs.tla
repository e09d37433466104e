----------------------------- MODULE VciProofs -----------------------------
(***************************************************************************)
(* Theorems about Vci, for all sets of objects and tasks, with and without *)
(* a worker and for the two together: its types, that a module handle      *)
(* leads to the PduVci in use, that no link of the driver is lost but      *)
(* those the worker is left alone with and those the driver refuses to     *)
(* destroy, that a destructor the worker has in its queue spares what it   *)
(* has connected for a later PduVci, and that what is dropped is released, *)
(* is about to be, or is left by a call that failed.                       *)
(***************************************************************************)
EXTENDS Vci, SequenceTheorems, TLAPS

-----------------------------------------------------------------------------
(***************************************************************************)
(* Types.                                                                  *)
(***************************************************************************)
TaskKinds == {"ids", "status", "connect", "disconnect", "create", "register",
              "destroy"}
Replies == {"none", "ok", "error", "available", "connected", "neither"}
TaskState == [step : Steps, vci : Vcis \cup {NoVci}, link : Links \cup {NoLink},
              queued : BOOLEAN, orphan : BOOLEAN, reply : Replies]

\* Each part of the state a step may disturb.
CallsType == calls \in Seq(Call)
TaskType == /\ task \in [Tasks -> TaskState]
            /\ \A t \in Tasks : task[t].step = "idle" => task[t] = Idle
ObjectsType ==
  /\ vci \in [Vcis -> {"none", "alive", "dropped"}]
  /\ entry \in Vcis \cup {NoVci}
  /\ object \in [Links -> {"none", "alive", "dropped"}]
  /\ served \subseteq Vcis \cup Links
  /\ list_panicked \in BOOLEAN
DriverType ==
  /\ module \in ModuleStatus
  /\ link \in [Links -> {"none", "asked", "refused", "open", "gone"}]
  /\ fails \in 0 .. MaxFails
RestType ==
  /\ begun \in [Tasks -> 0 .. MaxCalls]
  /\ connector \in Vcis \cup {NoVci} /\ direct \in BOOLEAN
  /\ forsaken \subseteq Links /\ unreleased \subseteq Vcis \cup Links

LEMMA TypeParts ==
  /\ TypeOK <=> CallsType /\ TaskType /\ ObjectsType /\ DriverType /\ RestType
  /\ TypeOK' <=> CallsType' /\ TaskType' /\ ObjectsType' /\ DriverType' /\ RestType'
BY DEF TypeOK, CallsType, TaskType, ObjectsType, DriverType, RestType, TaskState,
   Replies

LEMMA IdleState == Idle \in TaskState
BY DEF Idle, TaskState, Steps, Replies

LEMMA InitType == Init => TypeOK
<1> SUFFICES ASSUME Init PROVE TypeOK
  OBVIOUS
<1>1. CallsType
  BY DEF Init, CallsType
<1>2. TaskType
  BY IdleState DEF Init, TaskType
<1>3. ObjectsType
  BY DEF Init, ObjectsType
<1>4. DriverType /\ RestType
  <2>1. 0 \in 0 .. MaxFails /\ 0 \in 0 .. MaxCalls
    BY VciAssumption
  <2> QED
    BY <2>1 DEF Init, DriverType, RestType, ModuleStatus
<1> QED
  BY <1>1, <1>2, <1>3, <1>4, TypeParts

\* A call is put at the end of the queue.
LEMMA PutType ==
  ASSUME CallsType, NEW c \in Call, calls' = Append(calls, c)
  PROVE  CallsType'
BY DEF CallsType

\* The calls a task or a destructor asks for.
LEMMA CallsOfTasks ==
  /\ \A k \in TaskKinds, v \in Vcis \cup {NoVci}, l \in Links \cup {NoLink},
        t \in Tasks \cup {NoTask}, q \in BOOLEAN :
       (k = "destroy" => l # NoLink) =>
         [kind |-> k, vci |-> v, link |-> l, by |-> t, queued |-> q] \in Call
  /\ \A v \in Vcis, q \in BOOLEAN : Destructor(v, q) \in Call
  /\ \A l \in Links, q \in BOOLEAN : Destroy(l, q) \in Call
BY VciAssumption DEF Call, Kinds, TaskKinds, Destructor, Destroy

LEMMA ServedOrNot == \A x : \E q \in BOOLEAN : q = (x \in served)
<1>1. \A x : (x \in served) \in BOOLEAN
  OBVIOUS
<1> QED
  BY <1>1

LEMMA CallsOfDrops ==
  /\ \A v \in Vcis : Destructor(v, v \in served) \in Call
  /\ \A v, l : l \in Links => Destroy(l, v \in served) \in Call
<1>1. \A x : (x \in served) \in BOOLEAN
  OBVIOUS
<1> QED
  BY <1>1, CallsOfTasks

\* A task asks, begins and finishes.
LEMMA AskType ==
  ASSUME TaskType, CallsType, NEW t \in Tasks, NEW s \in Steps \ {"idle"},
         NEW k \in TaskKinds, Ask(t, s, k),
         k = "destroy" => task[t].link # NoLink
  PROVE  TaskType' /\ CallsType'
<1>1. task[t] \in TaskState
  BY DEF TaskType
<1>2. [kind |-> k, vci |-> task[t].vci, link |-> task[t].link, by |-> t,
       queued |-> task[t].queued] \in Call
  BY <1>1, CallsOfTasks DEF TaskState
<1>3. CallsType'
  BY <1>2, PutType DEF Ask
<1>4. task' = [task EXCEPT ![t] = [task[t] EXCEPT !.step = s, !.reply = "none"]]
  BY <1>1 DEF Ask, TaskType
<1>5. /\ [task[t] EXCEPT !.step = s, !.reply = "none"] \in TaskState
      /\ [task[t] EXCEPT !.step = s, !.reply = "none"].step # "idle"
  BY <1>1 DEF TaskState, Replies
<1>6. TaskType'
  BY <1>4, <1>5 DEF TaskType
<1> QED
  BY <1>3, <1>6

LEMMA FinishType ==
  ASSUME TaskType, NEW t \in Tasks, Finish(t)
  PROVE  TaskType'
BY IdleState DEF TaskType, Finish

LEMMA BeginType ==
  ASSUME TypeOK, NEW t \in Tasks, NEW q \in BOOLEAN, NEW s \in Steps \ {"idle"},
         NEW v \in Vcis \cup {NoVci}, NEW l \in Links \cup {NoLink},
         NEW k \in TaskKinds \ {"destroy"}, Begin(t, q, s, v, l, k),
         \/ UNCHANGED link
         \/ link' = [link EXCEPT ![l] = "asked"]
  PROVE  TypeOK'
<1>1. CallsType'
  BY TypeParts, CallsOfTasks, PutType DEF Begin
<1>2. TaskType'
  <2>1. PICK r : r = [Idle EXCEPT !.step = s, !.vci = v, !.link = l, !.queued = q]
    OBVIOUS
  <2>2. r \in TaskState /\ r.step # "idle"
    BY <2>1 DEF Idle, TaskState, Replies
  <2> QED
    BY <2>1, <2>2, TypeParts DEF TaskType, Begin
<1>3. begun' \in [Tasks -> 0 .. MaxCalls]
  <2>1. begun[t] \in 0 .. MaxCalls /\ begun[t] < MaxCalls /\ MaxCalls \in Nat
    BY VciAssumption, TypeParts DEF Begin, RestType
  <2>2. begun[t] + 1 \in 0 .. MaxCalls
    BY <2>1
  <2> QED
    BY <2>2, TypeParts DEF Begin, RestType
<1>4. ObjectsType' /\ DriverType' /\ RestType'
  BY <1>3, TypeParts DEF Begin, ObjectsType, DriverType, RestType, objects, history
<1> QED
  BY <1>1, <1>2, <1>4, TypeParts

LEMMA AbandonType ==
  ASSUME TypeOK, NEW t \in Tasks, Abandon(t)
  PROVE  TypeOK'
<1>1. CASE task[t].queued
  <2>1. calls' \in Seq(Call)
    <3>1. \A c \in Call : [c EXCEPT !.by = NoTask] \in Call
      BY DEF Call
    <3>2. \A i \in DOMAIN calls : calls[i] \in Call
      BY TypeParts DEF CallsType
    <3>3. PICK n \in Nat : DOMAIN calls = 1 .. n
      BY TypeParts DEF CallsType
    <3>4. calls' \in [1 .. n -> Call]
      BY <1>1, <3>1, <3>2, <3>3 DEF Abandon
    <3> QED
      BY <3>4
  <2>2. TaskType'
    BY <1>1, IdleState, TypeParts DEF Abandon, TaskType
  <2>3. forsaken' \subseteq Links
    BY <1>1, TypeParts DEF Abandon, RestType, TaskType, TaskState
  <2> QED
    BY <2>1, <2>2, <2>3, TypeParts DEF Abandon, CallsType, ObjectsType, DriverType,
       RestType, objects
<1>2. CASE ~task[t].queued
  <2>1. TaskType'
    <3>1. task[t] \in TaskState /\ task[t].step # "idle"
      BY TypeParts DEF TaskType, Abandon
    <3>2. task' = [task EXCEPT ![t] = [task[t] EXCEPT !.orphan = TRUE]]
      BY <1>2, <3>1, TypeParts DEF Abandon, TaskType
    <3>3. /\ [task[t] EXCEPT !.orphan = TRUE] \in TaskState
          /\ [task[t] EXCEPT !.orphan = TRUE].step # "idle"
      BY <3>1 DEF TaskState
    <3> QED
      BY <3>2, <3>3, TypeParts DEF TaskType
  <2> QED
    BY <1>2, <2>1, TypeParts DEF Abandon, CallsType, ObjectsType, DriverType,
       RestType, objects
<1> QED
  BY <1>1, <1>2

\* A task goes on with its answer.
LEMMA ResumeType ==
  ASSUME TypeOK, NEW t \in Tasks, Resume(t),
         task[t].step \in {"register", "undo"} => task[t].link # NoLink
  PROVE  TypeOK'
<1> DEFINE Frame == UNCHANGED <<module, link, begun, fails, connector, direct,
                                unreleased>>
<1>1. Frame /\ DriverType'
  BY TypeParts DEF Resume, DriverType
<1>2. task[t] \in TaskState /\ task[t].link \in Links \cup {NoLink}
  BY TypeParts DEF TaskType, TaskState
<1>3. UNCHANGED forsaken => RestType'
  BY <1>1, TypeParts DEF RestType
<1>4. CASE MakeList(t)
  <2>1. CallsType'
    <3>1. \A v \in Vcis : Destructor(v, task[t].queued) \in Call
      BY <1>2, CallsOfTasks DEF TaskState
    <3> QED
      BY <1>4, <3>1, TypeParts, PutType DEF MakeList, CallsType
  <2>2. ObjectsType'
    BY <1>4, TypeParts DEF MakeList, ObjectsType, RegisterModule
  <2> QED
    BY <1>1, <1>3, <1>4, <2>1, <2>2, FinishType, TypeParts DEF MakeList
<1>5. CASE ActOnStatus(t)
  <2>1. TaskType' /\ CallsType'
    BY <1>5, AskType, TypeParts DEF ActOnStatus, Steps, Kinds, TaskKinds
  <2> QED
    BY <1>1, <1>3, <1>5, <2>1, TypeParts DEF ActOnStatus, ObjectsType, objects
<1>6. CASE Register(t)
  <2>1. TaskType' /\ CallsType'
    BY <1>6, AskType, TypeParts DEF Register, Steps, Kinds, TaskKinds
  <2> QED
    BY <1>1, <1>3, <1>6, <2>1, TypeParts DEF Register, ObjectsType, objects
<1>7. CASE HandOut(t)
  <2>1. CallsType'
    <3>1. task[t].link \in Links
      BY <1>2, <1>7 DEF HandOut
    <3>2. PICK c \in Call : c = Destroy(task[t].link, task[t].vci \in served)
      BY <3>1, CallsOfDrops
    <3>3. UNCHANGED calls \/ calls' = Append(calls, c)
      BY <1>7, <3>2 DEF HandOut
    <3> QED
      BY <3>3, TypeParts, PutType DEF CallsType
  <2>2. ObjectsType'
    <3>1. task[t].link \in Links
      BY <1>2, <1>7 DEF HandOut
    <3>2. served' \subseteq served \cup {task[t].link}
      BY <1>7 DEF HandOut
    <3> QED
      BY <1>7, <3>1, <3>2, TypeParts DEF HandOut, ObjectsType
  <2> QED
    BY <1>1, <1>3, <1>7, <2>1, <2>2, FinishType, TypeParts DEF HandOut
<1>8. CASE Undo(t)
  <2>1. TaskType' /\ CallsType'
    <3>1. CASE Ask(t, "undo", "destroy")
      BY <1>8, <3>1, AskType, TypeParts DEF Steps, Kinds, TaskKinds, Undo
    <3>2. CASE Finish(t) /\ UNCHANGED calls
      BY <3>2, FinishType, TypeParts DEF CallsType
    <3> QED
      BY <1>8, <3>1, <3>2 DEF Undo, GiveUp
  <2>2. ObjectsType'
    <3>1. UNCHANGED objects
      BY <1>8 DEF Undo
    <3> QED
      BY <3>1, TypeParts DEF ObjectsType, objects
  <2>3. RestType'
    <3>1. forsaken' \subseteq forsaken \cup {task[t].link} /\ task[t].link \in Links
      BY <1>2, <1>8 DEF Undo, GiveUp
    <3> QED
      BY <1>1, <3>1, TypeParts DEF RestType
  <2> QED
    BY <1>1, <2>1, <2>2, <2>3, TypeParts
<1>9. CASE Over(t)
  BY <1>1, <1>3, <1>9, FinishType, TypeParts DEF Over, CallsType, ObjectsType, objects
<1> QED
  BY <1>4, <1>5, <1>6, <1>7, <1>8, <1>9 DEF Resume

\* What remains when a call is made: the others, in their order.
LEMMA OthersParts ==
  ASSUME CallsType, NEW i \in DOMAIN calls
  PROVE  /\ Others(i) \in Seq(Call) /\ i \in Nat
         /\ \A k \in DOMAIN Others(i) :
              /\ k \in Nat
              /\ k < i => k \in DOMAIN calls /\ Others(i)[k] = calls[k]
              /\ k >= i => k + 1 \in DOMAIN calls /\ Others(i)[k] = calls[k + 1]
         /\ \A j \in DOMAIN calls :
              /\ j \in Nat
              /\ j < i => j \in DOMAIN Others(i) /\ Others(i)[j] = calls[j]
              /\ j > i => j - 1 \in DOMAIN Others(i) /\ Others(i)[j - 1] = calls[j]
<1>1. calls \in Seq(Call) /\ i \in 1 .. Len(calls) /\ Len(calls) \in Nat
  BY DEF CallsType
<1>2. PICK a : a = SubSeq(calls, 1, i - 1)
  OBVIOUS
<1>3. PICK b : b = SubSeq(calls, i + 1, Len(calls))
  OBVIOUS
<1>4. /\ a \in Seq(Call) /\ Len(a) = i - 1
      /\ \A k \in 1 .. (i - 1) : a[k] = calls[k]
  BY <1>1, <1>2
<1>5. /\ b \in Seq(Call) /\ Len(b) = Len(calls) - i
      /\ \A k \in 1 .. (Len(calls) - i) : b[k] = calls[i + k]
  BY <1>1, <1>3
<1>6. PICK c : c = a \o b
  OBVIOUS
<1>7. /\ c \in Seq(Call) /\ Len(c) = Len(calls) - 1
      /\ \A k \in 1 .. Len(c) :
           c[k] = IF k < i THEN a[k] ELSE b[k - (i - 1)]
  <2>1. /\ a \o b \in Seq(Call)
        /\ Len(a \o b) = Len(a) + Len(b)
        /\ \A k \in 1 .. Len(a) + Len(b) :
             (a \o b)[k] = IF k <= Len(a) THEN a[k] ELSE b[k - Len(a)]
    BY <1>4, <1>5, ConcatProperties, Zenon
  <2>2. Len(a) + Len(b) = Len(calls) - 1
    BY <1>1, <1>4, <1>5
  <2>3. \A k \in 1 .. Len(calls) - 1 : k <= Len(a) <=> k < i
    BY <1>1, <1>4
  <2> QED
    BY <1>4, <1>6, <2>1, <2>2, <2>3
<1>8. Others(i) = c
  BY <1>2, <1>3, <1>6 DEF Others
<1>9. \A k \in 1 .. Len(c) : c[k] = IF k < i THEN calls[k] ELSE calls[k + 1]
  <2> SUFFICES ASSUME NEW k \in 1 .. Len(c)
               PROVE  c[k] = IF k < i THEN calls[k] ELSE calls[k + 1]
    OBVIOUS
  <2>1. CASE k < i
    <3>1. k \in 1 .. (i - 1)
      BY <1>1, <2>1
    <3> QED
      BY <1>4, <1>7, <2>1, <3>1
  <2>2. CASE ~ (k < i)
    <3>1. k - (i - 1) \in 1 .. (Len(calls) - i) /\ i + (k - (i - 1)) = k + 1
      BY <1>1, <1>7, <2>2
    <3> QED
      BY <1>5, <1>7, <2>2, <3>1
  <2> QED
    BY <2>1, <2>2
<1>10. DOMAIN c = 1 .. (Len(calls) - 1) /\ DOMAIN calls = 1 .. Len(calls)
  BY <1>1, <1>7
<1> QED
  BY <1>1, <1>7, <1>8, <1>9, <1>10

LEMMA AnswerType ==
  ASSUME CallsType, TaskType, NEW i \in DOMAIN calls, NEW r \in Replies, Answer(i, r),
         calls[i].by \in Tasks => task[calls[i].by].step # "idle"
  PROVE  CallsType' /\ TaskType'
<1>1. CallsType'
  BY OthersParts DEF CallsType, Answer
<1>2. calls[i] \in Call
  BY DEF CallsType
<1>3. CASE calls[i].by = NoTask
  BY <1>1, <1>3 DEF Answer, TaskType
<1>4. CASE calls[i].by # NoTask
  <2>1. PICK t \in Tasks : t = calls[i].by
    BY <1>2, <1>4 DEF Call
  <2>2. /\ task' = [task EXCEPT ![t] = [task[t] EXCEPT !.reply = r]]
        /\ [task[t] EXCEPT !.reply = r] \in TaskState
        /\ [task[t] EXCEPT !.reply = r].step # "idle"
    BY <1>4, <2>1 DEF Answer, TaskType, TaskState
  <2> QED
    BY <1>1, <2>2 DEF TaskType
<1> QED
  BY <1>3, <1>4

-----------------------------------------------------------------------------
(***************************************************************************)
(* Who waits for a call.  A call in the queue that somebody awaits is for  *)
(* the objects of its task and for its step, and each task awaits one; the *)
(* creation of a link that nobody awaits is one the worker was left alone  *)
(* with.                                                                   *)
(***************************************************************************)
Linked == {"create", "register", "undo"}
CallOf(step) == IF step = "undo" THEN "destroy" ELSE step

Owned(c) ==
  /\ c.by \in Tasks =>
       /\ task[c.by].step # "idle" /\ task[c.by].reply = "none"
       /\ task[c.by].link = c.link
       /\ task[c.by].step \in Linked => c.kind = CallOf(task[c.by].step)
       /\ c.kind = "create" => task[c.by].step = "create"
  /\ c.by = NoTask /\ c.kind = "create" => c.link \in forsaken

CallsOwned == \A i \in DOMAIN calls : Owned(calls[i])

OneCallEach ==
  \A i, j \in DOMAIN calls : calls[i].by = calls[j].by /\ calls[i].by # NoTask => i = j

\* Only a task that creates a link has one, and a link has one such task.
TasksApart ==
  \A t \in Tasks :
    /\ task[t].link # NoLink <=> task[t].step \in Linked
    /\ task[t].link # NoLink =>
         /\ link[task[t].link] # "none"
         /\ \A u \in Tasks : task[u].link = task[t].link => u = t

Forsaken(l) == l \in forsaken \cup unreleased

\* What a creation leaves that failed, or was undone, is not open.
LeftClosed ==
  \A t \in Tasks :
    \/ task[t].step = "undo" /\ task[t].reply # "none"
    \/ task[t].step = "create" /\ task[t].reply = "error"
    => \A l \in Links : l = task[t].link => link[l] # "open" \/ Forsaken(l)

IInv ==
  /\ TypeOK /\ CallsOwned /\ OneCallEach /\ TasksApart /\ LeftClosed
  /\ LinkAccounted /\ ListedIsFound

LEMMA InitIInv == Init => IInv
<1> SUFFICES ASSUME Init PROVE IInv
  OBVIOUS
<1>1. CallsOwned /\ OneCallEach
  BY DEF Init, CallsOwned, OneCallEach
<1>2. TasksApart /\ LeftClosed
  BY DEF Init, TasksApart, LeftClosed, Linked, Idle
<1>3. LinkAccounted /\ ListedIsFound
  BY DEF Init, LinkAccounted, ListedIsFound
<1> QED
  BY <1>1, <1>2, <1>3, InitType DEF IInv

\* A task that has its answer, or has nothing to do, awaits no call.
LEMMA NoCallOf ==
  ASSUME CallsOwned, NEW t \in Tasks, task[t].step = "idle" \/ task[t].reply # "none"
  PROVE  \A i \in DOMAIN calls : calls[i].by # t
BY DEF CallsOwned, Owned

\* A new call at the end of the queue.
LEMMA AppendCalls ==
  ASSUME CallsType, NEW c \in Call, calls' = Append(calls, c),
         OneCallEach, c.by = NoTask \/ \A i \in DOMAIN calls : calls[i].by # c.by
  PROVE  /\ OneCallEach'
         /\ DOMAIN calls' = DOMAIN calls \cup {Len(calls) + 1}
         /\ calls'[Len(calls) + 1] = c
         /\ \A i \in DOMAIN calls : calls'[i] = calls[i]
<1>1. PICK n : n = Len(calls) + 1
  OBVIOUS
<1>2. /\ DOMAIN calls' = DOMAIN calls \cup {n} /\ calls'[n] = c
      /\ \A i \in DOMAIN calls : calls'[i] = calls[i]
  BY <1>1 DEF CallsType
<1>3. OneCallEach'
  BY <1>2 DEF OneCallEach
<1> QED
  BY <1>1, <1>2, <1>3

-----------------------------------------------------------------------------
(***************************************************************************)
(* The steps of the tasks.  A task moves on when it awaits no call.        *)
(***************************************************************************)
DestroyAsked(l) == \E i \in DOMAIN calls : calls[i].kind = "destroy" /\ calls[i].link = l

\* The task's new state is r, and it asks for at most one call.
Moves(t, r) ==
  /\ task' = [task EXCEPT ![t] = r]
  /\ r.reply = "none" /\ (r.link # NoLink <=> r.step \in Linked)
  /\ forsaken \subseteq forsaken' /\ unreleased' = unreleased

Asks(t, r, c) ==
  /\ calls' = Append(calls, c)
  /\ \/ c.by = NoTask /\ c.kind # "create"
     \/ /\ c.by = t /\ c.link = r.link /\ r.step # "idle"
        /\ r.step \in Linked => c.kind = CallOf(r.step)
        /\ c.kind = "create" => r.step = "create"

LEMMA MoveCalls ==
  ASSUME IInv, NEW t \in Tasks, task[t].step = "idle" \/ task[t].reply # "none",
         NEW r \in TaskState, Moves(t, r),
         UNCHANGED calls \/ \E c \in Call : Asks(t, r, c)
  PROVE  /\ CallsOwned' /\ OneCallEach'
         /\ \A i \in DOMAIN calls : i \in DOMAIN calls' /\ calls'[i] = calls[i]
<1>1. /\ CallsType /\ CallsOwned /\ OneCallEach /\ NoTask \notin Tasks
      /\ task \in [Tasks -> TaskState]
  BY TypeParts, VciAssumption DEF IInv, TaskType
<1>2. \A i \in DOMAIN calls : calls[i].by # t
  BY <1>1, NoCallOf
<1>3. \A c \in Call : c.by # t /\ Owned(c) => Owned(c)'
  BY <1>1 DEF Owned, Moves
<1>4. \A i \in DOMAIN calls : calls[i] \in Call /\ calls[i].by # t /\ Owned(calls[i])
  BY <1>1, <1>2 DEF CallsOwned, CallsType
<1>5. CASE UNCHANGED calls
  <2>1. CallsOwned'
    BY <1>3, <1>4, <1>5 DEF CallsOwned
  <2> QED
    BY <1>1, <1>5, <2>1 DEF OneCallEach
<1>6. ASSUME NEW c \in Call, Asks(t, r, c)
      PROVE  /\ CallsOwned' /\ OneCallEach'
             /\ \A i \in DOMAIN calls : i \in DOMAIN calls' /\ calls'[i] = calls[i]
  <2>1. PICK n : n = Len(calls) + 1
    OBVIOUS
  <2>2. /\ OneCallEach'
        /\ DOMAIN calls' = DOMAIN calls \cup {n} /\ calls'[n] = c
        /\ \A i \in DOMAIN calls : calls'[i] = calls[i]
    BY <1>1, <1>2, <1>6, <2>1, AppendCalls DEF Asks
  <2>3. Owned(c)'
    BY <1>1, <1>6 DEF Owned, Asks, Moves
  <2>4. \A i \in DOMAIN calls' : \E d \in Call : d = calls'[i] /\ Owned(d)'
    BY <1>3, <1>4, <2>2, <2>3
  <2>5. CallsOwned'
    BY <2>4 DEF CallsOwned
  <2> QED
    BY <2>2, <2>5
<1> QED
  BY <1>5, <1>6

LEMMA MoveLinks ==
  ASSUME IInv, NEW t \in Tasks, NEW r \in TaskState, Moves(t, r), UNCHANGED link,
         r.link \in {NoLink, task[t].link}
  PROVE  TasksApart' /\ LeftClosed'
<1>1. task \in [Tasks -> TaskState] /\ TasksApart /\ LeftClosed
  BY TypeParts DEF IInv, TaskType
<1>2. TasksApart'
  BY <1>1 DEF TasksApart, Moves
<1>3. LeftClosed'
  BY <1>1 DEF LeftClosed, Moves, Forsaken
<1> QED
  BY <1>2, <1>3

\* A task that lets go of its link leaves it accounted for.
LEMMA MoveAccounts ==
  ASSUME IInv, NEW t \in Tasks, NEW r \in TaskState, Moves(t, r), UNCHANGED link,
         \A i \in DOMAIN calls : i \in DOMAIN calls' /\ calls'[i] = calls[i],
         \A l \in Links : object[l] = "alive" => object'[l] = "alive" \/ DestroyAsked(l)',
         \A l \in Links : l = task[t].link /\ l # r.link /\ link[l] = "open" =>
           object'[l] = "alive" \/ DestroyAsked(l)' \/ Forsaken(l)'
  PROVE  LinkAccounted'
<1> SUFFICES ASSUME NEW l \in Links, link[l] = "open"
             PROVE  \/ object'[l] = "alive" \/ \E u \in Tasks : task'[u].link = l
                    \/ DestroyAsked(l)' \/ Forsaken(l)'
  BY DEF LinkAccounted, DestroyAsked, Forsaken
<1>1. \/ object[l] = "alive" \/ \E u \in Tasks : task[u].link = l
      \/ DestroyAsked(l) \/ Forsaken(l)
  BY DEF IInv, LinkAccounted, DestroyAsked, Forsaken
<1>2. task \in [Tasks -> TaskState]
  BY TypeParts DEF IInv, TaskType
<1>3. DestroyAsked(l) => DestroyAsked(l)'
  BY DEF DestroyAsked
<1>4. Forsaken(l) => Forsaken(l)'
  BY DEF Forsaken, Moves
<1>5. ASSUME NEW u \in Tasks, task[u].link = l
      PROVE  \/ object'[l] = "alive" \/ \E w \in Tasks : task'[w].link = l
             \/ DestroyAsked(l)' \/ Forsaken(l)'
  <2>1. CASE u # t
    BY <1>2, <1>5, <2>1 DEF Moves
  <2>2. CASE u = t /\ r.link = l
    BY <1>2, <2>2 DEF Moves
  <2>3. CASE u = t /\ r.link # l
    BY <1>5, <2>3
  <2> QED
    BY <2>1, <2>2, <2>3
<1> QED
  BY <1>1, <1>3, <1>4, <1>5

Links5 == CallsOwned /\ OneCallEach /\ TasksApart /\ LeftClosed /\ LinkAccounted

\* A task finishes, asks for another call, or begins.
LEMMA FinishStep ==
  ASSUME IInv, NEW t \in Tasks, task[t].reply # "none", Finish(t),
         UNCHANGED <<link, unreleased>>, forsaken \subseteq forsaken',
         \/ UNCHANGED calls
         \/ \E c \in Call : calls' = Append(calls, c) /\ c.by = NoTask /\ c.kind # "create",
         \A l \in Links : object[l] = "alive" => object'[l] = "alive" \/ DestroyAsked(l)',
         \A l \in Links : l = task[t].link /\ link[l] = "open" =>
           object'[l] = "alive" \/ DestroyAsked(l)' \/ Forsaken(l)'
  PROVE  Links5'
<1>1. Moves(t, Idle) /\ Idle.link = NoLink
  BY DEF Moves, Finish, Idle, Linked
<1>2. UNCHANGED calls \/ \E c \in Call : Asks(t, Idle, c)
  BY DEF Asks
<1>3. /\ CallsOwned' /\ OneCallEach'
      /\ \A i \in DOMAIN calls : i \in DOMAIN calls' /\ calls'[i] = calls[i]
  BY <1>1, <1>2, IdleState, MoveCalls
<1>4. TasksApart' /\ LeftClosed'
  BY <1>1, IdleState, MoveLinks
<1>5. LinkAccounted'
  BY <1>1, <1>3, IdleState, MoveAccounts
<1> QED
  BY <1>3, <1>4, <1>5 DEF Links5

LEMMA AskStep ==
  ASSUME IInv, NEW t \in Tasks, task[t].reply # "none",
         NEW s \in Steps \ {"idle"}, NEW k \in TaskKinds, Ask(t, s, k),
         s \in Linked <=> task[t].step \in Linked,
         s \in Linked => k = CallOf(s), k = "create" => s = "create",
         k = "destroy" => s = "undo",
         UNCHANGED <<link, object, unreleased>>, forsaken \subseteq forsaken'
  PROVE  Links5'
<1>1. task \in [Tasks -> TaskState] /\ task[t] \in TaskState
  BY TypeParts DEF IInv, TaskType
<1>2. PICK r : r = [task[t] EXCEPT !.step = s, !.reply = "none"]
  OBVIOUS
<1>3. r \in TaskState /\ r.step = s /\ r.reply = "none" /\ r.link = task[t].link
  BY <1>1, <1>2 DEF TaskState, Replies
<1>4. Moves(t, r)
  BY <1>1, <1>2, <1>3 DEF Moves, Ask, IInv, TasksApart
<1>5. \E c \in Call : Asks(t, r, c)
  <2>1. k = "destroy" => task[t].link # NoLink
    BY DEF IInv, TasksApart, Linked
  <2>2. PICK c \in Call : c = [kind |-> k, vci |-> task[t].vci, link |-> task[t].link,
                               by |-> t, queued |-> task[t].queued]
    BY <1>1, <2>1, CallsOfTasks DEF TaskState
  <2> QED
    BY <1>3, <2>2 DEF Asks, Ask
<1>6. /\ CallsOwned' /\ OneCallEach'
      /\ \A i \in DOMAIN calls : i \in DOMAIN calls' /\ calls'[i] = calls[i]
  BY <1>3, <1>4, <1>5, MoveCalls
<1>7. TasksApart' /\ LeftClosed'
  BY <1>3, <1>4, MoveLinks
<1>8. LinkAccounted'
  BY <1>3, <1>4, <1>6, MoveAccounts
<1> QED
  BY <1>6, <1>7, <1>8 DEF Links5

\* What a task that begins becomes, and asks for.
LEMMA BeginMoves ==
  ASSUME IInv, NEW t \in Tasks, NEW q \in BOOLEAN, NEW s \in Steps \ {"idle"},
         NEW v \in Vcis \cup {NoVci}, NEW l \in Links \cup {NoLink},
         NEW k \in TaskKinds \ {"destroy"},
         Begin(t, q, s, v, l, k), l # NoLink <=> s \in Linked,
         s \in Linked => k = CallOf(s), k = "create" => s = "create"
  PROVE  /\ task[t] = Idle
         /\ \E r \in TaskState : /\ Moves(t, r) /\ r.link = l /\ r.step = s
                                 /\ \E c \in Call : Asks(t, r, c)
<1>1. task[t] = Idle
  BY TypeParts DEF IInv, TaskType, Begin
<1>2. PICK r : r = [Idle EXCEPT !.step = s, !.vci = v, !.link = l, !.queued = q]
  OBVIOUS
<1>3. r \in TaskState /\ r.step = s /\ r.link = l /\ r.reply = "none"
  BY <1>2 DEF TaskState, Replies, Idle
<1>4. Moves(t, r)
  BY <1>2, <1>3 DEF Moves, Begin, history
<1>5. PICK c \in Call :
        c = [kind |-> k, vci |-> v, link |-> l, by |-> t, queued |-> q]
  BY CallsOfTasks
<1>6. Asks(t, r, c)
  BY <1>3, <1>5 DEF Asks, Begin
<1> QED
  BY <1>1, <1>3, <1>4, <1>6

LEMMA BeginStep ==
  ASSUME IInv, NEW t \in Tasks, NEW q \in BOOLEAN,
         NEW s \in Steps \ ({"idle"} \cup Linked),
         NEW v \in Vcis \cup {NoVci}, NEW k \in TaskKinds \ {"create", "destroy"},
         Begin(t, q, s, v, NoLink, k), UNCHANGED link
  PROVE  Links5'
<1>1. /\ task[t] = Idle
      /\ \E r \in TaskState : /\ Moves(t, r) /\ r.link = NoLink /\ r.step = s
                              /\ \E c \in Call : Asks(t, r, c)
  <2>1. /\ NoLink \in Links \cup {NoLink} /\ s \in Steps \ {"idle"} /\ s \notin Linked
        /\ k \in TaskKinds \ {"destroy"} /\ k # "create"
    OBVIOUS
  <2> QED
    BY <2>1, BeginMoves
<1>2. PICK r \in TaskState :
        Moves(t, r) /\ r.link = NoLink /\ \E c \in Call : Asks(t, r, c)
  BY <1>1
<1>3. task[t].step = "idle" /\ task[t].link = NoLink /\ UNCHANGED object
  BY <1>1 DEF Idle, Begin, objects
<1>4. /\ CallsOwned' /\ OneCallEach'
      /\ \A i \in DOMAIN calls : i \in DOMAIN calls' /\ calls'[i] = calls[i]
  BY <1>2, <1>3, MoveCalls
<1>5. TasksApart' /\ LeftClosed'
  BY <1>2, MoveLinks
<1>6. LinkAccounted'
  BY <1>2, <1>4, <1>3, MoveAccounts
<1> QED
  BY <1>4, <1>5, <1>6 DEF Links5

LEMMA CreateStep ==
  ASSUME IInv, NEW t \in Tasks, NEW q \in BOOLEAN, NEW v \in Vcis, NEW l \in Links,
         CreateLink(t, q, v, l)
  PROVE  Links5'
<1>1. /\ task[t] = Idle
      /\ \E r \in TaskState : /\ Moves(t, r) /\ r.link = l /\ r.step = "create"
                              /\ \E c \in Call : Asks(t, r, c)
  <2>1. l # NoLink /\ CallOf("create") = "create" /\ "create" \in Linked
    BY VciAssumption DEF CallOf, Linked
  <2>2. "create" \in Steps \ {"idle"} /\ "create" \in TaskKinds \ {"destroy"}
    BY DEF Steps, Kinds, TaskKinds
  <2> QED
    BY <2>1, <2>2, BeginMoves DEF CreateLink
<1>2. PICK r \in TaskState : /\ Moves(t, r) /\ r.link = l /\ r.step = "create"
                             /\ \E c \in Call : Asks(t, r, c)
  BY <1>1
<1>3. task[t].step = "idle" /\ task[t].link = NoLink /\ UNCHANGED object
  BY <1>1 DEF Idle, CreateLink, Begin, objects
<1>4. /\ CallsOwned' /\ OneCallEach'
      /\ \A i \in DOMAIN calls : i \in DOMAIN calls' /\ calls'[i] = calls[i]
  BY <1>2, <1>3, MoveCalls
<1>5. /\ task \in [Tasks -> TaskState] /\ TasksApart /\ LeftClosed
      /\ link \in [Links -> {"none", "asked", "refused", "open", "gone"}]
  BY TypeParts DEF IInv, TaskType, DriverType
<1>6. link[l] = "none" /\ link' = [link EXCEPT ![l] = "asked"]
  BY DEF CreateLink
<1>7. \A u \in Tasks : task[u].link # l
  BY <1>5, <1>6, VciAssumption DEF TasksApart
<1>8. TasksApart'
  <2> SUFFICES ASSUME NEW u \in Tasks
               PROVE  /\ task'[u].link # NoLink <=> task'[u].step \in Linked
                      /\ task'[u].link # NoLink =>
                           /\ link'[task'[u].link] # "none"
                           /\ \A w \in Tasks : task'[w].link = task'[u].link => w = u
    BY DEF TasksApart
  <2>1. CASE u = t
    BY <1>2, <1>5, <1>6, <1>7, <2>1 DEF Moves
  <2>2. CASE u # t
    <3>1. task'[u] = task[u] /\ task[u].link \in Links \cup {NoLink}
      BY <1>2, <1>5, <2>2 DEF Moves, TaskState
    <3> QED
      BY <1>2, <1>5, <1>6, <1>7, <2>2, <3>1 DEF TasksApart, Moves
  <2> QED
    BY <2>1, <2>2
<1>9. LeftClosed'
  BY <1>2, <1>5, <1>6 DEF LeftClosed, Moves, Forsaken
<1>10. LinkAccounted'
  <2> SUFFICES ASSUME NEW x \in Links, link'[x] = "open"
               PROVE  \/ object'[x] = "alive" \/ \E u \in Tasks : task'[u].link = x
                      \/ DestroyAsked(x)' \/ Forsaken(x)'
    BY DEF LinkAccounted, DestroyAsked, Forsaken
  <2>1. link[x] = "open" /\ x # NoLink
    BY <1>5, <1>6, VciAssumption
  <2>2. \/ object[x] = "alive" \/ \E u \in Tasks : task[u].link = x
        \/ DestroyAsked(x) \/ Forsaken(x)
    BY <2>1 DEF IInv, LinkAccounted, DestroyAsked, Forsaken
  <2>3. \A u \in Tasks : task[u].link = x => task'[u].link = x
    BY <1>2, <1>3, <1>5, <2>1 DEF Moves
  <2>4. DestroyAsked(x) => DestroyAsked(x)'
    BY <1>4 DEF DestroyAsked
  <2>5. Forsaken(x) => Forsaken(x)'
    BY <1>2 DEF Forsaken, Moves
  <2> QED
    BY <1>3, <2>2, <2>3, <2>4, <2>5
<1> QED
  BY <1>4, <1>8, <1>9, <1>10 DEF Links5

\* A task goes on with its answer.
LEMMA ResumeStep ==
  ASSUME IInv, NEW t \in Tasks, Resume(t)
  PROVE  Links5'
<1>1. /\ task[t].reply # "none" /\ UNCHANGED <<link, unreleased>>
      /\ task[t] \in TaskState /\ task[t].link \in Links \cup {NoLink}
      /\ CallsType /\ TasksApart /\ LeftClosed
      /\ object \in [Links -> {"none", "alive", "dropped"}]
  BY TypeParts DEF Resume, IInv, TaskType, TaskState, ObjectsType
<1>2. task[t].step \notin Linked => task[t].link = NoLink
  BY <1>1 DEF TasksApart
<1>3. CASE MakeList(t)
  <2>1. /\ Finish(t) /\ UNCHANGED <<object, forsaken>>
        /\ \/ UNCHANGED calls
           \/ \E v \in Vcis : calls' = Append(calls, Destructor(v, task[t].queued))
    BY <1>3 DEF MakeList
  <2>2. \A v \in Vcis, q \in BOOLEAN :
          /\ Destructor(v, q) \in Call /\ Destructor(v, q).by = NoTask
          /\ Destructor(v, q).kind # "create"
    BY CallsOfTasks DEF Destructor
  <2>3. task[t].link = NoLink
    BY <1>2, <1>3 DEF MakeList, Linked
  <2>4. task[t].queued \in BOOLEAN
    BY <1>1 DEF TaskState
  <2>5. \/ UNCHANGED calls
        \/ \E c \in Call : calls' = Append(calls, c) /\ c.by = NoTask /\ c.kind # "create"
    BY <2>1, <2>2, <2>4
  <2> QED
    BY <1>1, <2>1, <2>3, <2>5, FinishStep, VciAssumption
<1>4. CASE ActOnStatus(t)
  <2>1. /\ task[t].step \notin Linked /\ UNCHANGED <<object, forsaken>>
        /\ Ask(t, "connect", "connect") \/ Ask(t, "disconnect", "disconnect")
    BY <1>4 DEF ActOnStatus, Linked, objects
  <2> QED
    BY <1>1, <2>1, AskStep DEF Linked, Steps, Kinds, TaskKinds
<1>5. CASE Register(t)
  <2>1. /\ task[t].step \in Linked /\ UNCHANGED <<object, forsaken>>
        /\ Ask(t, "register", "register")
    BY <1>5 DEF Register, Linked, objects
  <2> QED
    BY <1>1, <2>1, AskStep DEF Linked, Steps, Kinds, TaskKinds, CallOf
<1>6. CASE HandOut(t)
  <2>1. PICK l : l = task[t].link
    OBVIOUS
  <2>9. PICK d : d = Destroy(l, task[t].vci \in served)
    OBVIOUS
  <2>2. /\ Finish(t) /\ UNCHANGED forsaken
        /\ l \in Links
        /\ \/ object' = [object EXCEPT ![l] = "alive"] /\ UNCHANGED calls
           \/ /\ object' = [object EXCEPT ![l] = "dropped"]
              /\ calls' = Append(calls, d)
    BY <1>1, <1>6, <2>1, <2>9 DEF HandOut, TasksApart, Linked
  <2>3. d \in Call /\ d.by = NoTask /\ d.kind = "destroy" /\ d.link = l
    BY <2>2, <2>9, CallsOfDrops DEF Destroy
  <2>4. CASE object' = [object EXCEPT ![l] = "alive"] /\ UNCHANGED calls
    BY <1>1, <2>1, <2>2, <2>4, FinishStep
  <2>5. CASE /\ object' = [object EXCEPT ![l] = "dropped"]
             /\ calls' = Append(calls, d)
    <3>1. DestroyAsked(l)'
      <4>1. Len(calls) + 1 \in DOMAIN calls' /\ calls'[Len(calls) + 1] = d
        BY <1>1, <2>3, <2>5 DEF CallsType
      <4> QED
        BY <2>3, <4>1 DEF DestroyAsked
    <3>2. \A x \in Links : object[x] = "alive" => object'[x] = "alive" \/ DestroyAsked(x)'
      BY <1>1, <2>5, <3>1
    <3>3. \A x \in Links : x = task[t].link => DestroyAsked(x)'
      BY <2>1, <3>1
    <3> QED
      BY <1>1, <2>2, <2>3, <2>5, <3>2, <3>3, FinishStep
  <2> QED
    BY <2>2, <2>4, <2>5
<1>7. CASE Undo(t)
  <2>1. UNCHANGED object /\ task[t].step \in Linked
    BY <1>7 DEF Undo, objects, Linked
  <2>2. CASE Ask(t, "undo", "destroy") /\ UNCHANGED forsaken
    BY <1>1, <2>1, <2>2, AskStep DEF Linked, Steps, Kinds, TaskKinds, CallOf
  <2>3. CASE /\ forsaken' = forsaken \cup {task[t].link}
             /\ Finish(t) /\ UNCHANGED calls
    <3>1. \A l \in Links : l = task[t].link => Forsaken(l)'
      BY <1>1, <2>3 DEF Forsaken
    <3> QED
      BY <1>1, <2>1, <2>3, <3>1, FinishStep
  <2> QED
    BY <1>7, <2>2, <2>3 DEF Undo, GiveUp
<1>8. CASE Over(t)
  <2>1. Finish(t) /\ UNCHANGED <<calls, object, forsaken>>
    BY <1>8 DEF Over, objects
  <2>2. \A l \in Links : l = task[t].link /\ link[l] = "open" => Forsaken(l)'
    BY <1>1, <1>2, <1>8, <2>1, VciAssumption DEF Over, LeftClosed, Linked, Forsaken
  <2> QED
    BY <1>1, <2>1, <2>2, FinishStep
<1> QED
  BY <1>3, <1>4, <1>5, <1>6, <1>7, <1>8 DEF Resume

LEMMA AbandonStep ==
  ASSUME IInv, NEW t \in Tasks, Abandon(t)
  PROVE  Links5'
<1>1. /\ task \in [Tasks -> TaskState] /\ NoTask \notin Tasks /\ task[t] \in TaskState
      /\ CallsType /\ CallsOwned /\ OneCallEach /\ TasksApart /\ LeftClosed
      /\ LinkAccounted
  BY TypeParts, VciAssumption DEF IInv, TaskType
<1>2. UNCHANGED <<link, object, unreleased>>
  BY DEF Abandon, objects
<1>3. CASE task[t].queued
  <2>1. /\ task' = [task EXCEPT ![t] = Idle]
        /\ forsaken' = forsaken \cup ({task[t].link} \ {NoLink})
        /\ calls' = [i \in DOMAIN calls |->
             IF calls[i].by = t THEN [calls[i] EXCEPT !.by = NoTask] ELSE calls[i]]
    BY <1>3 DEF Abandon
  <2>2. \A i \in DOMAIN calls :
          /\ calls'[i].kind = calls[i].kind /\ calls'[i].link = calls[i].link
          /\ calls'[i].by = IF calls[i].by = t THEN NoTask ELSE calls[i].by
    BY <1>1, <2>1 DEF CallsType, Call
  <2>3. Idle.link = NoLink /\ Idle.step \notin Linked /\ Idle.step = "idle"
    BY DEF Idle, Linked
  <2>4. CallsOwned'
    <3> SUFFICES ASSUME NEW i \in DOMAIN calls', NEW c, c = calls'[i]
                 PROVE  Owned(c)'
      BY DEF CallsOwned
    <3>1. i \in DOMAIN calls /\ Owned(calls[i])
      BY <1>1, <2>1 DEF CallsOwned
    <3>2. CASE calls[i].by = t
      <4>1. c.by = NoTask /\ c.kind = calls[i].kind /\ c.link = calls[i].link
        BY <2>2, <3>1, <3>2
      <4>2. c.kind = "create" => task[t].step = "create" /\ task[t].link = c.link
        BY <3>1, <3>2, <4>1 DEF Owned
      <4>3. c.kind = "create" => c.link \in forsaken'
        BY <1>1, <2>1, <4>2 DEF TasksApart, Linked
      <4> QED
        BY <1>1, <1>2, <1>3, <4>1, <4>3 DEF Owned
    <3>3. CASE calls[i].by # t
      <4>1. c = calls[i]
        BY <2>1, <3>1, <3>3
      <4> QED
        BY <1>1, <1>2, <2>1, <3>1, <3>3, <4>1 DEF Owned
    <3> QED
      BY <3>2, <3>3
  <2>5. OneCallEach'
    BY <1>1, <2>1, <2>2 DEF OneCallEach
  <2>6. TasksApart' /\ LeftClosed'
    BY <1>1, <1>2, <2>1, <2>3 DEF TasksApart, LeftClosed, Forsaken
  <2>7. LinkAccounted'
    <3> SUFFICES ASSUME NEW l \in Links, link[l] = "open"
                 PROVE  \/ object[l] = "alive" \/ \E u \in Tasks : task'[u].link = l
                        \/ DestroyAsked(l)' \/ Forsaken(l)'
      BY <1>2 DEF LinkAccounted, DestroyAsked, Forsaken
    <3>1. \/ object[l] = "alive" \/ \E u \in Tasks : task[u].link = l
          \/ DestroyAsked(l) \/ Forsaken(l)
      BY <1>1 DEF LinkAccounted, DestroyAsked, Forsaken
    <3>2. DestroyAsked(l) => DestroyAsked(l)'
      BY <2>1, <2>2 DEF DestroyAsked
    <3>3. Forsaken(l) => Forsaken(l)'
      BY <1>2, <2>1 DEF Forsaken
    <3>4. task[t].link = l => Forsaken(l)'
      BY <1>2, <1>3, <2>1, VciAssumption DEF Forsaken
    <3>5. \A u \in Tasks : u # t => task'[u] = task[u]
      BY <1>1, <2>1
    <3> QED
      BY <3>1, <3>2, <3>3, <3>4, <3>5
  <2> QED
    BY <2>4, <2>5, <2>6, <2>7 DEF Links5
<1>4. CASE ~task[t].queued
  <2>1. task' = [task EXCEPT ![t].orphan = TRUE] /\ UNCHANGED <<forsaken, calls>>
    BY <1>4 DEF Abandon
  <2>2. \A u \in Tasks : /\ task'[u].step = task[u].step /\ task'[u].link = task[u].link
                         /\ task'[u].reply = task[u].reply
    BY <1>1, <2>1 DEF TaskState
  <2>3. \A c : Owned(c) => Owned(c)'
    BY <1>2, <2>1, <2>2 DEF Owned
  <2>4. CallsOwned'
    BY <1>1, <2>1, <2>3 DEF CallsOwned
  <2>5. OneCallEach' /\ TasksApart' /\ LeftClosed'
    BY <1>1, <1>2, <2>1, <2>2 DEF OneCallEach, TasksApart, LeftClosed, Forsaken
  <2>6. LinkAccounted'
    BY <1>1, <1>2, <2>1, <2>2 DEF LinkAccounted
  <2> QED
    BY <2>4, <2>5, <2>6 DEF Links5
<1> QED
  BY <1>3, <1>4

-----------------------------------------------------------------------------
(***************************************************************************)
(* The steps of the objects and of the environment.                        *)
(***************************************************************************)

\* No task moves; a destructor may be asked for.
LEMMA DropStep ==
  ASSUME IInv, UNCHANGED <<task, link, forsaken, unreleased>>,
         \/ UNCHANGED calls
         \/ \E c \in Call : calls' = Append(calls, c) /\ c.by = NoTask /\ c.kind # "create",
         \A l \in Links : object[l] = "alive" => object'[l] = "alive" \/ DestroyAsked(l)'
  PROVE  Links5'
<1>1. /\ CallsType /\ CallsOwned /\ OneCallEach /\ TasksApart /\ LeftClosed
      /\ LinkAccounted /\ NoTask \notin Tasks
  BY TypeParts, VciAssumption DEF IInv
<1>2. /\ OneCallEach'
      /\ \A i \in DOMAIN calls : i \in DOMAIN calls' /\ calls'[i] = calls[i]
      /\ \A i \in DOMAIN calls' :
           \/ i \in DOMAIN calls /\ calls'[i] = calls[i]
           \/ calls'[i].by = NoTask /\ calls'[i].kind # "create"
  <2>1. CASE UNCHANGED calls
    BY <1>1, <2>1 DEF OneCallEach
  <2>2. ASSUME NEW c \in Call, calls' = Append(calls, c), c.by = NoTask,
               c.kind # "create"
        PROVE  /\ OneCallEach'
               /\ \A i \in DOMAIN calls : i \in DOMAIN calls' /\ calls'[i] = calls[i]
               /\ \A i \in DOMAIN calls' :
                    \/ i \in DOMAIN calls /\ calls'[i] = calls[i]
                    \/ calls'[i].by = NoTask /\ calls'[i].kind # "create"
    BY <1>1, <2>2, AppendCalls
  <2> QED
    BY <2>1, <2>2
<1>3. \A c : Owned(c) => Owned(c)'
  BY DEF Owned
<1>4. \A c : c.by = NoTask /\ c.kind # "create" => Owned(c)'
  BY <1>1 DEF Owned
<1>5. \A i \in DOMAIN calls' : \E c : c = calls'[i] /\ Owned(c)'
  BY <1>1, <1>2, <1>3, <1>4 DEF CallsOwned
<1>6. CallsOwned'
  BY <1>5 DEF CallsOwned
<1>7. TasksApart' /\ LeftClosed'
  BY <1>1 DEF TasksApart, LeftClosed, Forsaken
<1>8. LinkAccounted'
  <2>1. \A l \in Links : DestroyAsked(l) => DestroyAsked(l)'
    BY <1>2 DEF DestroyAsked
  <2> QED
    BY <1>1, <2>1 DEF LinkAccounted, DestroyAsked
<1> QED
  BY <1>2, <1>6, <1>7, <1>8 DEF Links5

-----------------------------------------------------------------------------
(***************************************************************************)
(* The driver calls.                                                       *)
(***************************************************************************)
Severing(i) == [calls[i] EXCEPT !.kind = "sever"]

\* Call i is made: the others remain, and a destructor may put its disconnect.
Made(i) == \/ calls' = Others(i)
           \/ /\ calls[i].kind = "destruct" /\ ~calls[i].queued /\ UNCHANGED task
              /\ calls' = Append(Others(i), Severing(i))

LEMMA MadeCalls ==
  ASSUME CallsType, OneCallEach, NEW i \in DOMAIN calls, Made(i)
  PROVE  /\ CallsType' /\ OneCallEach'
         /\ \A k \in DOMAIN calls' :
              \/ \E j \in DOMAIN calls : j # i /\ calls'[k] = calls[j]
              \/ /\ calls'[k] = Severing(i)
                 /\ calls[i].kind = "destruct" /\ ~calls[i].queued /\ UNCHANGED task
         /\ \A j \in DOMAIN calls :
              j # i => \E k \in DOMAIN calls' : calls'[k] = calls[j]
<1>1. PICK o : o = Others(i)
  OBVIOUS
<1>2. /\ o \in Seq(Call) /\ i \in Nat
      /\ \A k \in DOMAIN o :
           /\ k \in Nat
           /\ k < i => k \in DOMAIN calls /\ o[k] = calls[k]
           /\ k >= i => k + 1 \in DOMAIN calls /\ o[k] = calls[k + 1]
      /\ \A j \in DOMAIN calls :
           /\ j \in Nat
           /\ j < i => j \in DOMAIN o /\ o[j] = calls[j]
           /\ j > i => j - 1 \in DOMAIN o /\ o[j - 1] = calls[j]
  BY <1>1, OthersParts
<1>3. \A k \in DOMAIN o : \E j \in DOMAIN calls : j # i /\ o[k] = calls[j]
  <2> SUFFICES ASSUME NEW k \in DOMAIN o
               PROVE  \E j \in DOMAIN calls : j # i /\ o[k] = calls[j]
    OBVIOUS
  <2>1. CASE k < i
    BY <1>2, <2>1
  <2>2. CASE k >= i
    <3>1. k + 1 \in DOMAIN calls /\ k + 1 # i /\ o[k] = calls[k + 1]
      BY <1>2, <2>2
    <3> QED
      BY <3>1
  <2> QED
    BY <1>2, <2>1, <2>2
<1>4. \A j \in DOMAIN calls : j # i => \E k \in DOMAIN o : o[k] = calls[j]
  <2> SUFFICES ASSUME NEW j \in DOMAIN calls, j # i
               PROVE  \E k \in DOMAIN o : o[k] = calls[j]
    OBVIOUS
  <2>1. j < i \/ j > i
    BY <1>2
  <2>2. CASE j < i
    BY <1>2, <2>2
  <2>3. CASE j > i
    BY <1>2, <2>3
  <2> QED
    BY <2>1, <2>2, <2>3
<1>5. \A k, m \in DOMAIN o : o[k].by = o[m].by /\ o[k].by # NoTask => k = m
  <2> SUFFICES ASSUME NEW k \in DOMAIN o, NEW m \in DOMAIN o, o[k].by = o[m].by,
                      o[k].by # NoTask
               PROVE  k = m
    OBVIOUS
  <2>1. k \in Nat /\ m \in Nat /\ i \in Nat
    BY <1>2
  <2>2. CASE k < i /\ m < i
    BY <1>2, <2>2 DEF OneCallEach
  <2>3. CASE k >= i /\ m >= i
    <3>1. k + 1 = m + 1
      BY <1>2, <2>3 DEF OneCallEach
    <3> QED
      BY <2>1, <3>1
  <2>4. CASE k < i /\ m >= i
    <3>1. k = m + 1
      BY <1>2, <2>4 DEF OneCallEach
    <3> QED
      BY <2>1, <2>4, <3>1
  <2>5. CASE k >= i /\ m < i
    <3>1. k + 1 = m
      BY <1>2, <2>5 DEF OneCallEach
    <3> QED
      BY <2>1, <2>5, <3>1
  <2> QED
    BY <2>1, <2>2, <2>3, <2>4, <2>5
<1>6. CASE calls' = Others(i)
  BY <1>1, <1>2, <1>3, <1>4, <1>5, <1>6 DEF CallsType, OneCallEach
<1>7. CASE /\ calls[i].kind = "destruct" /\ ~calls[i].queued /\ UNCHANGED task
           /\ calls' = Append(Others(i), Severing(i))
  <2>1. PICK c : c = Severing(i)
    OBVIOUS
  <2>2. c \in Call /\ c.by = calls[i].by
    <3>1. PICK d \in Call : d = calls[i]
      BY DEF CallsType
    <3>2. c = [d EXCEPT !.kind = "sever"]
      BY <2>1, <3>1 DEF Severing
    <3> QED
      BY <1>7, <3>1, <3>2 DEF Call, Kinds
  <2>3. calls' = Append(o, c)
    BY <1>1, <1>7, <2>1
  <2>4. PICK n : n = Len(o) + 1
    OBVIOUS
  <2>5. /\ calls' \in Seq(Call) /\ DOMAIN calls' = DOMAIN o \cup {n}
        /\ calls'[n] = c /\ \A k \in DOMAIN o : calls'[k] = o[k]
    BY <1>2, <2>2, <2>3, <2>4
  <2>6. \A k \in DOMAIN o : o[k].by = c.by => c.by = NoTask
    BY <1>3, <2>2 DEF OneCallEach
  <2>7. OneCallEach'
    <3> SUFFICES ASSUME NEW k \in DOMAIN calls', NEW m \in DOMAIN calls',
                        calls'[k].by = calls'[m].by, calls'[k].by # NoTask
                 PROVE  k = m
      BY DEF OneCallEach
    <3>1. CASE k \in DOMAIN o /\ m \in DOMAIN o
      BY <1>5, <2>5, <3>1
    <3>2. CASE k = n /\ m \in DOMAIN o
      BY <2>5, <2>6, <3>2
    <3>3. CASE m = n /\ k \in DOMAIN o
      BY <2>5, <2>6, <3>3
    <3> QED
      BY <2>5, <3>1, <3>2, <3>3
  <2>8. \A k \in DOMAIN calls' :
          \/ \E j \in DOMAIN calls : j # i /\ calls'[k] = calls[j]
          \/ calls'[k] = Severing(i)
    BY <1>3, <2>1, <2>5
  <2>9. \A j \in DOMAIN calls : j # i => \E k \in DOMAIN calls' : calls'[k] = calls[j]
    <3> SUFFICES ASSUME NEW j \in DOMAIN calls, j # i
                 PROVE  \E k \in DOMAIN calls' : calls'[k] = calls[j]
      OBVIOUS
    <3>1. PICK k \in DOMAIN o : o[k] = calls[j]
      BY <1>4
    <3> QED
      BY <2>5, <3>1
  <2> QED
    BY <1>7, <2>5, <2>7, <2>8, <2>9 DEF CallsType
<1> QED
  BY <1>6, <1>7 DEF Made

\* The answer is its task's, and the rest of the task as it was.
LEMMA Answered ==
  ASSUME IInv, NEW i \in DOMAIN calls, NEW r \in Replies, Answer(i, r)
  PROVE  /\ Made(i)
         /\ \A t \in Tasks :
              /\ task'[t].step = task[t].step /\ task'[t].link = task[t].link
              /\ task'[t].reply = IF t = calls[i].by THEN r ELSE task[t].reply
              /\ t # calls[i].by => task'[t] = task[t]
<1>1. task \in [Tasks -> TaskState] /\ NoTask \notin Tasks
  BY TypeParts, VciAssumption DEF IInv, TaskType
<1> QED
  BY <1>1 DEF Answer, Made, TaskState

\* What is common to the calls.  Only the creation opens a link, and a link
\* that is destroyed or refused is not open.
LEMMA CallStep ==
  ASSUME IInv, NEW i \in DOMAIN calls, Made(i), NEW r \in Replies,
         UNCHANGED <<object, forsaken>>, unreleased \subseteq unreleased',
         \/ UNCHANGED task
         \/ \A t \in Tasks :
              /\ task'[t].step = task[t].step /\ task'[t].link = task[t].link
              /\ task'[t].reply = IF t = calls[i].by THEN r ELSE task[t].reply
              /\ t # calls[i].by => task'[t] = task[t],
         \A l \in Links : link[l] # "none" => link'[l] # "none",
         \A l \in Links : link'[l] = "open" =>
           \/ link[l] = "open"
           \/ calls[i].kind = "create" /\ calls[i].link = l,
         \A l \in Links : l = calls[i].link =>
           /\ calls[i].kind = "create" /\ r = "error" => link'[l] # "open"
           /\ calls[i].kind = "destroy" => link'[l] # "open" \/ Forsaken(l)'
  PROVE  Links5'
<1>1. /\ CallsType /\ CallsOwned /\ OneCallEach /\ TasksApart /\ LeftClosed
      /\ LinkAccounted /\ NoTask \notin Tasks /\ NoLink \notin Links
      /\ \A t \in Tasks : task[t].link \in Links \cup {NoLink}
  BY TypeParts, VciAssumption DEF IInv, TaskType, TaskState
<1>2. /\ OneCallEach'
      /\ \A k \in DOMAIN calls' :
           \/ \E j \in DOMAIN calls : j # i /\ calls'[k] = calls[j]
           \/ /\ calls'[k] = Severing(i)
              /\ calls[i].kind = "destruct" /\ UNCHANGED task
      /\ \A j \in DOMAIN calls : j # i => \E k \in DOMAIN calls' : calls'[k] = calls[j]
  BY <1>1, MadeCalls
<1>3. calls[i] \in Call /\ Owned(calls[i])
  BY <1>1 DEF CallsType, CallsOwned
<1>4. \A t \in Tasks : /\ task'[t].step = task[t].step /\ task'[t].link = task[t].link
                       /\ t # calls[i].by => task'[t].reply = task[t].reply
                       /\ task'[t].reply # task[t].reply => task'[t].reply = r
  OBVIOUS
<1>5. CallsOwned'
  <2> SUFFICES ASSUME NEW k \in DOMAIN calls', NEW c, c = calls'[k]
               PROVE  Owned(c)'
    BY DEF CallsOwned
  <2>1. ASSUME NEW j \in DOMAIN calls, j # i, c = calls[j]
        PROVE  Owned(c)'
    <3>1. Owned(c) /\ (c.by # NoTask => c.by # calls[i].by)
      BY <1>1, <2>1 DEF CallsOwned, OneCallEach
    <3> QED
      BY <1>1, <1>4, <3>1 DEF Owned
  <2>2. CASE c = Severing(i) /\ calls[i].kind = "destruct" /\ UNCHANGED task
    <3>1. /\ c.kind = "sever" /\ c.by = calls[i].by /\ c.link = calls[i].link
      <4>1. PICK d \in Call : d = calls[i]
        BY <1>3
      <4>2. c = [d EXCEPT !.kind = "sever"]
        BY <2>2, <4>1 DEF Severing
      <4> QED
        BY <4>1, <4>2 DEF Call
    <3>2. c.by \in Tasks => task[c.by].step \notin Linked
      BY <1>3, <2>2, <3>1 DEF Owned, Linked, CallOf
    <3> QED
      BY <1>1, <1>3, <2>2, <3>1, <3>2 DEF Owned
  <2> QED
    BY <1>2, <2>1, <2>2
<1>6. TasksApart'
  BY <1>1, <1>4 DEF TasksApart
<1>7. ASSUME NEW l \in Links, link'[l] = "open", link[l] # "open"
      PROVE  Forsaken(l) \/ \E u \in Tasks : /\ u = calls[i].by /\ task[u].link = l
                                             /\ task[u].step = "create"
  BY <1>3, <1>7 DEF Owned, Call, Forsaken
<1>8. LeftClosed'
  <2> SUFFICES ASSUME NEW t \in Tasks,
                      \/ task'[t].step = "undo" /\ task'[t].reply # "none"
                      \/ task'[t].step = "create" /\ task'[t].reply = "error",
                      NEW l \in Links, l = task'[t].link, link'[l] = "open"
               PROVE  Forsaken(l)'
    BY DEF LeftClosed
  <2>1. task[t].link = l
    BY <1>4
  <2>2. CASE task'[t].reply = task[t].reply
    <3>1. Forsaken(l) \/ link[l] # "open"
      BY <1>1, <1>4, <2>1, <2>2 DEF LeftClosed
    <3>2. CASE link[l] # "open" /\ ~Forsaken(l)
      <4>1. PICK u \in Tasks : /\ u = calls[i].by /\ task[u].link = l
                               /\ task[u].step = "create"
        BY <1>7, <3>2
      <4>2. u = t
        BY <1>1, <2>1, <4>1 DEF TasksApart
      <4>3. task[t].reply = "none"
        BY <1>3, <4>1, <4>2 DEF Owned
      <4> QED
        BY <1>4, <2>2, <4>1, <4>2, <4>3
    <3> QED
      BY <3>1, <3>2 DEF Forsaken
  <2>3. CASE task'[t].reply # task[t].reply
    <3>1. t = calls[i].by /\ task'[t].reply = r /\ calls[i].link = l
      BY <1>3, <1>4, <2>1, <2>3 DEF Owned
    <3>2. calls[i].kind = CallOf(task[t].step)
      BY <1>3, <1>4, <3>1 DEF Owned, Linked
    <3> QED
      BY <1>4, <3>1, <3>2 DEF CallOf
  <2> QED
    BY <2>2, <2>3
<1>9. LinkAccounted'
  <2> SUFFICES ASSUME NEW l \in Links, link'[l] = "open"
               PROVE  \/ object[l] = "alive" \/ \E u \in Tasks : task'[u].link = l
                      \/ DestroyAsked(l)' \/ Forsaken(l)'
    BY DEF LinkAccounted, DestroyAsked, Forsaken
  <2>3. Forsaken(l) => Forsaken(l)'
    BY DEF Forsaken
  <2>1. CASE link[l] # "open"
    BY <1>4, <1>7, <2>1, <2>3
  <2>2. CASE link[l] = "open"
    <3>1. \/ object[l] = "alive" \/ \E u \in Tasks : task[u].link = l
          \/ DestroyAsked(l) \/ Forsaken(l)
      BY <1>1, <2>2 DEF LinkAccounted, DestroyAsked, Forsaken
    <3>2. DestroyAsked(l) => DestroyAsked(l)' \/ Forsaken(l)'
      <4> SUFFICES ASSUME NEW j \in DOMAIN calls, calls[j].kind = "destroy",
                          calls[j].link = l, ~Forsaken(l)'
                   PROVE  DestroyAsked(l)'
        BY DEF DestroyAsked
      <4>1. j # i
        OBVIOUS
      <4>2. PICK k \in DOMAIN calls' : calls'[k] = calls[j]
        BY <1>2, <4>1
      <4> QED
        BY <4>2 DEF DestroyAsked
    <3> QED
      BY <1>4, <2>3, <3>1, <3>2
  <2> QED
    BY <2>1, <2>2
<1> QED
  BY <1>2, <1>5, <1>6, <1>8, <1>9 DEF Links5

\* A call that changes no link.
LEMMA PlainCall ==
  ASSUME IInv, NEW i \in DOMAIN calls, Made(i), NEW r \in Replies,
         calls[i].kind \notin {"create", "destroy"},
         UNCHANGED <<object, link, forsaken>>, unreleased \subseteq unreleased',
         UNCHANGED task \/ Answer(i, r)
  PROVE  Links5'
<1>1. CASE UNCHANGED task
  BY <1>1, CallStep
<1>2. CASE Answer(i, r)
  <2>1. \A t \in Tasks :
          /\ task'[t].step = task[t].step /\ task'[t].link = task[t].link
          /\ task'[t].reply = IF t = calls[i].by THEN r ELSE task[t].reply
          /\ t # calls[i].by => task'[t] = task[t]
    BY <1>2, Answered
  <2> QED
    BY <2>1, CallStep
<1> QED
  BY <1>1, <1>2

LEMMA CallLinks ==
  ASSUME IInv, MakeCall
  PROVE  Links5'
<1>1. PICK i \in Due :
        \/ ModuleIds(i) \/ GetStatus(i) \/ ModuleConnect(i) \/ ModuleDisconnect(i)
        \/ CreateLinkCall(i) \/ RegisterCallback(i) \/ DestroyLink(i)
        \/ DestructModule(i) \/ Sever(i)
  BY DEF MakeCall
<1>2. i \in DOMAIN calls
  BY <1>1 DEF Due
<1>3. /\ UNCHANGED object
      /\ link \in [Links -> {"none", "asked", "refused", "open", "gone"}]
  BY TypeParts DEF MakeCall, objects, IInv, DriverType
<1>4. \A r \in Replies : Answer(i, r) => Made(i)
  BY <1>2, Answered
<1>5. CASE \/ ModuleIds(i) \/ GetStatus(i) \/ ModuleConnect(i) \/ ModuleDisconnect(i)
           \/ RegisterCallback(i)
  <2>1. \E r \in Replies : Answer(i, r)
    BY <1>5 DEF ModuleIds, GetStatus, ModuleConnect, ModuleDisconnect,
       RegisterCallback, Replies
  <2>2. /\ calls[i].kind \notin {"create", "destroy"}
        /\ UNCHANGED <<link, forsaken, unreleased>>
    BY <1>5 DEF ModuleIds, GetStatus, ModuleConnect, ModuleDisconnect,
       RegisterCallback, history
  <2> QED
    BY <1>2, <1>3, <1>4, <2>1, <2>2, PlainCall
<1>6. CASE DestructModule(i) \/ Sever(i)
  <2>1. /\ calls[i].kind \notin {"create", "destroy"} /\ UNCHANGED <<link, forsaken, task>>
        /\ unreleased \subseteq unreleased'
    BY <1>6 DEF DestructModule, Sever, history
  <2>2. Made(i)
    BY <1>6 DEF DestructModule, Sever, Made, Severing
  <2>3. "ok" \in Replies
    BY DEF Replies
  <2> QED
    BY <1>2, <1>3, <2>1, <2>2, <2>3, PlainCall
<1>7. CASE CreateLinkCall(i)
  <2>1. PICK r \in {"ok", "error"} :
          /\ Answer(i, r) /\ UNCHANGED <<forsaken, unreleased>>
          /\ calls[i].kind = "create"
          /\ link' = [link EXCEPT ![calls[i].link] = IF r = "ok" THEN "open" ELSE "refused"]
    BY <1>7 DEF CreateLinkCall, history
  <2>2. r \in Replies
    BY <2>1 DEF Replies
  <2>3. \A t \in Tasks :
          /\ task'[t].step = task[t].step /\ task'[t].link = task[t].link
          /\ task'[t].reply = IF t = calls[i].by THEN r ELSE task[t].reply
          /\ t # calls[i].by => task'[t] = task[t]
    BY <1>2, <2>1, <2>2, Answered
  <2>4. /\ \A l \in Links : link[l] # "none" => link'[l] # "none"
        /\ \A l \in Links : link'[l] = "open" => link[l] = "open" \/ calls[i].link = l
        /\ \A l \in Links : l = calls[i].link /\ r = "error" => link'[l] # "open"
    BY <1>3, <2>1
  <2> QED
    BY <1>2, <1>3, <1>4, <2>1, <2>2, <2>3, <2>4, CallStep
<1>8. CASE DestroyLink(i)
  <2>1. PICK r \in {"ok", "error"} :
          /\ Answer(i, r) /\ UNCHANGED forsaken /\ calls[i].kind = "destroy"
          /\ \/ link' = [link EXCEPT ![calls[i].link] = "gone"] /\ UNCHANGED unreleased
             \/ unreleased' = unreleased \cup {calls[i].link} /\ UNCHANGED link
    BY <1>8 DEF DestroyLink
  <2>2. r \in Replies
    BY <2>1 DEF Replies
  <2>3. \A t \in Tasks :
          /\ task'[t].step = task[t].step /\ task'[t].link = task[t].link
          /\ task'[t].reply = IF t = calls[i].by THEN r ELSE task[t].reply
          /\ t # calls[i].by => task'[t] = task[t]
    BY <1>2, <2>1, <2>2, Answered
  <2>4. /\ \A l \in Links : link[l] # "none" => link'[l] # "none"
        /\ \A l \in Links : link'[l] = "open" => link[l] = "open"
        /\ \A l \in Links : l = calls[i].link => link'[l] # "open" \/ Forsaken(l)'
        /\ unreleased \subseteq unreleased'
    BY <1>3, <2>1 DEF Forsaken
  <2> QED
    BY <1>2, <1>3, <1>4, <2>1, <2>2, <2>3, <2>4, CallStep
<1> QED
  BY <1>1, <1>5, <1>6, <1>7, <1>8

LEMMA CallTypes ==
  ASSUME IInv, MakeCall
  PROVE  TypeOK'
<1>1. PICK i \in Due :
        \/ ModuleIds(i) \/ GetStatus(i) \/ ModuleConnect(i) \/ ModuleDisconnect(i)
        \/ CreateLinkCall(i) \/ RegisterCallback(i) \/ DestroyLink(i)
        \/ DestructModule(i) \/ Sever(i)
  BY DEF MakeCall
<1>2. i \in DOMAIN calls
  BY <1>1 DEF Due
<1>3. /\ CallsType /\ TaskType /\ ObjectsType /\ DriverType /\ RestType /\ OneCallEach
      /\ UNCHANGED <<objects, begun>>
  BY TypeParts DEF IInv, MakeCall
<1>4. calls[i] \in Call /\ (calls[i].by \in Tasks => task[calls[i].by].step # "idle")
  BY <1>2, <1>3 DEF CallsType, IInv, CallsOwned, Owned
<1>5. ObjectsType' /\ begun' \in [Tasks -> 0 .. MaxCalls]
  BY <1>3 DEF ObjectsType, RestType, objects
<1>6. CallsType' /\ TaskType'
  <2>1. ASSUME NEW r \in Replies, Answer(i, r)
        PROVE  CallsType' /\ TaskType'
    BY <1>2, <1>3, <1>4, <2>1, AnswerType
  <2>2. CASE DestructModule(i) \/ Sever(i)
    <3>1. Made(i) /\ UNCHANGED task
      BY <2>2 DEF DestructModule, Sever, Made, Severing
    <3> QED
      BY <1>2, <1>3, <3>1, MadeCalls DEF TaskType
  <2>3. CASE ~(DestructModule(i) \/ Sever(i))
    <3>1. \E r \in Replies : Answer(i, r)
      BY <1>1, <2>3 DEF ModuleIds, GetStatus, ModuleConnect, ModuleDisconnect,
         CreateLinkCall, RegisterCallback, DestroyLink, Replies
    <3> QED
      BY <2>1, <3>1
  <2> QED
    BY <2>2, <2>3
<1>7. fails' \in 0 .. MaxFails
  <2>1. UNCHANGED fails \/ Fails
    BY <1>1 DEF ModuleIds, GetStatus, ModuleConnect, ModuleDisconnect, CreateLinkCall,
       RegisterCallback, DestroyLink, DestructModule, Sever, Fails
  <2> QED
    BY <1>3, <2>1, VciAssumption DEF DriverType, Fails
<1>8. link' \in [Links -> {"none", "asked", "refused", "open", "gone"}]
  BY <1>1, <1>3 DEF ModuleIds, GetStatus, ModuleConnect, ModuleDisconnect,
     CreateLinkCall, RegisterCallback, DestroyLink, DestructModule, Sever, DriverType
<1>9. module' \in ModuleStatus
  BY <1>1, <1>3 DEF ModuleIds, GetStatus, ModuleConnect, ModuleDisconnect,
     CreateLinkCall, RegisterCallback, DestroyLink, DestructModule, Sever, DriverType,
     ModuleStatus
<1>10. connector' \in Vcis \cup {NoVci} /\ direct' \in BOOLEAN /\ forsaken' \subseteq Links
  <2>1. calls[i].vci \in Vcis \cup {NoVci}
    BY <1>4 DEF Call
  <2>2. /\ connector' \in {connector, calls[i].vci} /\ UNCHANGED forsaken
        /\ UNCHANGED direct \/ direct' = ~calls[i].queued
    BY <1>1 DEF ModuleIds, GetStatus, ModuleConnect, ModuleDisconnect, CreateLinkCall,
       RegisterCallback, DestroyLink, DestructModule, Sever, history
  <2> QED
    BY <1>3, <2>1, <2>2 DEF RestType
<1>11. unreleased' \subseteq Vcis \cup Links
  <2>1. CASE DestructModule(i) \/ Sever(i)
    <3>1. unreleased' \subseteq unreleased \cup {calls[i].vci}
      BY <2>1 DEF DestructModule, Sever
    <3>2. calls[i].vci \in Vcis
      BY <1>4, <2>1 DEF DestructModule, Sever, Call
    <3> QED
      BY <1>3, <3>1, <3>2 DEF RestType
  <2>2. CASE DestroyLink(i)
    <3>1. calls[i].link \in Links /\ unreleased' \subseteq unreleased \cup {calls[i].link}
      BY <1>4, <2>2 DEF DestroyLink, Call
    <3> QED
      BY <1>3, <3>1 DEF RestType
  <2>3. CASE ~(DestructModule(i) \/ Sever(i) \/ DestroyLink(i))
    <3>1. UNCHANGED unreleased
      BY <1>1, <2>3 DEF ModuleIds, GetStatus, ModuleConnect, ModuleDisconnect,
         CreateLinkCall, RegisterCallback, history
    <3> QED
      BY <1>3, <3>1 DEF RestType
  <2> QED
    BY <2>1, <2>2, <2>3
<1> QED
  BY <1>5, <1>6, <1>7, <1>8, <1>9, <1>10, <1>11, TypeParts DEF DriverType, RestType

-----------------------------------------------------------------------------
(***************************************************************************)
(* The handle's entry.                                                     *)
(***************************************************************************)
LEMMA EntryKept ==
  ASSUME IInv, [Next]_vars
  PROVE  ListedIsFound'
<1>1. ListedIsFound /\ NoVci \notin Vcis /\ vci \in [Vcis -> {"none", "alive", "dropped"}]
  BY TypeParts, VciAssumption DEF IInv, ObjectsType
<1>2. CASE UNCHANGED <<vci, entry>>
  BY <1>1, <1>2 DEF ListedIsFound
<1>3. ASSUME NEW t \in Tasks, MakeList(t)
      PROVE  ListedIsFound'
  <2>1. PICK v \in Vcis :
          /\ vci[v] = "none" /\ RegisterModule(v)
          /\ \/ entry' = v /\ vci' = [vci EXCEPT ![v] = "alive"]
             \/ vci' = [vci EXCEPT ![v] = "dropped"]
    BY <1>3 DEF MakeList
  <2>2. \A w \in Vcis : vci'[w] = "alive" =>
          \/ entry = w
          \/ entry' = v /\ w = v
    BY <1>1, <2>1 DEF ListedIsFound
  <2>3. entry = NoVci \/ entry' = entry
    BY <2>1 DEF RegisterModule
  <2> QED
    BY <1>1, <2>2, <2>3 DEF ListedIsFound
<1>4. ASSUME NEW v \in Vcis, DropVci(v)
      PROVE  ListedIsFound'
  BY <1>1, <1>4 DEF DropVci, ListedIsFound
<1>5. CASE Collect
  BY <1>1, <1>5 DEF Collect, Collectable, ListedIsFound
<1>6. ASSUME NEW t \in Tasks, Task(t), ~MakeList(t)
      PROVE  UNCHANGED <<vci, entry>>
  <2>1. CASE Resume(t)
    BY <1>6, <2>1 DEF Resume, ActOnStatus, Register, HandOut, Undo, Over, objects
  <2>2. CASE ~Resume(t)
    BY <1>6, <2>2 DEF Task, List, Connect, Disconnect, CreateLink, Begin, Abandon, objects
  <2> QED
    BY <2>1, <2>2
<1>7. MakeCall \/ Environment \/ UNCHANGED vars \/ (\E l \in Links : DropLink(l))
      => UNCHANGED <<vci, entry>>
  BY DEF MakeCall, Environment, DropLink, vars, objects
<1> QED
  BY <1>2, <1>3, <1>4, <1>5, <1>6, <1>7 DEF Next

-----------------------------------------------------------------------------
(***************************************************************************)
(* Every step.                                                             *)
(***************************************************************************)
LEMMA TaskStep ==
  ASSUME IInv, NEW t \in Tasks, Task(t)
  PROVE  TypeOK' /\ Links5'
<1>1. /\ TypeOK /\ NoVci \in Vcis \cup {NoVci} /\ NoLink \in Links \cup {NoLink}
      /\ Vcis \subseteq Vcis \cup {NoVci} /\ Links \subseteq Links \cup {NoLink}
  BY DEF IInv
<1>2. ASSUME NEW s \in {"list", "connect_status", "disconnect_status"},
             NEW k \in {"ids", "status"}, NEW v \in Vcis \cup {NoVci}, NEW q \in BOOLEAN,
             Begin(t, q, s, v, NoLink, k), UNCHANGED link
      PROVE  TypeOK' /\ Links5'
  <2>1. /\ s \in Steps \ ({"idle"} \cup Linked)
        /\ k \in TaskKinds \ {"create", "destroy"}
    BY DEF Steps, Linked, Kinds, TaskKinds
  <2>2. s \in Steps \ {"idle"} /\ k \in TaskKinds \ {"destroy"}
    BY <2>1
  <2> QED
    BY <1>1, <1>2, <2>1, <2>2, BeginType, BeginStep
<1>3. ASSUME NEW q \in BOOLEAN, List(t, q)
      PROVE  TypeOK' /\ Links5'
  BY <1>1, <1>2, <1>3 DEF List
<1>4. CASE Abandon(t)
  BY <1>1, <1>4, AbandonType, AbandonStep
<1>5. CASE Resume(t)
  <2>1. task[t].step \in {"register", "undo"} => task[t].link # NoLink
    BY DEF IInv, TasksApart, Linked
  <2> QED
    BY <1>1, <1>5, <2>1, ResumeType, ResumeStep
<1>6. ASSUME NEW q \in BOOLEAN, NEW v \in Vcis, Connect(t, q, v) \/ Disconnect(t, q, v)
      PROVE  TypeOK' /\ Links5'
  BY <1>1, <1>2, <1>6 DEF Connect, Disconnect
<1>7. ASSUME NEW q \in BOOLEAN, NEW v \in Vcis, NEW l \in Links, CreateLink(t, q, v, l)
      PROVE  TypeOK' /\ Links5'
  <2>1. "create" \in Steps \ {"idle"} /\ "create" \in TaskKinds \ {"destroy"}
    BY DEF Steps, Kinds, TaskKinds
  <2>2. v \in Vcis \cup {NoVci} /\ l \in Links \cup {NoLink}
    OBVIOUS
  <2>3. Begin(t, q, "create", v, l, "create") /\ link' = [link EXCEPT ![l] = "asked"]
    BY <1>7 DEF CreateLink
  <2> QED
    BY <1>1, <1>7, <2>1, <2>2, <2>3, BeginType, CreateStep
<1> QED
  BY <1>3, <1>4, <1>5, <1>6, <1>7 DEF Task

LEMMA ObjectStep ==
  ASSUME IInv, \/ \E v \in Vcis : DropVci(v)
               \/ \E l \in Links : DropLink(l)
               \/ Collect \/ Environment \/ UNCHANGED vars
  PROVE  TypeOK' /\ Links5'
<1>1. /\ CallsType /\ TaskType /\ ObjectsType /\ DriverType /\ RestType
      /\ UNCHANGED <<task, link, forsaken, begun, fails, connector, direct, unreleased>>
  BY TypeParts DEF IInv, DropVci, DropLink, Collect, Environment, vars, history
<1>2. TaskType' /\ RestType'
  BY <1>1 DEF TaskType, RestType
<1>3. ASSUME NEW v \in Vcis, DropVci(v)
      PROVE  TypeOK' /\ Links5'
  <2>1. PICK c \in Call : c = Destructor(v, v \in served)
    BY CallsOfDrops
  <2>2. /\ calls' = Append(calls, c) /\ c.by = NoTask /\ c.kind # "create"
        /\ UNCHANGED <<object, module>>
    BY <1>3, <2>1 DEF DropVci, Destructor
  <2>3. CallsType'
    BY <1>1, <2>2, PutType
  <2>4. ObjectsType' /\ DriverType'
    BY <1>1, <1>3, <2>2 DEF DropVci, ObjectsType, DriverType
  <2> QED
    BY <1>1, <1>2, <2>2, <2>3, <2>4, TypeParts, DropStep
<1>4. ASSUME NEW l \in Links, DropLink(l)
      PROVE  TypeOK' /\ Links5'
  <2>1. PICK c \in Call : c = Destroy(l, l \in served)
    BY CallsOfDrops
  <2>2. /\ calls' = Append(calls, c) /\ c.by = NoTask /\ c.kind = "destroy" /\ c.link = l
        /\ object' = [object EXCEPT ![l] = "dropped"] /\ UNCHANGED module
    BY <1>4, <2>1 DEF DropLink, Destroy
  <2>3. CallsType'
    BY <1>1, <2>2, PutType
  <2>4. ObjectsType' /\ DriverType'
    BY <1>1, <1>4, <2>2 DEF DropLink, ObjectsType, DriverType
  <2>5. DestroyAsked(l)'
    <3>1. Len(calls) + 1 \in DOMAIN calls' /\ calls'[Len(calls) + 1] = c
      BY <1>1, <2>2 DEF CallsType
    <3> QED
      BY <2>2, <3>1 DEF DestroyAsked
  <2>6. \A x \in Links : object[x] = "alive" => object'[x] = "alive" \/ DestroyAsked(x)'
    BY <1>1, <2>2, <2>5 DEF ObjectsType
  <2> QED
    BY <1>1, <1>2, <2>2, <2>3, <2>4, <2>6, TypeParts, DropStep
<1>5. CASE Collect \/ Environment \/ UNCHANGED vars
  <2>1. UNCHANGED <<calls, object>>
    BY <1>5 DEF Collect, Environment, vars, objects
  <2>2. ObjectsType' /\ CallsType'
    BY <1>1, <1>5, <2>1 DEF Collect, Environment, vars, objects, ObjectsType, CallsType
  <2>3. module' \in ModuleStatus
    <3>1. UNCHANGED module \/ Environment
      BY <1>5 DEF Collect, vars
    <3> QED
      BY <1>1, <3>1 DEF Environment, DriverType, ModuleStatus
  <2>4. DriverType'
    BY <1>1, <2>3 DEF DriverType
  <2> QED
    BY <1>1, <1>2, <2>1, <2>2, <2>4, TypeParts, DropStep
<1> QED
  BY <1>3, <1>4, <1>5

LEMMA NextIInv ==
  ASSUME IInv, [Next]_vars
  PROVE  IInv'
<1>1. TypeOK' /\ Links5'
  <2>1. CASE MakeCall
    BY <2>1, CallTypes, CallLinks
  <2>2. ASSUME NEW t \in Tasks, Task(t)
        PROVE  TypeOK' /\ Links5'
    BY <2>2, TaskStep
  <2>3. CASE \/ \E v \in Vcis : DropVci(v)
             \/ \E l \in Links : DropLink(l)
             \/ Collect \/ Environment \/ UNCHANGED vars
    BY <2>3, ObjectStep
  <2> QED
    BY <2>1, <2>2, <2>3 DEF Next
<1> QED
  BY <1>1, EntryKept DEF IInv, Links5

LEMMA Invariant == Spec => []IInv
<1>1. Init => IInv
  BY InitIInv
<1>2. IInv /\ [Next]_vars => IInv'
  BY NextIInv
<1> QED
  BY <1>1, <1>2, PTL DEF Spec

-----------------------------------------------------------------------------
(***************************************************************************)
(* What the queued destructors disconnect.  A PduVci is listed when none   *)
(* is in use, and by then the destructors of those before it are asked     *)
(* for: none of them is behind a connect() of the PduVci in use that the   *)
(* worker is to make, and once the worker has connected the module none is *)
(* left.  It takes that nothing refers to a PduVci before it is listed.    *)
(***************************************************************************)
Listed(v) == v \in Vcis /\ vci[v] # "none"
ListedNext(v) == v \in Vcis /\ vci'[v] # "none"

OnlyListed ==
  /\ \A i \in DOMAIN calls : calls[i].kind = "connect" => Listed(calls[i].vci)
  /\ \A t \in Tasks : task[t].step = "connect_status" => Listed(task[t].vci)
  /\ connector # NoVci => Listed(connector)
  /\ module \in {"ready", "not_ready"} => connector # NoVci

NoneSevered == \A i \in DOMAIN calls : calls[i].kind = "sever" => ~calls[i].queued

DestructFirst ==
  ~list_panicked =>
    \A j \in DOMAIN calls : calls[j].kind = "destruct" /\ calls[j].queued =>
      /\ connector # NoVci /\ ~direct => vci[connector] # "alive"
      /\ \A i \in DOMAIN calls :
           /\ calls[i].kind = "connect" /\ calls[i].queued
           /\ vci[calls[i].vci] = "alive"
           => j < i

SpareInv == OnlyListed /\ NoneSevered /\ DestructFirst

LEMMA InitSpare == Init => SpareInv
BY DEF Init, SpareInv, OnlyListed, NoneSevered, DestructFirst, Idle

\* How the queue changes in a step of a task: nothing or the task waiting for
\* a call changes, or one is put at its end.
SameQueue ==
  /\ DOMAIN calls' = DOMAIN calls
  /\ \A i \in DOMAIN calls : /\ calls'[i].kind = calls[i].kind
                             /\ calls'[i].vci = calls[i].vci
                             /\ calls'[i].queued = calls[i].queued

Puts(c) ==
  /\ calls' = Append(calls, c) /\ c.kind # "sever"
  /\ c.kind = "connect" =>
       \E t \in Tasks : task[t].step = "connect_status" /\ c.vci = task[t].vci

AsksStatusFor(t) ==
  \/ task[t].step = "connect_status" /\ task'[t].vci = task[t].vci
  \/ task'[t].vci \in Vcis /\ vci[task'[t].vci] = "alive"

LEMMA BeginQueue ==
  ASSUME IInv, NEW t \in Tasks, NEW q \in BOOLEAN, NEW s \in Steps,
         NEW v \in Vcis \cup {NoVci}, NEW l \in Links \cup {NoLink},
         NEW k \in {"ids", "status", "create"}, Begin(t, q, s, v, l, k), s = "connect_status" => v \in Vcis /\ vci[v] = "alive"
  PROVE  /\ UNCHANGED <<module, connector, direct, vci, list_panicked>>
         /\ \E c \in Call : Puts(c) /\ c.kind # "destruct"
         /\ \A u \in Tasks : task'[u].step = "connect_status" => AsksStatusFor(u)
<1>1. UNCHANGED <<module, connector, direct, vci, list_panicked>>
  BY DEF Begin, objects, history
<1>2. \E c \in Call : Puts(c) /\ c.kind # "destruct"
  <2>1. PICK c \in Call :
          c = [kind |-> k, vci |-> v, link |-> l, by |-> t, queued |-> q]
    <3>1. k \in TaskKinds \ {"destroy"} /\ t \in Tasks \cup {NoTask}
      BY DEF Kinds, TaskKinds
    <3> QED
      BY <3>1, CallsOfTasks
  <2>2. c.kind = k
    BY <2>1
  <2> QED
    BY <2>1, <2>2 DEF Puts, Begin
<1>3. \A u \in Tasks : task'[u].step = "connect_status" => AsksStatusFor(u)
  <2>1. PICK r : r = [Idle EXCEPT !.step = s, !.vci = v, !.link = l, !.queued = q]
    OBVIOUS
  <2>2. r.step = s /\ r.vci = v
    BY <2>1 DEF Idle
  <2>3. task \in [Tasks -> TaskState] /\ task' = [task EXCEPT ![t] = r]
    BY <2>1, TypeParts DEF IInv, TaskType, Begin
  <2> QED
    BY <2>2, <2>3 DEF AsksStatusFor
<1> QED
  BY <1>1, <1>2, <1>3

LEMMA AskQueue ==
  ASSUME IInv, NEW t \in Tasks, NEW s \in Steps, NEW k \in TaskKinds,
         Ask(t, s, k), k = "connect" => task[t].step = "connect_status",
         k = "destroy" => task[t].link # NoLink,
         s # "connect_status"
  PROVE  /\ \E c \in Call : Puts(c) /\ c.kind # "destruct"
         /\ \A u \in Tasks : task'[u].step = "connect_status" => AsksStatusFor(u)
<1>1. task \in [Tasks -> TaskState] /\ task[t] \in TaskState
  BY TypeParts DEF IInv, TaskType
<1>2. PICK c \in Call : c = [kind |-> k, vci |-> task[t].vci, link |-> task[t].link,
                             by |-> t, queued |-> task[t].queued]
  <2>1. /\ k \in TaskKinds /\ t \in Tasks \cup {NoTask}
        /\ task[t].vci \in Vcis \cup {NoVci} /\ task[t].link \in Links \cup {NoLink}
        /\ task[t].queued \in BOOLEAN
    BY <1>1 DEF TaskState
  <2> QED
    BY <2>1, CallsOfTasks
<1>3. c.kind = k /\ c.vci = task[t].vci
  BY <1>2
<1>4. Puts(c) /\ c.kind # "destruct"
  BY <1>2, <1>3 DEF Puts, Ask, TaskKinds
<1>5. PICK r : r = [task[t] EXCEPT !.step = s, !.reply = "none"]
  OBVIOUS
<1>6. task' = [task EXCEPT ![t] = r] /\ r.step = s
  BY <1>1, <1>5 DEF Ask, TaskState
<1> QED
  BY <1>1, <1>4, <1>6 DEF AsksStatusFor

LEMMA FinishQueue ==
  ASSUME IInv, NEW t \in Tasks, Finish(t)
  PROVE  \A u \in Tasks : task'[u].step = "connect_status" => AsksStatusFor(u)
<1>1. task \in [Tasks -> TaskState] /\ Idle.step # "connect_status"
  BY TypeParts DEF IInv, TaskType, Idle
<1> QED
  BY <1>1 DEF Finish, AsksStatusFor

LEMMA TaskQueue ==
  ASSUME IInv, NEW t \in Tasks, Task(t), ~(Resume(t) /\ MakeList(t))
  PROVE  /\ UNCHANGED <<module, connector, direct, vci, list_panicked>>
         /\ SameQueue \/ \E c \in Call : Puts(c) /\ c.kind # "destruct"
         /\ \A u \in Tasks : task'[u].step = "connect_status" => AsksStatusFor(u)
<1>1. /\ CallsType /\ task \in [Tasks -> TaskState] /\ task[t] \in TaskState
      /\ NoVci \in Vcis \cup {NoVci} /\ NoLink \in Links \cup {NoLink}
      /\ Vcis \subseteq Vcis \cup {NoVci} /\ Links \subseteq Links \cup {NoLink}
  BY TypeParts DEF IInv, TaskType
<1>2. UNCHANGED calls => SameQueue
  BY DEF SameQueue
<1>3. ASSUME NEW q \in BOOLEAN, List(t, q)
      PROVE  /\ UNCHANGED <<module, connector, direct, vci, list_panicked>>
             /\ SameQueue \/ \E c \in Call : Puts(c) /\ c.kind # "destruct"
             /\ \A u \in Tasks : task'[u].step = "connect_status" => AsksStatusFor(u)
  <2>1. "list" \in Steps /\ "list" # "connect_status" /\ "ids" \in {"ids", "status", "create"}
    BY DEF Steps
  <2> QED
    BY <1>1, <1>3, <2>1, BeginQueue DEF List
<1>4. ASSUME NEW q \in BOOLEAN, NEW v \in Vcis, Connect(t, q, v) \/ Disconnect(t, q, v)
      PROVE  /\ UNCHANGED <<module, connector, direct, vci, list_panicked>>
             /\ SameQueue \/ \E c \in Call : Puts(c) /\ c.kind # "destruct"
             /\ \A u \in Tasks : task'[u].step = "connect_status" => AsksStatusFor(u)
  <2>1. PICK s \in {"connect_status", "disconnect_status"} :
          Begin(t, q, s, v, NoLink, "status") /\ vci[v] = "alive"
    BY <1>4 DEF Connect, Disconnect, Usable
  <2>2. s \in Steps /\ "status" \in {"ids", "status", "create"} /\ v \in Vcis \cup {NoVci}
    BY DEF Steps
  <2> QED
    BY <1>1, <2>1, <2>2, BeginQueue
<1>5. ASSUME NEW q \in BOOLEAN, NEW v \in Vcis, NEW l \in Links, CreateLink(t, q, v, l)
      PROVE  /\ UNCHANGED <<module, connector, direct, vci, list_panicked>>
             /\ SameQueue \/ \E c \in Call : Puts(c) /\ c.kind # "destruct"
             /\ \A u \in Tasks : task'[u].step = "connect_status" => AsksStatusFor(u)
  <2>1. /\ "create" \in Steps /\ "create" # "connect_status"
        /\ "create" \in {"ids", "status", "create"}
        /\ v \in Vcis \cup {NoVci} /\ l \in Links \cup {NoLink}
    BY DEF Steps
  <2> QED
    BY <1>5, <2>1, BeginQueue DEF CreateLink, Usable
<1>6. CASE Abandon(t)
  <2>1. UNCHANGED <<module, connector, direct, vci, list_panicked>>
    BY <1>6 DEF Abandon, objects
  <2>2. SameQueue
    <3>1. CASE task[t].queued
      <4>1. \A i \in DOMAIN calls : calls[i] \in Call
        BY <1>1 DEF CallsType
      <4>2. \A c \in Call : /\ [c EXCEPT !.by = NoTask].kind = c.kind
                            /\ [c EXCEPT !.by = NoTask].vci = c.vci
                            /\ [c EXCEPT !.by = NoTask].queued = c.queued
        BY DEF Call
      <4> QED
        BY <1>6, <3>1, <4>1, <4>2 DEF Abandon, SameQueue
    <3>2. CASE ~task[t].queued
      BY <1>2, <1>6, <3>2 DEF Abandon
    <3> QED
      BY <3>1, <3>2
  <2>3. \A u \in Tasks : task'[u].step = "connect_status" => AsksStatusFor(u)
    <3>1. CASE task[t].queued
      BY <1>6, <3>1, FinishQueue DEF Abandon, Finish
    <3>2. CASE ~task[t].queued
      <4>1. PICK r : r = [task[t] EXCEPT !.orphan = TRUE]
        OBVIOUS
      <4>2. r.step = task[t].step /\ r.vci = task[t].vci
        BY <1>1, <4>1 DEF TaskState
      <4>3. task' = [task EXCEPT ![t] = r]
        BY <1>1, <1>6, <3>2, <4>1 DEF Abandon
      <4> QED
        BY <1>1, <4>2, <4>3 DEF AsksStatusFor
    <3> QED
      BY <3>1, <3>2
  <2> QED
    BY <2>1, <2>2, <2>3
<1>7. CASE Resume(t)
  <2>1. UNCHANGED <<module, connector, direct>>
    BY <1>7 DEF Resume
  <2>2. CASE ActOnStatus(t)
    <3>1. PICK k \in {"connect", "disconnect"} :
            Ask(t, k, k) /\ (k = "connect" => task[t].step = "connect_status")
      BY <2>2 DEF ActOnStatus
    <3>2. k \in Steps /\ k \in TaskKinds /\ k # "connect_status"
      BY DEF Steps, Kinds, TaskKinds
    <3> QED
      BY <2>1, <2>2, <3>1, <3>2, AskQueue DEF ActOnStatus, objects
  <2>3. CASE Register(t)
    <3>1. "register" \in Steps /\ "register" \in TaskKinds
      BY DEF Steps, Kinds, TaskKinds
    <3> QED
      BY <2>1, <2>3, <3>1, AskQueue DEF Register, objects
  <2>4. CASE HandOut(t)
    <3>1. Finish(t) /\ UNCHANGED <<vci, list_panicked>>
      BY <2>4 DEF HandOut
    <3>2. CASE UNCHANGED calls
      BY <1>2, <2>1, <3>1, <3>2, FinishQueue
    <3>3. CASE calls' = Append(calls, Destroy(task[t].link, task[t].vci \in served))
      <4>0. task[t].link \in Links
        BY <1>1, <2>4 DEF HandOut, IInv, TasksApart, Linked, TaskState
      <4>1. PICK c \in Call : c = Destroy(task[t].link, task[t].vci \in served)
        BY <4>0, CallsOfDrops
      <4>2. c.kind = "destroy"
        BY <4>1 DEF Destroy
      <4>3. Puts(c)
        BY <3>3, <4>1, <4>2 DEF Puts
      <4> QED
        BY <2>1, <3>1, <4>2, <4>3, FinishQueue
    <3> QED
      BY <2>4, <3>2, <3>3 DEF HandOut
  <2>5. CASE Undo(t)
    <3>1. UNCHANGED <<vci, list_panicked>>
      BY <2>5 DEF Undo, objects
    <3>2. CASE Finish(t) /\ UNCHANGED calls
      BY <1>2, <2>1, <3>1, <3>2, FinishQueue
    <3>3. CASE Ask(t, "undo", "destroy")
      <4>1. /\ "undo" \in Steps /\ "destroy" \in TaskKinds
            /\ task[t].link # NoLink
        BY <2>5 DEF Steps, Kinds, TaskKinds, Undo, IInv, TasksApart, Linked
      <4> QED
        BY <2>1, <3>1, <3>3, <4>1, AskQueue
    <3> QED
      BY <2>5, <3>2, <3>3 DEF Undo, GiveUp
  <2>6. CASE Over(t)
    BY <1>2, <2>1, <2>6, FinishQueue DEF Over, objects
  <2> QED
    BY <1>7, <2>2, <2>3, <2>4, <2>5, <2>6 DEF Resume
<1> QED
  BY <1>3, <1>4, <1>5, <1>6, <1>7 DEF Task

\* Every step but those of the driver: a PduVci that is referred to is listed
\* and does not come to life again.
LEMMA PutSpare ==
  ASSUME CallsType, SpareInv, UNCHANGED <<connector, direct>>,
         list_panicked => list_panicked',
         module' \in {"ready", "not_ready"} => module \in {"ready", "not_ready"},
         \A v \in Vcis : vci[v] # "none" =>
           vci'[v] # "none" /\ (vci'[v] = "alive" => vci[v] = "alive"),
         \/ SameQueue
         \/ \E c \in Call : /\ Puts(c)
                            /\ c.kind = "destruct" =>
                                 list_panicked' \/ \A v \in Vcis : vci'[v] # "alive",
         \A u \in Tasks : task'[u].step = "connect_status" => AsksStatusFor(u)
  PROVE  SpareInv'
<1>1. OnlyListed /\ NoneSevered /\ DestructFirst
  BY DEF SpareInv
<1>2. \A v : Listed(v) => ListedNext(v) /\ (vci'[v] = "alive" => vci[v] = "alive")
  BY DEF Listed, ListedNext
<1>3. /\ \A u \in Tasks : task'[u].step = "connect_status" => ListedNext(task'[u].vci)
      /\ connector' # NoVci => ListedNext(connector')
      /\ module' \in {"ready", "not_ready"} => connector' # NoVci
  <2>1. \A u \in Tasks : task'[u].step = "connect_status" => Listed(task'[u].vci)
    BY <1>1 DEF OnlyListed, AsksStatusFor, Listed
  <2> QED
    BY <1>1, <1>2, <2>1 DEF OnlyListed
<1>4. CASE SameQueue
  <2>1. \A i \in DOMAIN calls' : calls'[i].kind = "connect" => ListedNext(calls'[i].vci)
    BY <1>1, <1>2, <1>4 DEF OnlyListed, SameQueue
  <2>2. OnlyListed'
    BY <1>3, <2>1 DEF OnlyListed, Listed, ListedNext
  <2>3. NoneSevered'
    BY <1>1, <1>4 DEF NoneSevered, SameQueue
  <2>4. DestructFirst'
    BY <1>1, <1>2, <1>4 DEF DestructFirst, SameQueue, OnlyListed
  <2> QED
    BY <2>2, <2>3, <2>4 DEF SpareInv
<1>5. ASSUME NEW c \in Call, Puts(c),
             c.kind = "destruct" => list_panicked' \/ \A v \in Vcis : vci'[v] # "alive"
      PROVE  SpareInv'
  <2>1. PICK n : n = Len(calls) + 1
    OBVIOUS
  <2>2. /\ DOMAIN calls' = DOMAIN calls \cup {n} /\ calls'[n] = c
        /\ \A i \in DOMAIN calls : calls'[i] = calls[i] /\ i \in Nat /\ i < n /\ n \in Nat
    BY <1>5, <2>1 DEF CallsType, Puts
  <2>3. OnlyListed'
    <3>1. c.kind = "connect" => Listed(c.vci)
      BY <1>1, <1>5 DEF Puts, OnlyListed
    <3>2. \A i \in DOMAIN calls' : calls'[i].kind = "connect" => ListedNext(calls'[i].vci)
      BY <1>1, <1>2, <2>2, <3>1 DEF OnlyListed
    <3> QED
      BY <1>3, <3>2 DEF OnlyListed, Listed, ListedNext
  <2>4. NoneSevered'
    BY <1>1, <1>5, <2>2 DEF NoneSevered, Puts
  <2>5. DestructFirst'
    <3> SUFFICES ASSUME ~list_panicked', NEW j \in DOMAIN calls',
                        calls'[j].kind = "destruct", calls'[j].queued
                 PROVE  /\ connector' # NoVci /\ ~direct' => vci'[connector'] # "alive"
                        /\ \A i \in DOMAIN calls' :
                             /\ calls'[i].kind = "connect" /\ calls'[i].queued
                             /\ vci'[calls'[i].vci] = "alive"
                             => j < i
      BY DEF DestructFirst
    <3>1. CASE j = n
      <4>1. \A v \in Vcis : vci'[v] # "alive"
        BY <1>5, <2>2, <3>1
      <4> QED
        BY <1>3, <2>3, <4>1 DEF OnlyListed, Listed
    <3>2. CASE j # n
      <4>1. /\ j \in DOMAIN calls /\ calls[j].kind = "destruct" /\ j < n
            /\ calls[j].queued /\ ~list_panicked
        BY <2>2, <3>2
      <4>2. connector' # NoVci /\ ~direct' => vci'[connector'] # "alive"
        BY <1>1, <1>2, <4>1 DEF DestructFirst, OnlyListed
      <4>3. ASSUME NEW i \in DOMAIN calls', calls'[i].kind = "connect", calls'[i].queued,
                   vci'[calls'[i].vci] = "alive"
            PROVE  j < i
        <5>1. CASE i = n
          BY <4>1, <5>1
        <5>2. CASE i # n
          <6>1. /\ i \in DOMAIN calls /\ calls[i].kind = "connect" /\ calls[i].queued
                /\ calls'[i] = calls[i]
            BY <2>2, <4>3, <5>2
          <6>2. vci[calls[i].vci] = "alive"
            BY <1>1, <1>2, <4>3, <6>1 DEF OnlyListed
          <6> QED
            BY <1>1, <4>1, <6>1, <6>2 DEF DestructFirst
        <5> QED
          BY <5>1, <5>2
      <4> QED
        BY <4>2, <4>3
    <3> QED
      BY <3>1, <3>2
  <2> QED
    BY <2>3, <2>4, <2>5 DEF SpareInv
<1> QED
  BY <1>4, <1>5

LEMMA ListSpare ==
  ASSUME IInv, SpareInv, NEW t \in Tasks, Resume(t), MakeList(t)
  PROVE  SpareInv'
<1>1. CallsType /\ ListedIsFound /\ NoVci \notin Vcis
      /\ vci \in [Vcis -> {"none", "alive", "dropped"}] /\ task[t] \in TaskState
  BY TypeParts, VciAssumption DEF IInv, ObjectsType, TaskType
<1>2. UNCHANGED <<connector, direct, module>> /\ Finish(t)
  BY DEF Resume, MakeList
<1>3. \A u \in Tasks : task'[u].step = "connect_status" => AsksStatusFor(u)
  BY <1>2, FinishQueue
<1>4. PICK v \in Vcis :
        /\ vci[v] = "none" /\ RegisterModule(v)
        /\ \/ /\ vci' = [vci EXCEPT ![v] = "dropped"]
              /\ calls' = Append(calls, Destructor(v, task[t].queued))
           \/ vci' = [vci EXCEPT ![v] = "alive"] /\ UNCHANGED calls
  BY DEF MakeList
<1>5. list_panicked => list_panicked'
  BY <1>4 DEF RegisterModule
<1>6. \A w \in Vcis : vci[w] # "none" =>
        vci'[w] # "none" /\ (vci'[w] = "alive" => vci[w] = "alive")
  BY <1>1, <1>4
<1>7. \/ SameQueue
      \/ \E c \in Call : /\ Puts(c)
                         /\ c.kind = "destruct" =>
                              list_panicked' \/ \A w \in Vcis : vci'[w] # "alive"
  <2>1. CASE UNCHANGED calls
    BY <2>1 DEF SameQueue
  <2>2. CASE /\ vci' = [vci EXCEPT ![v] = "dropped"]
             /\ calls' = Append(calls, Destructor(v, task[t].queued))
    <3>1. PICK c \in Call : c = Destructor(v, task[t].queued)
      BY <1>1, CallsOfTasks DEF TaskState
    <3>2. c.kind = "destruct"
      BY <3>1 DEF Destructor
    <3>3. Puts(c)
      BY <2>2, <3>1, <3>2 DEF Puts
    <3>4. list_panicked' \/ entry = NoVci
      BY <1>4 DEF RegisterModule
    <3>5. entry = NoVci => \A w \in Vcis : vci'[w] # "alive"
      BY <1>1, <2>2 DEF ListedIsFound
    <3> QED
      BY <3>3, <3>4, <3>5
  <2> QED
    BY <1>4, <2>1, <2>2
<1> QED
  BY <1>1, <1>2, <1>3, <1>5, <1>6, <1>7, PutSpare

LEMMA DropSpare ==
  ASSUME IInv, SpareInv, NEW v \in Vcis, DropVci(v)
  PROVE  SpareInv'
<1>1. CallsType /\ ListedIsFound /\ vci \in [Vcis -> {"none", "alive", "dropped"}]
  BY TypeParts DEF IInv, ObjectsType
<1>2. /\ UNCHANGED <<connector, direct, module, list_panicked, task>>
      /\ vci[v] = "alive" /\ vci' = [vci EXCEPT ![v] = "dropped"]
      /\ calls' = Append(calls, Destructor(v, v \in served))
  BY DEF DropVci, history
<1>3. \A w \in Vcis : vci'[w] # "alive"
  BY <1>1, <1>2 DEF ListedIsFound
<1>4. PICK c \in Call : c = Destructor(v, v \in served)
  BY CallsOfDrops
<1>5. Puts(c)
  BY <1>2, <1>4 DEF Puts, Destructor
<1>6. \A u \in Tasks : task'[u].step = "connect_status" => AsksStatusFor(u)
  BY <1>2 DEF AsksStatusFor
<1>7. \A w \in Vcis : vci[w] # "none" => vci'[w] # "none"
  BY <1>1, <1>2
<1> QED
  BY <1>1, <1>2, <1>3, <1>5, <1>6, <1>7, PutSpare

LEMMA OtherSpare ==
  ASSUME IInv, SpareInv,
         (\E l \in Links : DropLink(l)) \/ Collect \/ Environment \/ UNCHANGED vars
  PROVE  SpareInv'
<1>1. CallsType /\ module \in ModuleStatus
  BY TypeParts DEF IInv, DriverType
<1>2. UNCHANGED <<connector, direct, list_panicked, vci, task>>
  BY DEF DropLink, Collect, Environment, vars, objects, history
<1>3. module' \in {"ready", "not_ready"} => module \in {"ready", "not_ready"}
  <2>1. UNCHANGED module \/ Environment
    BY DEF DropLink, Collect, vars
  <2> QED
    BY <1>1, <2>1 DEF Environment, ModuleStatus
<1>4. \/ SameQueue
      \/ \E c \in Call : Puts(c) /\ c.kind # "destruct"
  <2>1. CASE UNCHANGED calls
    BY <2>1 DEF SameQueue
  <2>2. ASSUME NEW l \in Links, DropLink(l)
        PROVE  \E c \in Call : Puts(c) /\ c.kind # "destruct"
    <3>1. PICK c \in Call : c = Destroy(l, l \in served)
      BY CallsOfDrops
    <3>2. c.kind = "destroy"
      BY <3>1 DEF Destroy
    <3> QED
      BY <2>2, <3>1, <3>2 DEF Puts, DropLink
  <2> QED
    BY <2>1, <2>2 DEF Collect, Environment, vars
<1>5. \A u \in Tasks : task'[u].step = "connect_status" => AsksStatusFor(u)
  BY <1>2 DEF AsksStatusFor
<1> QED
  BY <1>1, <1>2, <1>3, <1>4, <1>5, PutSpare

LEMMA TaskSpare ==
  ASSUME IInv, SpareInv, NEW t \in Tasks, Task(t)
  PROVE  SpareInv'
<1>1. CallsType
  BY TypeParts DEF IInv
<1>2. CASE Resume(t) /\ MakeList(t)
  BY <1>2, ListSpare
<1>3. CASE ~(Resume(t) /\ MakeList(t))
  <2>1. /\ UNCHANGED <<module, connector, direct, vci, list_panicked>>
        /\ SameQueue \/ \E c \in Call : Puts(c) /\ c.kind # "destruct"
        /\ \A u \in Tasks : task'[u].step = "connect_status" => AsksStatusFor(u)
    BY <1>3, TaskQueue
  <2> QED
    BY <1>1, <2>1, PutSpare
<1> QED
  BY <1>2, <1>3

\* A call is made and the others keep their order: what becomes of a position
\* and where a position comes from.  The worker's is the first it has queued.
Now(i, j) == IF j < i THEN j ELSE j - 1
Was(i, k) == IF k < i THEN k ELSE k + 1

LEMMA MadeOrder ==
  ASSUME CallsType, NEW i \in Due, i \in DOMAIN calls, Made(i)
  PROVE  /\ i \in Nat
         /\ \A k \in DOMAIN calls' : calls'[k].queued =>
              k \in Nat /\ Was(i, k) \in DOMAIN calls /\ calls'[k] = calls[Was(i, k)]
         /\ \A j \in DOMAIN calls : j \in Nat /\
              (j # i => Now(i, j) \in DOMAIN calls' /\ calls'[Now(i, j)] = calls[j])
         /\ calls[i].queued =>
              \A j \in DOMAIN calls : calls[j].queued /\ j # i => i < j
<1>1. PICK o : o = Others(i)
  OBVIOUS
<1>2. /\ o \in Seq(Call) /\ i \in Nat
      /\ \A k \in DOMAIN o : k \in Nat /\ Was(i, k) \in DOMAIN calls
                            /\ o[k] = calls[Was(i, k)]
      /\ \A j \in DOMAIN calls : j \in Nat /\
           (j # i => Now(i, j) \in DOMAIN o /\ o[Now(i, j)] = calls[j])
  <2>1. /\ o \in Seq(Call) /\ i \in Nat
        /\ \A k \in DOMAIN o :
             /\ k \in Nat
             /\ k < i => k \in DOMAIN calls /\ o[k] = calls[k]
             /\ k >= i => k + 1 \in DOMAIN calls /\ o[k] = calls[k + 1]
        /\ \A j \in DOMAIN calls :
             /\ j \in Nat
             /\ j < i => j \in DOMAIN o /\ o[j] = calls[j]
             /\ j > i => j - 1 \in DOMAIN o /\ o[j - 1] = calls[j]
    BY <1>1, OthersParts
  <2>2. \A k \in DOMAIN o : k < i \/ k >= i
    BY <2>1
  <2>3. \A j \in DOMAIN calls : j # i => j < i \/ (j > i /\ ~(j < i))
    BY <2>1
  <2> QED
    BY <2>1, <2>2, <2>3 DEF Now, Was
<1>3. /\ \A k \in DOMAIN calls' : calls'[k].queued => k \in DOMAIN o /\ calls'[k] = o[k]
      /\ \A k \in DOMAIN o : k \in DOMAIN calls' /\ calls'[k] = o[k]
  <2>1. CASE calls' = o
    BY <2>1
  <2>2. CASE /\ calls' = Append(o, Severing(i))
             /\ calls[i].kind = "destruct" /\ ~calls[i].queued
    <3>0. PICK d \in Call : d = calls[i]
      BY DEF CallsType
    <3>1. PICK c : c = [d EXCEPT !.kind = "sever"]
      OBVIOUS
    <3>2. c = Severing(i) /\ c \in Call /\ ~c.queued
      BY <2>2, <3>0, <3>1 DEF Severing, Call, Kinds
    <3>3. PICK n : n = Len(o) + 1
      OBVIOUS
    <3>4. /\ DOMAIN calls' = DOMAIN o \cup {n} /\ calls'[n] = c
          /\ \A k \in DOMAIN o : calls'[k] = o[k]
      BY <1>2, <2>2, <3>2, <3>3
    <3> QED
      BY <3>2, <3>4
  <2> QED
    BY <1>1, <2>1, <2>2 DEF Made
<1>4. ASSUME calls[i].queued, NEW j \in DOMAIN calls, calls[j].queued, j # i
      PROVE  i < j
  <2>1. ~(j \in 1 .. i - 1)
    BY <1>4 DEF Due
  <2>2. j \in Nat /\ j >= 1
    BY DEF CallsType
  <2> QED
    BY <1>2, <1>4, <2>1, <2>2
<1> QED
  BY <1>2, <1>3, <1>4

\* What a driver call does to the queue, the module and its connector.
LEMMA CallEffect ==
  ASSUME IInv, MakeCall
  PROVE  \E i \in Due :
           /\ i \in DOMAIN calls /\ Made(i)
           /\ UNCHANGED <<vci, list_panicked>>
           /\ \A u \in Tasks : /\ task'[u].step = task[u].step
                               /\ task'[u].vci = task[u].vci
                               /\ task'[u].queued = task[u].queued
           /\ \/ UNCHANGED <<connector, direct>>
                 /\ (module' \in {"ready", "not_ready"} => module \in {"ready", "not_ready"})
              \/ /\ calls[i].kind = "connect"
                 /\ connector' = calls[i].vci /\ direct' = ~calls[i].queued
           /\ module \in {"ready", "not_ready"} /\ module' = "avail" =>
                \/ calls[i].kind \in {"disconnect", "sever"} /\ calls' = Others(i)
                \/ calls[i].kind = "destruct" /\ calls[i].queued
<1>1. PICK i \in Due :
        \/ ModuleIds(i) \/ GetStatus(i) \/ ModuleConnect(i) \/ ModuleDisconnect(i)
        \/ CreateLinkCall(i) \/ RegisterCallback(i) \/ DestroyLink(i)
        \/ DestructModule(i) \/ Sever(i)
  BY DEF MakeCall
<1>2. /\ i \in DOMAIN calls /\ UNCHANGED <<vci, list_panicked>>
      /\ CallsType /\ TaskType /\ calls[i] \in Call
  BY <1>1, TypeParts DEF Due, MakeCall, objects, IInv, CallsType
<1>3. Made(i)
  BY <1>1 DEF ModuleIds, GetStatus, ModuleConnect, ModuleDisconnect, CreateLinkCall,
     RegisterCallback, DestroyLink, DestructModule, Sever, Answer, Made, Severing
<1> DEFINE Same(u) == /\ task'[u].step = task[u].step /\ task'[u].vci = task[u].vci
                      /\ task'[u].queued = task[u].queued
<1>4. \A u \in Tasks : Same(u)
  <2>1. CASE UNCHANGED task
    BY <2>1
  <2>2. ASSUME NEW r \in Replies, Answer(i, r)
        PROVE  \A u \in Tasks : Same(u)
    <3>1. CASE calls[i].by = NoTask
      BY <2>2, <3>1 DEF Answer
    <3>2. CASE calls[i].by # NoTask
      <4>1. PICK t \in Tasks : t = calls[i].by
        BY <1>2, <3>2 DEF Call
      <4>2. PICK q : q = [task[t] EXCEPT !.reply = r]
        OBVIOUS
      <4>3. /\ task \in [Tasks -> TaskState] /\ task' = [task EXCEPT ![t] = q]
            /\ q.step = task[t].step /\ q.vci = task[t].vci /\ q.queued = task[t].queued
        BY <1>2, <2>2, <3>2, <4>1, <4>2 DEF Answer, TaskType, TaskState
      <4> QED
        BY <4>3
    <3> QED
      BY <3>1, <3>2
  <2>3. UNCHANGED task \/ \E r \in Replies : Answer(i, r)
    BY <1>1 DEF ModuleIds, GetStatus, ModuleConnect, ModuleDisconnect, CreateLinkCall,
       RegisterCallback, DestroyLink, DestructModule, Sever, Replies
  <2> QED
    BY <2>1, <2>2, <2>3
<1>5. \/ UNCHANGED <<connector, direct>>
         /\ (module' \in {"ready", "not_ready"} => module \in {"ready", "not_ready"})
      \/ /\ calls[i].kind = "connect"
         /\ connector' = calls[i].vci /\ direct' = ~calls[i].queued
  BY <1>1 DEF ModuleIds, GetStatus, ModuleConnect, ModuleDisconnect, CreateLinkCall,
     RegisterCallback, DestroyLink, DestructModule, Sever, history
<1>6. module \in {"ready", "not_ready"} /\ module' = "avail" =>
        \/ calls[i].kind \in {"disconnect", "sever"} /\ calls' = Others(i)
        \/ calls[i].kind = "destruct" /\ calls[i].queued
  BY <1>1 DEF ModuleIds, GetStatus, ModuleConnect, ModuleDisconnect, CreateLinkCall,
     RegisterCallback, DestroyLink, DestructModule, Sever, Answer
<1> QED
  BY <1>1, <1>2, <1>3, <1>4, <1>5, <1>6

LEMMA CallSpare ==
  ASSUME IInv, SpareInv, MakeCall
  PROVE  SpareInv'
<1>1. OnlyListed /\ NoneSevered /\ DestructFirst /\ CallsType /\ OneCallEach
  BY TypeParts DEF SpareInv, IInv
<1>2. PICK i \in Due :
        /\ i \in DOMAIN calls /\ Made(i)
        /\ UNCHANGED <<vci, list_panicked>>
        /\ \A u \in Tasks : task'[u].step = task[u].step /\ task'[u].vci = task[u].vci
        /\ \/ UNCHANGED <<connector, direct>>
              /\ (module' \in {"ready", "not_ready"} => module \in {"ready", "not_ready"})
           \/ /\ calls[i].kind = "connect"
              /\ connector' = calls[i].vci /\ direct' = ~calls[i].queued
  BY CallEffect
<1>3. \A v : Listed(v) <=> ListedNext(v)
  BY <1>2 DEF Listed, ListedNext
<1>4. \A k \in DOMAIN calls' :
        \/ \E j \in DOMAIN calls : calls'[k] = calls[j]
        \/ calls'[k] = Severing(i) /\ ~calls[i].queued
  BY <1>1, <1>2, MadeCalls
<1>5. Severing(i).kind = "sever" /\ Severing(i).queued = calls[i].queued
  BY <1>1, <1>2 DEF Severing, CallsType, Call
<1>6. NoVci \notin Vcis
  BY VciAssumption
<1>7. OnlyListed'
  <2>1. \A k \in DOMAIN calls' : calls'[k].kind = "connect" => Listed(calls'[k].vci)
    BY <1>1, <1>4, <1>5 DEF OnlyListed
  <2>2. \A u \in Tasks : task'[u].step = "connect_status" => Listed(task'[u].vci)
    BY <1>1, <1>2 DEF OnlyListed
  <2>3. connector' # NoVci => Listed(connector')
    BY <1>1, <1>2 DEF OnlyListed
  <2>4. module' \in {"ready", "not_ready"} => connector' # NoVci
    BY <1>1, <1>2, <1>6 DEF OnlyListed, Listed
  <2> QED
    BY <1>3, <2>1, <2>2, <2>3, <2>4 DEF OnlyListed, Listed, ListedNext
<1>8. NoneSevered'
  BY <1>1, <1>4, <1>5 DEF NoneSevered
<1>9. /\ i \in Nat
      /\ \A k \in DOMAIN calls' : calls'[k].queued =>
           k \in Nat /\ Was(i, k) \in DOMAIN calls /\ calls'[k] = calls[Was(i, k)]
      /\ calls[i].queued =>
           \A j \in DOMAIN calls : calls[j].queued /\ j # i => i < j
  BY <1>1, <1>2, MadeOrder
<1>10. DestructFirst'
  <2> SUFFICES ASSUME ~list_panicked, NEW j \in DOMAIN calls',
                      calls'[j].kind = "destruct", calls'[j].queued
               PROVE  /\ connector' # NoVci /\ ~direct' => vci[connector'] # "alive"
                      /\ \A k \in DOMAIN calls' :
                           /\ calls'[k].kind = "connect" /\ calls'[k].queued
                           /\ vci[calls'[k].vci] = "alive"
                           => j < k
    BY <1>2 DEF DestructFirst
  <2>1. PICK m \in DOMAIN calls : m = Was(i, j) /\ calls'[j] = calls[m] /\ j \in Nat
    BY <1>9
  <2>2. calls[m].kind = "destruct" /\ calls[m].queued /\ m \in Nat
    BY <1>1, <2>1 DEF CallsType
  <2>3. /\ connector # NoVci /\ ~direct => vci[connector] # "alive"
        /\ \A k \in DOMAIN calls :
             /\ calls[k].kind = "connect" /\ calls[k].queued
             /\ vci[calls[k].vci] = "alive"
             => m < k
    BY <1>1, <2>2 DEF DestructFirst
  <2>4. connector' # NoVci /\ ~direct' => vci[connector'] # "alive"
    <3>1. ASSUME calls[i].kind = "connect", calls[i].queued
          PROVE  vci[calls[i].vci] # "alive"
      <4>1. m # i
        BY <2>2, <3>1
      <4>2. i < m
        BY <1>9, <2>2, <3>1, <4>1
      <4>3. ~(m < i)
        BY <1>9, <2>2, <4>2
      <4> QED
        BY <1>2, <2>3, <3>1, <4>3
    <3>2. CASE UNCHANGED <<connector, direct>>
      BY <2>3, <3>2
    <3>3. CASE /\ calls[i].kind = "connect"
               /\ connector' = calls[i].vci /\ direct' = ~calls[i].queued
      BY <3>1, <3>3
    <3> QED
      BY <1>2, <3>2, <3>3
  <2>5. ASSUME NEW k \in DOMAIN calls', calls'[k].kind = "connect", calls'[k].queued,
               vci[calls'[k].vci] = "alive"
        PROVE  j < k
    <3>1. PICK n \in DOMAIN calls : n = Was(i, k) /\ calls'[k] = calls[n] /\ k \in Nat
      BY <1>9, <2>5
    <3>2. m < n
      BY <2>3, <2>5, <3>1
    <3> QED
      BY <1>9, <2>1, <3>1, <3>2 DEF Was
  <2> QED
    BY <2>4, <2>5
<1> QED
  BY <1>7, <1>8, <1>10 DEF SpareInv

LEMMA NextSpare ==
  ASSUME IInv, SpareInv, [Next]_vars
  PROVE  SpareInv'
BY TaskSpare, DropSpare, OtherSpare, CallSpare DEF Next

LEMMA SpareInvariant == Spec => [](IInv /\ SpareInv)
<1>1. Init => IInv /\ SpareInv
  BY InitIInv, InitSpare
<1>2. (IInv /\ SpareInv) /\ [Next]_vars => (IInv /\ SpareInv)'
  BY NextIInv, NextSpare
<1> QED
  BY <1>1, <1>2, PTL DEF Spec

\* A call of the driver disconnects what the PduVci in use has connected only
\* when it is disconnect()'s, or a destructor's outside the queue.
Spares ==
  /\ ~direct /\ ~list_panicked
  /\ module \in {"ready", "not_ready"} /\ module' = "avail"
  /\ vci[connector] = "alive"
  => \E i \in DOMAIN calls :
       /\ calls' = Others(i)
       /\ calls[i].kind = "disconnect" \/ ~calls[i].queued

LEMMA NextSpares ==
  ASSUME IInv, SpareInv, [Next]_vars
  PROVE  Spares
<1> SUFFICES ASSUME ~direct, ~list_panicked, module \in {"ready", "not_ready"},
                    module' = "avail", vci[connector] = "alive"
             PROVE  \E i \in DOMAIN calls :
                      /\ calls' = Others(i)
                      /\ calls[i].kind = "disconnect" \/ ~calls[i].queued
  BY DEF Spares
<1>1. OnlyListed /\ NoneSevered /\ DestructFirst /\ CallsType
  BY TypeParts DEF SpareInv, IInv
<1>2. MakeCall
  <2>1. ASSUME NEW t \in Tasks, Task(t) PROVE UNCHANGED module
    BY <2>1 DEF Task, List, Connect, Disconnect, CreateLink, Begin, Abandon, Resume
  <2>2. (\E v \in Vcis : DropVci(v)) \/ (\E l \in Links : DropLink(l)) \/ Collect
          \/ UNCHANGED vars => UNCHANGED module
    BY DEF DropVci, DropLink, Collect, vars
  <2>3. ~Environment
    BY DEF Environment
  <2> QED
    BY <2>1, <2>2, <2>3 DEF Next
<1>3. PICK i \in Due :
        /\ i \in DOMAIN calls
        /\ \/ calls[i].kind \in {"disconnect", "sever"} /\ calls' = Others(i)
           \/ calls[i].kind = "destruct" /\ calls[i].queued
  BY <1>2, CallEffect
<1>4. ~(calls[i].kind = "destruct" /\ calls[i].queued)
  BY <1>1, <1>3 DEF DestructFirst, OnlyListed
<1>5. calls[i].kind = "sever" => ~calls[i].queued
  BY <1>1, <1>3 DEF NoneSevered
<1> QED
  BY <1>3, <1>4, <1>5

-----------------------------------------------------------------------------
(***************************************************************************)
(* What is dropped and not released yet, in the driver.  A call that does  *)
(* it has been asked for already, unless one has failed, and nothing that  *)
(* is asked for undoes it: a task holds a PduVci that is alive, and what   *)
(* is left of a connect() that was abandoned is before the destructor in   *)
(* the worker's queue.                                                     *)
(***************************************************************************)
HoldersAlive ==
  \A t \in Tasks : task[t].vci # NoVci => vci[task[t].vci] = "alive"

VciOwned ==
  \A i \in DOMAIN calls :
    /\ calls[i].by \in Tasks =>
         calls[i].vci = task[calls[i].by].vci /\ calls[i].queued = task[calls[i].by].queued
    /\ calls[i].kind = "connect" /\ ~calls[i].queued => calls[i].by \in Tasks

\* Only a PduVci with a worker has calls in its queue.
QueuedAreServed ==
  /\ \A t \in Tasks : task[t].queued /\ task[t].vci # NoVci => task[t].vci \in served
  /\ \A i \in DOMAIN calls :
       calls[i].kind = "connect" /\ calls[i].queued /\ calls[i].vci # NoVci =>
         calls[i].vci \in served

HoldInv == HoldersAlive /\ VciOwned /\ QueuedAreServed

Releases(c, v) == c.kind \in {"destruct", "sever"} /\ c.vci = v
Releasing(v) == \E i \in DOMAIN calls : Releases(calls[i], v)

ReleaseLast ==
  \A v \in Vcis : vci[v] = "dropped" /\ v \notin unreleased =>
    \A i \in DOMAIN calls :
      calls[i].kind = "connect" /\ calls[i].queued /\ calls[i].vci = v =>
        \E j \in DOMAIN calls : i < j /\ calls[j].queued /\ Releases(calls[j], v)

ReleaseAsked ==
  \A v \in Vcis :
    /\ vci[v] = "dropped" /\ v \notin unreleased
    /\ connector = v /\ module \in {"ready", "not_ready"}
    => Releasing(v)

ReleaseInv == ReleaseLast /\ ReleaseAsked

LEMMA InitRelease == Init => HoldInv /\ ReleaseInv
BY DEF Init, HoldInv, HoldersAlive, VciOwned, QueuedAreServed, ReleaseInv, ReleaseLast, ReleaseAsked, Idle

\* A step of a task but Abandon: the task awaits no call, its state becomes r,
\* and it asks for at most one call, for its objects or to destroy one.
Works(t, r) ==
  /\ task' = [task EXCEPT ![t] = r]
  /\ task[t].step = "idle" \/ task[t].reply # "none"
  /\ \/ r.vci = NoVci
     \/ r.vci = task[t].vci /\ r.queued = task[t].queued
     \/ vci[r.vci] = "alive" /\ (r.queued => r.vci \in served)
  /\ \/ r.link \in {NoLink, task[t].link} /\ UNCHANGED link
     \/ /\ r.link \in Links /\ link[r.link] = "none"
        /\ link' = [link EXCEPT ![r.link] = "asked"]
  /\ \/ UNCHANGED calls
     \/ \E c \in Call :
          /\ calls' = Append(calls, c)
          /\ \/ c.by = NoTask /\ c.kind \in {"destruct", "destroy"}
             \/ /\ c.by = t /\ c.vci = r.vci /\ c.link = r.link /\ c.queued = r.queued
                /\ c.kind = "create" => link[r.link] = "none" /\ r.link \in Links

LEMMA BeginWorks ==
  ASSUME TypeOK, NEW t \in Tasks, NEW q \in BOOLEAN, NEW s \in Steps,
         NEW v \in Vcis \cup {NoVci}, NEW l \in Links \cup {NoLink},
         NEW k \in {"ids", "status", "create"}, Begin(t, q, s, v, l, k),
         v # NoVci => vci[v] = "alive" /\ (q => v \in served),
         \/ l = NoLink /\ UNCHANGED link /\ k # "create"
         \/ l \in Links /\ link[l] = "none" /\ link' = [link EXCEPT ![l] = "asked"]
  PROVE  \E r \in TaskState : Works(t, r)
<1>1. PICK r : r = [Idle EXCEPT !.step = s, !.vci = v, !.link = l, !.queued = q]
  OBVIOUS
<1>2. r \in TaskState /\ r.vci = v /\ r.link = l /\ r.queued = q
  BY <1>1 DEF Idle, TaskState, Replies
<1>3. PICK c \in Call :
        c = [kind |-> k, vci |-> v, link |-> l, by |-> t, queued |-> q]
  <2>1. k \in TaskKinds \ {"destroy"} /\ t \in Tasks \cup {NoTask}
    BY DEF Kinds, TaskKinds
  <2> QED
    BY <2>1, CallsOfTasks
<1>4. c.kind = k /\ c.vci = v /\ c.link = l /\ c.by = t /\ c.queued = q
  BY <1>3
<1>5. /\ task' = [task EXCEPT ![t] = r] /\ task[t].step = "idle"
      /\ calls' = Append(calls, c)
  BY <1>1, <1>3 DEF Begin
<1> QED
  BY <1>2, <1>4, <1>5 DEF Works

LEMMA AskWorks ==
  ASSUME TypeOK, NEW t \in Tasks, NEW s \in Steps, NEW k \in TaskKinds \ {"create"},
         Ask(t, s, k), task[t].reply # "none", UNCHANGED link,
         k = "destroy" => task[t].link # NoLink
  PROVE  \E r \in TaskState : Works(t, r)
<1>1. task \in [Tasks -> TaskState] /\ task[t] \in TaskState
  BY TypeParts DEF TaskType
<1>2. PICK c \in Call : c = [kind |-> k, vci |-> task[t].vci, link |-> task[t].link,
                             by |-> t, queued |-> task[t].queued]
  <2>1. /\ k \in TaskKinds /\ t \in Tasks \cup {NoTask}
        /\ task[t].vci \in Vcis \cup {NoVci} /\ task[t].link \in Links \cup {NoLink}
        /\ task[t].queued \in BOOLEAN
    BY <1>1 DEF TaskState
  <2> QED
    BY <2>1, CallsOfTasks
<1>3. PICK r : r = [task[t] EXCEPT !.step = s, !.reply = "none"]
  OBVIOUS
<1>4. /\ r \in TaskState /\ r.vci = task[t].vci /\ r.link = task[t].link
      /\ r.queued = task[t].queued
  BY <1>1, <1>3 DEF TaskState, Replies
<1>5. task' = [task EXCEPT ![t] = r] /\ calls' = Append(calls, c)
  BY <1>1, <1>2, <1>3 DEF Ask
<1>6. /\ c.kind # "create" /\ c.by = t /\ c.vci = r.vci /\ c.link = r.link
      /\ c.queued = r.queued
  BY <1>2, <1>4
<1> QED
  BY <1>4, <1>5, <1>6 DEF Works

LEMMA FinishWorks ==
  ASSUME TypeOK, NEW t \in Tasks, Finish(t), task[t].reply # "none", UNCHANGED link,
         \/ UNCHANGED calls
         \/ \E v \in Vcis, q \in BOOLEAN : calls' = Append(calls, Destructor(v, q))
         \/ \E l \in Links, q \in BOOLEAN : calls' = Append(calls, Destroy(l, q))
  PROVE  \E r \in TaskState : Works(t, r) /\ r = Idle
<1>1. PICK r \in TaskState : r = Idle
  BY IdleState
<1>2. r.vci = NoVci /\ r.link = NoLink
  BY <1>1 DEF Idle
<1>3. \/ UNCHANGED calls
      \/ \E c \in Call : /\ calls' = Append(calls, c)
                         /\ c.by = NoTask /\ c.kind \in {"destruct", "destroy"}
  <2>1. \A v \in Vcis, q \in BOOLEAN :
          /\ Destructor(v, q) \in Call /\ Destructor(v, q).by = NoTask
          /\ Destructor(v, q).kind = "destruct"
    BY CallsOfTasks DEF Destructor
  <2>2. \A l \in Links, q \in BOOLEAN :
          /\ Destroy(l, q) \in Call /\ Destroy(l, q).by = NoTask
          /\ Destroy(l, q).kind = "destroy"
    BY CallsOfTasks DEF Destroy
  <2> QED
    BY <2>1, <2>2
<1> QED
  BY <1>1, <1>2, <1>3 DEF Works, Finish

LEMMA TaskWorks ==
  ASSUME TypeOK, TasksApart, NEW t \in Tasks, Task(t)
  PROVE  /\ Abandon(t) \/ \E r \in TaskState : Works(t, r)
         /\ UNCHANGED <<module, connector, unreleased>> /\ served \subseteq served'
         /\ \A v \in Vcis : vci'[v] # vci[v] => vci[v] = "none"
<1>1. /\ task[t] \in TaskState /\ NoVci \in Vcis \cup {NoVci}
      /\ NoLink \in Links \cup {NoLink} /\ NoVci \notin Vcis /\ NoLink \notin Links
      /\ Vcis \subseteq Vcis \cup {NoVci} /\ Links \subseteq Links \cup {NoLink}
      /\ vci \in [Vcis -> {"none", "alive", "dropped"}]
      /\ task[t].link \in Links \cup {NoLink} /\ task[t].queued \in BOOLEAN
      /\ task[t].step \in {"register", "undo"} => task[t].link # NoLink
  BY TypeParts, VciAssumption DEF TaskType, ObjectsType, TaskState, TasksApart, Linked
<1> DEFINE Same == /\ UNCHANGED <<module, connector, unreleased, vci>>
                   /\ served \subseteq served'
<1>2. ASSUME NEW q \in BOOLEAN, List(t, q)
      PROVE  (\E r \in TaskState : Works(t, r)) /\ Same
  <2>1. "list" \in Steps /\ "ids" \in {"ids", "status", "create"} /\ "ids" # "create"
    BY DEF Steps
  <2>2. Begin(t, q, "list", NoVci, NoLink, "ids") /\ UNCHANGED link
    BY <1>2 DEF List
  <2>3. \E r \in TaskState : Works(t, r)
    BY <1>1, <2>1, <2>2, BeginWorks
  <2> QED
    BY <2>2, <2>3 DEF Begin, objects, history
<1>3. ASSUME NEW q \in BOOLEAN, NEW v \in Vcis, Connect(t, q, v) \/ Disconnect(t, q, v)
      PROVE  (\E r \in TaskState : Works(t, r)) /\ Same
  <2>1. PICK s \in {"connect_status", "disconnect_status"} :
          /\ Begin(t, q, s, v, NoLink, "status") /\ UNCHANGED link
          /\ vci[v] = "alive" /\ (q => v \in served)
    BY <1>3 DEF Connect, Disconnect, Usable
  <2>2. /\ s \in Steps /\ "status" \in {"ids", "status", "create"} /\ "status" # "create"
        /\ v \in Vcis \cup {NoVci}
    BY DEF Steps
  <2>3. \E r \in TaskState : Works(t, r)
    BY <1>1, <2>1, <2>2, BeginWorks
  <2> QED
    BY <2>1, <2>3 DEF Begin, objects, history
<1>4. ASSUME NEW q \in BOOLEAN, NEW v \in Vcis, NEW l \in Links, CreateLink(t, q, v, l)
      PROVE  (\E r \in TaskState : Works(t, r)) /\ Same
  <2>1. /\ Begin(t, q, "create", v, l, "create") /\ link[l] = "none"
        /\ vci[v] = "alive" /\ (q => v \in served)
        /\ link' = [link EXCEPT ![l] = "asked"]
    BY <1>4 DEF CreateLink, Usable
  <2>2. /\ "create" \in Steps /\ "create" \in {"ids", "status", "create"}
        /\ v \in Vcis \cup {NoVci} /\ l \in Links \cup {NoLink}
    BY DEF Steps
  <2>3. \E r \in TaskState : Works(t, r)
    BY <1>1, <2>1, <2>2, BeginWorks
  <2> QED
    BY <2>1, <2>3 DEF Begin, objects, history
<1>5. CASE Abandon(t)
  BY <1>5 DEF Abandon, objects
<1>6. CASE Resume(t)
  <2>1. /\ UNCHANGED <<module, connector, unreleased, link>>
        /\ task[t].reply # "none"
    BY <1>6 DEF Resume
  <2>2. CASE MakeList(t)
    <3>1. PICK v \in Vcis :
            /\ vci[v] = "none" /\ vci' = [vci EXCEPT ![v] = vci'[v]]
            /\ UNCHANGED calls \/ calls' = Append(calls, Destructor(v, task[t].queued))
      BY <1>1, <2>2 DEF MakeList
    <3>2. Finish(t) /\ served \subseteq served'
      BY <2>2 DEF MakeList
    <3>3. \E r \in TaskState : Works(t, r)
      BY <1>1, <2>1, <3>1, <3>2, FinishWorks
    <3> QED
      BY <1>1, <2>1, <3>1, <3>2, <3>3
  <2>3. CASE ActOnStatus(t)
    <3>1. PICK k \in {"connect", "disconnect"} : Ask(t, k, k)
      BY <2>3 DEF ActOnStatus
    <3>2. k \in Steps /\ k \in TaskKinds \ {"create"}
      BY DEF Steps, Kinds, TaskKinds
    <3> QED
      BY <2>1, <2>3, <3>1, <3>2, AskWorks DEF ActOnStatus, objects
  <2>4. CASE Register(t)
    <3>1. "register" \in Steps /\ "register" \in TaskKinds \ {"create"}
      BY DEF Steps, Kinds, TaskKinds
    <3> QED
      BY <2>1, <2>4, <3>1, AskWorks DEF Register, objects
  <2>5. CASE HandOut(t)
    <3>0. PICK q \in BOOLEAN : q = (task[t].vci \in served)
      BY ServedOrNot
    <3>1. /\ Finish(t) /\ UNCHANGED vci /\ served \subseteq served'
          /\ UNCHANGED calls \/ calls' = Append(calls, Destroy(task[t].link, q))
      BY <2>5, <3>0 DEF HandOut
    <3>2. task[t].link \in Links
      BY <1>1, <2>5 DEF HandOut
    <3> QED
      BY <1>1, <2>1, <3>1, <3>2, FinishWorks
  <2>6. CASE Undo(t)
    <3>1. UNCHANGED <<vci, served>> /\ task[t].link # NoLink
      BY <1>1, <2>6 DEF Undo, objects
    <3>2. CASE Finish(t) /\ UNCHANGED calls
      BY <2>1, <3>1, <3>2, FinishWorks
    <3>3. CASE Ask(t, "undo", "destroy")
      <4>1. "undo" \in Steps /\ "destroy" \in TaskKinds \ {"create"}
        BY DEF Steps, Kinds, TaskKinds
      <4> QED
        BY <2>1, <3>1, <3>3, <4>1, AskWorks
    <3> QED
      BY <2>6, <3>2, <3>3 DEF Undo, GiveUp
  <2>7. CASE Over(t)
    BY <2>1, <2>7, FinishWorks DEF Over, objects
  <2> QED
    BY <1>6, <2>2, <2>3, <2>4, <2>5, <2>6, <2>7 DEF Resume
<1> QED
  BY <1>2, <1>3, <1>4, <1>5, <1>6 DEF Task

\* Who holds what, from step to step.
LEMMA SameHold ==
  ASSUME IInv, HoldInv, UNCHANGED served,
         \A v \in Vcis : vci[v] = "alive" /\ InUse(v) => vci'[v] = "alive",
         \A t \in Tasks : task'[t].vci = task[t].vci /\ task'[t].queued = task[t].queued,
         \A k \in DOMAIN calls' :
           \/ calls'[k].by = NoTask /\ calls'[k].kind # "connect"
           \/ \E i \in DOMAIN calls :
                /\ calls'[k].vci = calls[i].vci
                /\ calls'[k].by = calls[i].by /\ calls'[k].queued = calls[i].queued
                /\ calls'[k].kind \in {calls[i].kind, "sever"}
  PROVE  HoldInv'
<1>1. /\ HoldersAlive /\ VciOwned /\ QueuedAreServed /\ NoTask \notin Tasks
      /\ task \in [Tasks -> TaskState]
  BY TypeParts, VciAssumption DEF HoldInv, IInv, TaskType
<1>2. HoldersAlive'
  <2> SUFFICES ASSUME NEW t \in Tasks, task'[t].vci # NoVci
               PROVE  vci'[task'[t].vci] = "alive"
    BY DEF HoldersAlive
  <2>1. task[t].vci \in Vcis /\ vci[task[t].vci] = "alive" /\ InUse(task[t].vci)
    BY <1>1 DEF HoldersAlive, InUse, TaskState
  <2> QED
    BY <2>1
<1>3. VciOwned'
  BY <1>1 DEF VciOwned
<1>4. QueuedAreServed'
  BY <1>1 DEF QueuedAreServed
<1> QED
  BY <1>2, <1>3, <1>4 DEF HoldInv

LEMMA WorksHold ==
  ASSUME IInv, HoldInv, NEW t \in Tasks, NEW r \in TaskState, Works(t, r),
         served \subseteq served', \A v \in Vcis : vci[v] = "alive" => vci'[v] = "alive"
  PROVE  HoldInv'
<1>1. /\ HoldersAlive /\ VciOwned /\ QueuedAreServed
      /\ NoTask \notin Tasks /\ CallsType /\ CallsOwned
      /\ task \in [Tasks -> TaskState] /\ r.vci \in Vcis \cup {NoVci}
      /\ task' = [task EXCEPT ![t] = r]
  BY TypeParts, VciAssumption DEF HoldInv, IInv, TaskType, TaskState, Works
<1>2. HoldersAlive'
  <2>1. \A u \in Tasks : task[u].vci # NoVci =>
          task[u].vci \in Vcis /\ vci[task[u].vci] = "alive"
    BY <1>1 DEF HoldersAlive, TaskState
  <2>2. r.vci # NoVci => vci[r.vci] = "alive" /\ r.vci \in Vcis
    BY <1>1, <2>1 DEF Works
  <2> QED
    BY <1>1, <2>1, <2>2 DEF HoldersAlive
<1>3. \A i \in DOMAIN calls : calls[i].by # t
  BY <1>1, NoCallOf DEF Works
<1>4. r.queued /\ r.vci # NoVci => r.vci \in served'
  BY <1>1 DEF Works, QueuedAreServed
<1>5. CASE UNCHANGED calls
  <2>1. VciOwned'
    BY <1>1, <1>3, <1>5 DEF VciOwned
  <2>2. QueuedAreServed'
    BY <1>1, <1>4, <1>5 DEF QueuedAreServed
  <2> QED
    BY <1>2, <2>1, <2>2 DEF HoldInv
<1>6. ASSUME NEW c \in Call, calls' = Append(calls, c),
             \/ c.by = NoTask /\ c.kind \in {"destruct", "destroy"}
             \/ c.by = t /\ c.vci = r.vci /\ c.queued = r.queued
      PROVE  HoldInv'
  <2>1. PICK n : n = Len(calls) + 1
    OBVIOUS
  <2>2. /\ DOMAIN calls' = DOMAIN calls \cup {n} /\ calls'[n] = c
        /\ \A i \in DOMAIN calls : calls'[i] = calls[i]
    BY <1>1, <1>6, <2>1 DEF CallsType
  <2>3. VciOwned'
    BY <1>1, <1>3, <1>6, <2>2 DEF VciOwned
  <2>4. QueuedAreServed'
    BY <1>1, <1>4, <1>6, <2>2 DEF QueuedAreServed
  <2> QED
    BY <1>2, <2>3, <2>4 DEF HoldInv
<1> QED
  BY <1>5, <1>6 DEF Works

LEMMA AbandonHold ==
  ASSUME IInv, HoldInv, NEW t \in Tasks, Abandon(t)
  PROVE  HoldInv'
<1>1. /\ HoldersAlive /\ VciOwned /\ QueuedAreServed /\ NoTask \notin Tasks /\ CallsType
      /\ task \in [Tasks -> TaskState] /\ UNCHANGED <<served, vci>>
  BY TypeParts, VciAssumption DEF HoldInv, IInv, TaskType, Abandon, objects
<1>2. CASE task[t].queued
  <2>1. /\ task' = [task EXCEPT ![t] = Idle] /\ Idle.vci = NoVci
        /\ calls' = [i \in DOMAIN calls |->
             IF calls[i].by = t THEN [calls[i] EXCEPT !.by = NoTask] ELSE calls[i]]
    BY <1>2 DEF Abandon, Idle
  <2>2. \A i \in DOMAIN calls : calls[i] \in Call
    BY <1>1 DEF CallsType
  <2>3. \A c \in Call : /\ [c EXCEPT !.by = NoTask].by = NoTask
                        /\ [c EXCEPT !.by = NoTask].kind = c.kind
                        /\ [c EXCEPT !.by = NoTask].vci = c.vci
                        /\ [c EXCEPT !.by = NoTask].queued = c.queued
    BY DEF Call
  <2>4. \A i \in DOMAIN calls :
          /\ calls'[i].kind = calls[i].kind /\ calls'[i].vci = calls[i].vci
          /\ calls'[i].queued = calls[i].queued
          /\ IF calls[i].by = t THEN calls'[i].by = NoTask ELSE calls'[i].by = calls[i].by
    BY <2>1, <2>2, <2>3
  <2>5. VciOwned'
    BY <1>1, <1>2, <2>1, <2>4 DEF VciOwned
  <2>6. HoldersAlive'
    BY <1>1, <2>1 DEF HoldersAlive
  <2>7. QueuedAreServed'
    BY <1>1, <2>1, <2>4 DEF QueuedAreServed
  <2> QED
    BY <2>5, <2>6, <2>7 DEF HoldInv
<1>3. CASE ~task[t].queued
  <2>1. PICK r : r = [task[t] EXCEPT !.orphan = TRUE]
    OBVIOUS
  <2>2. /\ r.vci = task[t].vci /\ r.queued = task[t].queued
        /\ task' = [task EXCEPT ![t] = r] /\ UNCHANGED calls
    BY <1>1, <1>3, <2>1 DEF Abandon, TaskState
  <2>3. \A u \in Tasks : task'[u].vci = task[u].vci /\ task'[u].queued = task[u].queued
    BY <1>1, <2>2
  <2> QED
    BY <1>1, <2>2, <2>3 DEF HoldInv, HoldersAlive, VciOwned, QueuedAreServed
<1> QED
  BY <1>2, <1>3

\* A call put by the drop of an object.
LEMMA PutHold ==
  ASSUME IInv, HoldInv, UNCHANGED <<served, task>>,
         \A v \in Vcis : vci[v] = "alive" /\ InUse(v) => vci'[v] = "alive",
         \/ UNCHANGED calls
         \/ \E c \in Call : /\ calls' = Append(calls, c)
                            /\ c.by = NoTask /\ c.kind # "connect"
  PROVE  HoldInv'
<1>1. CallsType
  BY TypeParts DEF IInv
<1>2. CASE UNCHANGED calls
  BY <1>2, SameHold
<1>3. ASSUME NEW c \in Call, calls' = Append(calls, c), c.by = NoTask, c.kind # "connect"
      PROVE  HoldInv'
  <2>1. PICK n : n = Len(calls) + 1
    OBVIOUS
  <2>2. /\ DOMAIN calls' = DOMAIN calls \cup {n} /\ calls'[n] = c
        /\ \A i \in DOMAIN calls : calls'[i] = calls[i]
    BY <1>1, <1>3, <2>1 DEF CallsType
  <2> QED
    BY <1>3, <2>2, SameHold
<1> QED
  BY <1>2, <1>3

LEMMA NextHold ==
  ASSUME IInv, HoldInv, [Next]_vars
  PROVE  HoldInv'
<1>1. /\ TypeOK /\ CallsType /\ OneCallEach /\ TasksApart /\ NoVci \notin Vcis
      /\ vci \in [Vcis -> {"none", "alive", "dropped"}]
  BY TypeParts, VciAssumption DEF IInv, ObjectsType
<1>2. ASSUME NEW t \in Tasks, Task(t)
      PROVE  HoldInv'
  <2>1. /\ Abandon(t) \/ \E r \in TaskState : Works(t, r)
        /\ served \subseteq served'
        /\ \A v \in Vcis : vci'[v] # vci[v] => vci[v] = "none"
    BY <1>1, <1>2, TaskWorks
  <2>2. \A v \in Vcis : vci[v] = "alive" => vci'[v] = "alive"
    BY <2>1
  <2> QED
    BY <2>1, <2>2, AbandonHold, WorksHold
<1>3. ASSUME NEW v \in Vcis, DropVci(v)
      PROVE  HoldInv'
  <2>1. /\ UNCHANGED <<served, task>> /\ ~InUse(v)
        /\ vci' = [vci EXCEPT ![v] = "dropped"]
        /\ calls' = Append(calls, Destructor(v, v \in served))
    BY <1>3 DEF DropVci
  <2>2. PICK c \in Call : c = Destructor(v, v \in served)
    BY CallsOfDrops
  <2>3. c.by = NoTask /\ c.kind # "connect"
    BY <2>2 DEF Destructor
  <2>4. \A w \in Vcis : vci[w] = "alive" /\ InUse(w) => vci'[w] = "alive"
    BY <1>1, <2>1
  <2> QED
    BY <2>1, <2>2, <2>3, <2>4, PutHold
<1>4. ASSUME NEW l \in Links, DropLink(l)
      PROVE  HoldInv'
  <2>1. PICK c \in Call : c = Destroy(l, l \in served)
    BY CallsOfDrops
  <2>2. c.by = NoTask /\ c.kind # "connect"
    BY <2>1 DEF Destroy
  <2> QED
    BY <1>4, <2>1, <2>2, PutHold DEF DropLink
<1>5. CASE Collect \/ Environment \/ UNCHANGED vars
  <2>1. UNCHANGED <<served, task, vci, calls>>
    BY <1>5 DEF Collect, Environment, vars, objects
  <2> QED
    BY <2>1, PutHold
<1>6. CASE MakeCall
  <2>1. PICK i \in Due :
          /\ i \in DOMAIN calls /\ Made(i) /\ UNCHANGED <<served, vci>>
          /\ \A u \in Tasks : task'[u].vci = task[u].vci /\ task'[u].queued = task[u].queued
    BY <1>6, CallEffect DEF MakeCall, objects
  <2>2. \A k \in DOMAIN calls' :
          \/ \E j \in DOMAIN calls : calls'[k] = calls[j]
          \/ calls'[k] = Severing(i)
    BY <1>1, <2>1, MadeCalls
  <2>3. /\ Severing(i).by = calls[i].by /\ Severing(i).vci = calls[i].vci
        /\ Severing(i).queued = calls[i].queued
        /\ Severing(i).kind = "sever"
    BY <1>1, <2>1 DEF Severing, CallsType, Call
  <2>4. \A k \in DOMAIN calls' : \E j \in DOMAIN calls :
          /\ calls'[k].vci = calls[j].vci /\ calls'[k].by = calls[j].by
          /\ calls'[k].queued = calls[j].queued
          /\ calls'[k].kind \in {calls[j].kind, "sever"}
    BY <2>1, <2>2, <2>3
  <2> QED
    BY <2>1, <2>4, SameHold
<1> QED
  BY <1>2, <1>3, <1>4, <1>5, <1>6 DEF Next

\* Every step but those of the driver.
LEMMA PutRelease ==
  ASSUME IInv, OnlyListed, HoldInv, ReleaseInv, UNCHANGED <<connector, unreleased>>,
         module' \in {"ready", "not_ready"} => module \in {"ready", "not_ready"},
         SameQueue \/ \E c \in Call : Puts(c),
         \A v \in Vcis : vci'[v] = "dropped" =>
           \/ vci[v] \in {"dropped", "none"}
           \/ calls' = Append(calls, Destructor(v, v \in served))
  PROVE  ReleaseInv'
<1>1. /\ CallsType /\ HoldersAlive /\ QueuedAreServed /\ ReleaseLast /\ ReleaseAsked
      /\ NoVci \notin Vcis
  BY TypeParts, VciAssumption DEF IInv, HoldInv, ReleaseInv
<1>2. PICK n : n = Len(calls) + 1 /\ n \in Nat /\ \A i \in DOMAIN calls : i \in Nat /\ i < n
  BY <1>1 DEF CallsType
<1>3. \A c : calls' = Append(calls, c) =>
        /\ DOMAIN calls' = DOMAIN calls \cup {n} /\ calls'[n] = c
        /\ \A i \in DOMAIN calls : calls'[i] = calls[i]
  BY <1>1, <1>2 DEF CallsType
<1>4. /\ DOMAIN calls \subseteq DOMAIN calls'
      /\ \A i \in DOMAIN calls : /\ calls'[i].kind = calls[i].kind
                                 /\ calls'[i].vci = calls[i].vci
                                 /\ calls'[i].queued = calls[i].queued
  BY <1>3 DEF SameQueue, Puts
<1>5. ASSUME NEW v \in Vcis, calls' = Append(calls, Destructor(v, v \in served))
      PROVE  /\ DOMAIN calls' = DOMAIN calls \cup {n} /\ Releases(calls'[n], v)
             /\ calls'[n].kind # "connect" /\ (v \in served => calls'[n].queued)
  <2>1. PICK q \in BOOLEAN : q = (v \in served)
    BY ServedOrNot
  <2>2. PICK c : c = [kind |-> "destruct", vci |-> v, link |-> NoLink, by |-> NoTask,
                      queued |-> q]
    OBVIOUS
  <2>3. calls' = Append(calls, c)
    BY <1>5, <2>1, <2>2 DEF Destructor
  <2>4. Releases(c, v) /\ c.kind # "connect" /\ c.queued = q
    BY <2>2 DEF Releases
  <2> QED
    BY <1>3, <2>1, <2>3, <2>4
<1>6. ASSUME NEW i \in DOMAIN calls', calls'[i].kind = "connect", i \notin DOMAIN calls,
             NEW v \in Vcis, calls'[i].vci = v, vci'[v] = "dropped"
      PROVE  FALSE
  <2>1. PICK c \in Call : Puts(c)
    BY <1>6 DEF SameQueue
  <2>2. i = n /\ calls'[i] = c
    BY <1>3, <1>6, <2>1 DEF Puts
  <2>3. PICK t \in Tasks : task[t].vci = v
    BY <1>6, <2>1, <2>2 DEF Puts
  <2>4. vci[v] = "alive"
    BY <1>1, <2>3 DEF HoldersAlive
  <2>5. calls' = Append(calls, Destructor(v, v \in served))
    BY <1>6, <2>4
  <2> QED
    BY <1>5, <1>6, <2>2, <2>5
<1>7. ReleaseLast'
  <2> SUFFICES ASSUME NEW v \in Vcis, vci'[v] = "dropped", v \notin unreleased,
                      NEW i \in DOMAIN calls', calls'[i].kind = "connect",
                      calls'[i].queued, calls'[i].vci = v
               PROVE  \E j \in DOMAIN calls' :
                        i < j /\ calls'[j].queued /\ Releases(calls'[j], v)
    BY DEF ReleaseLast, Releases
  <2>1. /\ i \in DOMAIN calls /\ calls[i].kind = "connect" /\ calls[i].vci = v
        /\ calls[i].queued
    BY <1>4, <1>6
  <2>2. CASE calls' = Append(calls, Destructor(v, v \in served))
    <3>1. v \in served
      BY <1>1, <2>1 DEF QueuedAreServed
    <3> QED
      BY <1>2, <1>5, <2>1, <2>2, <3>1
  <2>3. CASE vci[v] = "none"
    BY <2>1, <2>3 DEF OnlyListed, Listed
  <2>4. CASE vci[v] = "dropped"
    <3>1. PICK j \in DOMAIN calls : i < j /\ calls[j].queued /\ Releases(calls[j], v)
      BY <1>1, <2>1, <2>4 DEF ReleaseLast
    <3> QED
      BY <1>4, <3>1 DEF Releases
  <2> QED
    BY <2>2, <2>3, <2>4
<1>8. ReleaseAsked'
  <2> SUFFICES ASSUME NEW v \in Vcis, vci'[v] = "dropped", v \notin unreleased,
                      connector = v, module \in {"ready", "not_ready"}
               PROVE  \E j \in DOMAIN calls' : Releases(calls'[j], v)
    BY DEF ReleaseAsked, Releasing, Releases
  <2>1. CASE calls' = Append(calls, Destructor(v, v \in served))
    BY <1>5, <2>1
  <2>2. CASE vci[v] = "none"
    BY <1>1, <2>2 DEF OnlyListed, Listed
  <2>3. CASE vci[v] = "dropped"
    <3>1. PICK j \in DOMAIN calls : Releases(calls[j], v)
      BY <1>1, <2>3 DEF ReleaseAsked, Releasing
    <3> QED
      BY <1>4, <3>1 DEF Releases
  <2> QED
    BY <2>1, <2>2, <2>3
<1> QED
  BY <1>7, <1>8 DEF ReleaseInv

\* A call of the driver.
LEMMA ReleaseEffect ==
  ASSUME IInv, MakeCall
  PROVE  \E i \in Due :
           /\ i \in DOMAIN calls /\ Made(i) /\ UNCHANGED vci
           /\ unreleased \subseteq unreleased'
           /\ \/ UNCHANGED connector
                 /\ (module' \in {"ready", "not_ready"} => module \in {"ready", "not_ready"})
              \/ calls[i].kind = "connect" /\ connector' = calls[i].vci
           /\ calls[i].kind \in {"destruct", "sever"} =>
                \/ calls[i].vci \in unreleased' \/ module' \notin {"ready", "not_ready"}
                \/ calls' = Append(Others(i), Severing(i))
<1>1. PICK i \in Due :
        \/ ModuleIds(i) \/ GetStatus(i) \/ ModuleConnect(i) \/ ModuleDisconnect(i)
        \/ CreateLinkCall(i) \/ RegisterCallback(i) \/ DestroyLink(i)
        \/ DestructModule(i) \/ Sever(i)
  BY DEF MakeCall
<1>2. i \in DOMAIN calls /\ UNCHANGED vci
  BY <1>1 DEF Due, MakeCall, objects
<1>3. Made(i) /\ unreleased \subseteq unreleased'
  BY <1>1 DEF ModuleIds, GetStatus, ModuleConnect, ModuleDisconnect, CreateLinkCall,
     RegisterCallback, DestroyLink, DestructModule, Sever, Answer, Made, Severing, history
<1>4. \/ UNCHANGED connector
         /\ (module' \in {"ready", "not_ready"} => module \in {"ready", "not_ready"})
      \/ calls[i].kind = "connect" /\ connector' = calls[i].vci
  BY <1>1 DEF ModuleIds, GetStatus, ModuleConnect, ModuleDisconnect, CreateLinkCall,
     RegisterCallback, DestroyLink, DestructModule, Sever, history
<1>5. calls[i].kind \in {"destruct", "sever"} => DestructModule(i) \/ Sever(i)
  BY <1>1 DEF ModuleIds, GetStatus, ModuleConnect, ModuleDisconnect, CreateLinkCall,
     RegisterCallback, DestroyLink
<1>6. DestructModule(i) \/ Sever(i) =>
        \/ calls[i].vci \in unreleased' \/ module' \notin {"ready", "not_ready"}
        \/ calls' = Append(Others(i), Severing(i))
  BY DEF DestructModule, Sever, Severing, Connected
<1> QED
  BY <1>1, <1>2, <1>3, <1>4, <1>5, <1>6

LEMMA CallRelease ==
  ASSUME IInv, SpareInv, HoldInv, ReleaseInv, MakeCall
  PROVE  ReleaseInv'
<1>1. /\ CallsType /\ OneCallEach /\ ReleaseLast /\ ReleaseAsked
      /\ HoldersAlive /\ VciOwned /\ NoVci \notin Vcis
  BY TypeParts, VciAssumption DEF IInv, ReleaseInv, SpareInv, HoldInv
<1>2. PICK i \in Due :
        /\ i \in DOMAIN calls /\ Made(i) /\ UNCHANGED vci
        /\ unreleased \subseteq unreleased'
        /\ \/ UNCHANGED connector
              /\ (module' \in {"ready", "not_ready"} => module \in {"ready", "not_ready"})
           \/ calls[i].kind = "connect" /\ connector' = calls[i].vci
        /\ calls[i].kind \in {"destruct", "sever"} =>
             \/ calls[i].vci \in unreleased' \/ module' \notin {"ready", "not_ready"}
             \/ calls' = Append(Others(i), Severing(i))
  BY ReleaseEffect
<1>3. \A j \in DOMAIN calls : j # i => \E k \in DOMAIN calls' : calls'[k] = calls[j]
  BY <1>1, <1>2, MadeCalls
<1>4. ReleaseLast'
  <2>1. /\ i \in Nat
        /\ \A k \in DOMAIN calls' : calls'[k].queued =>
             k \in Nat /\ Was(i, k) \in DOMAIN calls /\ calls'[k] = calls[Was(i, k)]
        /\ \A j \in DOMAIN calls : j \in Nat /\
             (j # i => Now(i, j) \in DOMAIN calls' /\ calls'[Now(i, j)] = calls[j])
        /\ calls[i].queued =>
             \A j \in DOMAIN calls : calls[j].queued /\ j # i => i < j
    BY <1>1, <1>2, MadeOrder
  <2> SUFFICES ASSUME NEW v \in Vcis, vci[v] = "dropped", v \notin unreleased,
                      NEW k \in DOMAIN calls', calls'[k].kind = "connect",
                      calls'[k].queued, calls'[k].vci = v
               PROVE  \E j \in DOMAIN calls' :
                        k < j /\ calls'[j].queued /\ Releases(calls'[j], v)
    BY <1>2 DEF ReleaseLast, Releases
  <2>2. PICK m \in DOMAIN calls : m = Was(i, k) /\ calls'[k] = calls[m] /\ k \in Nat
    BY <2>1
  <2>3. PICK j \in DOMAIN calls : m < j /\ calls[j].queued /\ Releases(calls[j], v)
    BY <1>1, <2>2 DEF ReleaseLast
  <2>4. m \in Nat /\ j \in Nat /\ m # i
    BY <2>1, <2>2 DEF Was
  <2>5. j # i
    BY <2>1, <2>2, <2>3, <2>4
  <2>6. Now(i, j) \in DOMAIN calls' /\ calls'[Now(i, j)] = calls[j] /\ k < Now(i, j)
    BY <2>1, <2>2, <2>3, <2>4, <2>5 DEF Was, Now
  <2> QED
    BY <2>3, <2>6
<1>5. ReleaseAsked'
  <2> SUFFICES ASSUME NEW v \in Vcis, vci[v] = "dropped", v \notin unreleased',
                      connector' = v, module' \in {"ready", "not_ready"}
               PROVE  \E k \in DOMAIN calls' : Releases(calls'[k], v)
    BY <1>2 DEF ReleaseAsked, Releasing, Releases
  <2>1. CASE UNCHANGED connector /\ module \in {"ready", "not_ready"}
    <3>1. PICK j \in DOMAIN calls : Releases(calls[j], v)
      BY <1>1, <1>2, <2>1 DEF ReleaseAsked, Releasing
    <3>2. CASE j # i
      BY <1>3, <3>1, <3>2
    <3>3. CASE j = i
      <4>1. PICK o : o = Others(i)
        OBVIOUS
      <4>2. o \in Seq(Call) /\ calls' = Append(o, Severing(i))
        BY <1>1, <1>2, <3>1, <3>3, <4>1, OthersParts DEF Releases
      <4>3. Len(o) + 1 \in DOMAIN calls' /\ calls'[Len(o) + 1] = Severing(i)
        BY <4>2
      <4>4. Severing(i).kind = "sever" /\ Severing(i).vci = calls[i].vci
        BY <1>1, <1>2 DEF Severing, CallsType, Call
      <4> QED
        BY <3>1, <3>3, <4>3, <4>4 DEF Releases
    <3> QED
      BY <3>2, <3>3
  <2>2. CASE calls[i].kind = "connect" /\ calls[i].vci = v
    <3>1. CASE calls[i].queued
      <4>1. PICK j \in DOMAIN calls : i < j /\ Releases(calls[j], v)
        BY <1>1, <1>2, <2>2, <3>1 DEF ReleaseLast
      <4>2. j # i
        BY <1>1, <4>1 DEF CallsType
      <4> QED
        BY <1>3, <4>1, <4>2
    <3>2. CASE ~calls[i].queued
      <4>1. calls[i].by \in Tasks /\ task[calls[i].by].vci = v
        BY <1>1, <1>2, <2>2, <3>2 DEF VciOwned
      <4> QED
        BY <1>1, <4>1 DEF HoldersAlive
    <3> QED
      BY <3>1, <3>2
  <2> QED
    BY <1>2, <2>1, <2>2
<1> QED
  BY <1>4, <1>5 DEF ReleaseInv

LEMMA NextRelease ==
  ASSUME IInv, SpareInv, HoldInv, ReleaseInv, [Next]_vars
  PROVE  ReleaseInv'
<1>1. /\ TypeOK /\ CallsType /\ TasksApart /\ OnlyListed /\ module \in ModuleStatus
      /\ vci \in [Vcis -> {"none", "alive", "dropped"}]
  BY TypeParts DEF IInv, SpareInv, ObjectsType, DriverType
<1>2. ASSUME NEW t \in Tasks, Task(t)
      PROVE  ReleaseInv'
  <2>1. /\ UNCHANGED <<module, connector, unreleased>>
        /\ \A v \in Vcis : vci'[v] # vci[v] => vci[v] = "none"
    BY <1>1, <1>2, TaskWorks
  <2>2. SameQueue \/ \E c \in Call : Puts(c)
    <3>1. CASE Resume(t) /\ MakeList(t)
      <4>1. PICK v \in Vcis :
              UNCHANGED calls \/ calls' = Append(calls, Destructor(v, task[t].queued))
        BY <3>1 DEF MakeList
      <4>2. PICK c \in Call : c = Destructor(v, task[t].queued)
        BY <1>1, TypeParts, CallsOfTasks DEF TaskType, TaskState
      <4> QED
        BY <4>1, <4>2 DEF SameQueue, Puts, Destructor
    <3>2. CASE ~(Resume(t) /\ MakeList(t))
      BY <1>2, <3>2, TaskQueue
    <3> QED
      BY <3>1, <3>2
  <2> QED
    BY <1>1, <2>1, <2>2, PutRelease
<1>3. ASSUME NEW v \in Vcis, DropVci(v)
      PROVE  ReleaseInv'
  <2>1. /\ UNCHANGED <<module, connector, unreleased>>
        /\ vci' = [vci EXCEPT ![v] = "dropped"]
        /\ calls' = Append(calls, Destructor(v, v \in served))
    BY <1>3 DEF DropVci, history
  <2>2. PICK c \in Call : c = Destructor(v, v \in served)
    BY CallsOfDrops
  <2>3. Puts(c)
    BY <2>1, <2>2 DEF Puts, Destructor
  <2>4. \A w \in Vcis : vci'[w] = "dropped" => vci[w] = "dropped" \/ w = v
    BY <1>1, <2>1
  <2> QED
    BY <1>1, <2>1, <2>3, <2>4, PutRelease
<1>4. CASE (\E l \in Links : DropLink(l)) \/ Collect \/ Environment \/ UNCHANGED vars
  <2>1. UNCHANGED <<connector, unreleased, vci>>
    BY <1>4 DEF DropLink, Collect, Environment, vars, objects, history
  <2>2. module' \in {"ready", "not_ready"} => module \in {"ready", "not_ready"}
    <3>1. UNCHANGED module \/ Environment
      BY <1>4 DEF DropLink, Collect, vars
    <3> QED
      BY <1>1, <3>1 DEF Environment, ModuleStatus
  <2>3. SameQueue \/ \E c \in Call : Puts(c)
    <3>1. CASE UNCHANGED calls
      BY <3>1 DEF SameQueue
    <3>2. ASSUME NEW l \in Links, DropLink(l)
          PROVE  \E c \in Call : Puts(c)
      <4>1. PICK c \in Call : c = Destroy(l, l \in served)
        BY CallsOfDrops
      <4> QED
        BY <3>2, <4>1 DEF Puts, DropLink, Destroy
    <3> QED
      BY <1>4, <3>1, <3>2 DEF Collect, Environment, vars
  <2>4. \A v \in Vcis : vci'[v] = "dropped" => vci[v] = "dropped"
    BY <2>1
  <2> QED
    BY <1>1, <2>1, <2>2, <2>3, <2>4, PutRelease
<1> QED
  BY <1>2, <1>3, <1>4, CallRelease DEF Next

\* The same of links.  A link is an object's only after its creation, which one
\* task at a time is at.
CreateFresh ==
  \A i \in DOMAIN calls : calls[i].kind = "create" =>
    /\ calls[i].link \in Links
    /\ object[calls[i].link] = "none" /\ link[calls[i].link] # "none"
    /\ \A t \in Tasks : task[t].link = calls[i].link => calls[i].by = t

TaskFresh == \A t \in Tasks : task[t].link # NoLink => object[task[t].link] = "none"

LinkFresh == \A l \in Links : link[l] = "none" => object[l] = "none"

DestroyPending ==
  \A l \in Links : object[l] = "dropped" =>
    link[l] = "gone" \/ DestroyAsked(l) \/ l \in unreleased

FreshInv == CreateFresh /\ TaskFresh /\ LinkFresh /\ DestroyPending

LEMMA InitFresh == Init => FreshInv
BY DEF Init, FreshInv, CreateFresh, TaskFresh, LinkFresh, DestroyPending, Idle

\* What a task does to the objects of links.
LEMMA TaskObjects ==
  ASSUME TypeOK, NEW t \in Tasks, Task(t)
  PROVE  \/ UNCHANGED object
         \/ /\ task[t].step = "register" /\ task'[t].link = NoLink
            /\ \/ object' = [object EXCEPT ![task[t].link] = "alive"]
               \/ /\ object' = [object EXCEPT ![task[t].link] = "dropped"]
                  /\ \A l \in Links : l = task[t].link => DestroyAsked(l)'
<1>1. CallsType /\ task \in [Tasks -> TaskState]
  BY TypeParts DEF TaskType
<1>2. CASE Resume(t)
  <2>1. CASE HandOut(t)
    <3>1. task[t].step = "register" /\ task'[t].link = NoLink
      BY <1>1, <2>1 DEF HandOut, Finish, Idle
    <3>2. ASSUME NEW l \in Links, NEW q \in BOOLEAN, calls' = Append(calls, Destroy(l, q))
          PROVE  DestroyAsked(l)'
      <4>1. Len(calls) + 1 \in DOMAIN calls' /\ calls'[Len(calls) + 1] = Destroy(l, q)
        BY <1>1, <3>2 DEF CallsType
      <4>2. Destroy(l, q).kind = "destroy" /\ Destroy(l, q).link = l
        BY DEF Destroy
      <4> QED
        BY <4>1, <4>2 DEF DestroyAsked
    <3>3. PICK q \in BOOLEAN : q = (task[t].vci \in served)
      BY ServedOrNot
    <3> QED
      BY <2>1, <3>1, <3>2, <3>3 DEF HandOut
  <2>2. CASE ~HandOut(t)
    BY <1>2, <2>2 DEF Resume, MakeList, ActOnStatus, Register, Undo, Over, objects
  <2> QED
    BY <2>1, <2>2
<1>3. CASE ~Resume(t)
  BY <1>3 DEF Task, List, Connect, Disconnect, CreateLink, Begin, Abandon, objects
<1> QED
  BY <1>2, <1>3

\* A step that keeps the calls, or puts one, keeps what is under way.
Calling == \A i \in DOMAIN calls :
  /\ i \in DOMAIN calls'
  /\ calls'[i].kind = calls[i].kind /\ calls'[i].link = calls[i].link

LEMMA CallingKept ==
  ASSUME CallsType, UNCHANGED calls \/ \E c : calls' = Append(calls, c)
  PROVE  Calling /\ \A i \in DOMAIN calls : calls'[i] = calls[i]
BY DEF CallsType, Calling

LEMMA WorksFresh ==
  ASSUME IInv, FreshInv, NEW t \in Tasks, Task(t), NEW r \in TaskState, Works(t, r)
  PROVE  FreshInv'
<1>1. /\ CallsType /\ TasksApart /\ CallsOwned /\ CreateFresh /\ TaskFresh /\ LinkFresh
      /\ DestroyPending /\ NoLink \notin Links /\ TypeOK /\ NoTask \notin Tasks
      /\ task \in [Tasks -> TaskState] /\ task' = [task EXCEPT ![t] = r]
      /\ object \in [Links -> {"none", "alive", "dropped"}]
      /\ link \in [Links -> {"none", "asked", "refused", "open", "gone"}]
  BY TypeParts, VciAssumption DEF IInv, FreshInv, TaskType, Works, ObjectsType, DriverType
<1>2. \A i \in DOMAIN calls : calls[i].by # t
  BY <1>1, NoCallOf DEF Works
<1>3. Calling /\ \A i \in DOMAIN calls : calls'[i] = calls[i]
  BY <1>1, CallingKept DEF Works
<1>4. \A u \in Tasks : task'[u] = IF u = t THEN r ELSE task[u]
  BY <1>1
<1>5. \A u \in Tasks : task[u].link \in Links \cup {NoLink}
                      /\ (task[u].link # NoLink => link[task[u].link] # "none")
  BY <1>1 DEF TasksApart, TaskState
<1>6. PICK l : l = task[t].link
  OBVIOUS
<1>7. \/ UNCHANGED object
      \/ /\ l \in Links /\ r.link = NoLink
         /\ \/ object' = [object EXCEPT ![l] = "alive"]
            \/ object' = [object EXCEPT ![l] = "dropped"] /\ DestroyAsked(l)'
  <2>1. task[t].step = "register" => l \in Links
    BY <1>1, <1>5, <1>6 DEF TasksApart, Linked
  <2>2. task'[t].link = NoLink => r.link = NoLink
    BY <1>4
  <2> QED
    BY <1>1, <1>6, <2>1, <2>2, TaskObjects
<1>8. \/ r.link \in {NoLink, l} /\ UNCHANGED link
      \/ /\ r.link \in Links /\ link[r.link] = "none"
         /\ link' = [link EXCEPT ![r.link] = "asked"]
  BY <1>6 DEF Works
<1>9. \A x \in Links : /\ link[x] # "none" => link'[x] = link[x]
                       /\ link'[x] = "none" => link[x] = "none"
  BY <1>1, <1>8
<1>10. \A x \in Links : object'[x] # object[x] => x = l /\ r.link = NoLink /\ link[l] # "none"
  BY <1>1, <1>5, <1>6, <1>7
<1>11. CreateFresh'
  <2>1. ASSUME NEW i \in DOMAIN calls, calls[i].kind = "create"
        PROVE  /\ calls[i].link \in Links
               /\ object'[calls[i].link] = "none" /\ link'[calls[i].link] # "none"
               /\ \A u \in Tasks : task'[u].link = calls[i].link => calls[i].by = u
    <3>1. /\ calls[i].link \in Links
          /\ object[calls[i].link] = "none" /\ link[calls[i].link] # "none"
          /\ \A u \in Tasks : task[u].link = calls[i].link => calls[i].by = u
      BY <1>1, <2>1 DEF CreateFresh
    <3>2. calls[i].link # l
      BY <1>2, <1>6, <3>1
    <3>3. r.link # calls[i].link
      BY <1>1, <1>8, <3>1, <3>2
    <3> QED
      BY <1>4, <1>9, <1>10, <3>1, <3>2, <3>3
  <2>2. CASE UNCHANGED calls
    BY <2>1, <2>2 DEF CreateFresh
  <2>3. ASSUME NEW c \in Call, calls' = Append(calls, c),
               \/ c.by = NoTask /\ c.kind \in {"destruct", "destroy"}
               \/ /\ c.by = t /\ c.link = r.link
                  /\ c.kind = "create" => link[r.link] = "none" /\ r.link \in Links
        PROVE  CreateFresh'
    <3>1. PICK n : n = Len(calls) + 1
      OBVIOUS
    <3>2. DOMAIN calls' = DOMAIN calls \cup {n} /\ calls'[n] = c
      BY <1>1, <2>3, <3>1 DEF CallsType
    <3>3. ASSUME c.kind = "create"
          PROVE  /\ c.link \in Links
                 /\ object'[c.link] = "none" /\ link'[c.link] # "none"
                 /\ \A u \in Tasks : task'[u].link = c.link => c.by = u
      <4>1. c.link \in Links /\ c.link = r.link /\ link[r.link] = "none" /\ c.by = t
        BY <2>3, <3>3
      <4>2. object'[c.link] = "none"
        BY <1>1, <1>10, <4>1 DEF LinkFresh
      <4>3. link'[c.link] # "none"
        BY <1>1, <1>5, <1>6, <1>8, <4>1
      <4> QED
        BY <1>4, <1>5, <4>1, <4>2, <4>3, <1>1
    <3> QED
      BY <1>3, <2>1, <3>2, <3>3 DEF CreateFresh
  <2> QED
    BY <2>2, <2>3 DEF Works
<1>12. TaskFresh'
  <2> SUFFICES ASSUME NEW u \in Tasks, task'[u].link # NoLink
               PROVE  object'[task'[u].link] = "none"
    BY DEF TaskFresh
  <2>1. CASE u # t
    <3>1. task'[u].link = task[u].link /\ task[u].link \in Links
      BY <1>4, <1>5, <2>1
    <3>2. task[u].link # l
      BY <1>1, <1>6, <2>1, <3>1 DEF TasksApart
    <3> QED
      BY <1>1, <1>10, <3>1, <3>2 DEF TaskFresh
  <2>2. CASE u = t
    <3>1. r.link = task'[u].link /\ r.link # NoLink
      BY <1>4, <2>2
    <3>2. r.link \in Links /\ object[r.link] = "none"
      BY <1>1, <1>5, <1>6, <1>8, <3>1 DEF TaskFresh, LinkFresh
    <3> QED
      BY <1>10, <3>1, <3>2
  <2> QED
    BY <2>1, <2>2
<1>13. LinkFresh'
  BY <1>1, <1>9, <1>10 DEF LinkFresh
<1>14. DestroyPending'
  <2> SUFFICES ASSUME NEW x \in Links, object'[x] = "dropped"
               PROVE  link'[x] = "gone" \/ DestroyAsked(x)' \/ x \in unreleased'
    BY DEF DestroyPending
  <2>0. UNCHANGED unreleased
    BY <1>1, TaskWorks
  <2>1. CASE object[x] = "dropped"
    <3>1. link[x] = "gone" => link'[x] = "gone"
      BY <1>9
    <3>2. DestroyAsked(x) => DestroyAsked(x)'
      BY <1>3 DEF DestroyAsked, Calling
    <3> QED
      BY <1>1, <2>0, <2>1, <3>1, <3>2 DEF DestroyPending
  <2>2. CASE object[x] # "dropped"
    BY <1>1, <1>7, <2>2
  <2> QED
    BY <2>1, <2>2
<1> QED
  BY <1>11, <1>12, <1>13, <1>14 DEF FreshInv

LEMMA AbandonFresh ==
  ASSUME IInv, FreshInv, NEW t \in Tasks, Abandon(t)
  PROVE  FreshInv'
<1>1. /\ CallsType /\ CreateFresh /\ TaskFresh /\ LinkFresh /\ DestroyPending
      /\ NoLink \notin Links /\ task \in [Tasks -> TaskState]
      /\ UNCHANGED <<object, link, unreleased>>
  BY TypeParts, VciAssumption DEF IInv, FreshInv, TaskType, Abandon, objects
<1>2. \A i \in DOMAIN calls : calls[i] \in Call
  BY <1>1 DEF CallsType
<1>3. /\ DOMAIN calls' = DOMAIN calls /\ Calling
      /\ \A i \in DOMAIN calls : calls'[i].by # calls[i].by =>
           task[t].queued /\ calls[i].by = t
  <2>1. \A c \in Call : /\ [c EXCEPT !.by = NoTask].kind = c.kind
                        /\ [c EXCEPT !.by = NoTask].link = c.link
    BY DEF Call
  <2>2. CASE task[t].queued
    BY <1>2, <2>1, <2>2 DEF Abandon, Calling
  <2>3. CASE ~task[t].queued
    BY <2>3 DEF Abandon, Calling
  <2> QED
    BY <2>2, <2>3
<1>4. \A u \in Tasks : /\ task'[u].link \in {task[u].link, NoLink}
                       /\ u = t /\ task[t].queued => task'[u].link = NoLink
  <2>1. CASE task[t].queued
    BY <1>1, <2>1 DEF Abandon, Idle
  <2>2. CASE ~task[t].queued
    <3>1. PICK q : q = [task[t] EXCEPT !.orphan = TRUE]
      OBVIOUS
    <3>2. q.link = task[t].link /\ task' = [task EXCEPT ![t] = q]
      BY <1>1, <2>2, <3>1 DEF Abandon, TaskState
    <3> QED
      BY <1>1, <2>2, <3>2
  <2> QED
    BY <2>1, <2>2
<1>5. CreateFresh'
  <2> SUFFICES ASSUME NEW i \in DOMAIN calls, calls[i].kind = "create"
               PROVE  /\ calls'[i].link \in Links
                      /\ object[calls'[i].link] = "none" /\ link[calls'[i].link] # "none"
                      /\ \A u \in Tasks : task'[u].link = calls'[i].link => calls'[i].by = u
    BY <1>1, <1>3 DEF CreateFresh, Calling
  <2>1. /\ calls'[i].link = calls[i].link /\ calls[i].link \in Links
        /\ object[calls[i].link] = "none" /\ link[calls[i].link] # "none"
        /\ \A u \in Tasks : task[u].link = calls[i].link => calls[i].by = u
    BY <1>1, <1>3 DEF CreateFresh, Calling
  <2> QED
    BY <1>1, <1>3, <1>4, <2>1
<1>6. TaskFresh'
  BY <1>1, <1>4 DEF TaskFresh
<1>7. DestroyPending'
  BY <1>1, <1>3 DEF DestroyPending, DestroyAsked, Calling
<1> QED
  BY <1>1, <1>5, <1>6, <1>7 DEF FreshInv, LinkFresh

LEMMA ObjectFresh ==
  ASSUME IInv, FreshInv, UNCHANGED <<task, link, unreleased>>,
         \/ UNCHANGED calls
         \/ \E c \in Call : calls' = Append(calls, c) /\ c.kind # "create",
         \A l \in Links : \/ object'[l] = object[l]
                          \/ object[l] = "alive" /\ DestroyAsked(l)'
  PROVE  FreshInv'
<1>1. /\ CallsType /\ CreateFresh /\ TaskFresh /\ LinkFresh /\ DestroyPending
      /\ task \in [Tasks -> TaskState]
  BY TypeParts DEF IInv, FreshInv, TaskType
<1>2. Calling /\ \A i \in DOMAIN calls : calls'[i] = calls[i]
  BY <1>1, CallingKept
<1>3. \A i \in DOMAIN calls' : i \in DOMAIN calls \/ calls'[i].kind # "create"
  <2>1. ASSUME NEW c \in Call, calls' = Append(calls, c), c.kind # "create"
        PROVE  \A i \in DOMAIN calls' : i \in DOMAIN calls \/ calls'[i].kind # "create"
    <3>1. PICK n : n = Len(calls) + 1
      OBVIOUS
    <3>2. DOMAIN calls' = DOMAIN calls \cup {n} /\ calls'[n] = c
      BY <1>1, <2>1, <3>1 DEF CallsType
    <3> QED
      BY <2>1, <3>2
  <2> QED
    BY <2>1
<1>4. CreateFresh'
  BY <1>1, <1>2, <1>3 DEF CreateFresh
<1>5. TaskFresh'
  BY <1>1 DEF TaskFresh, TaskState
<1>6. LinkFresh'
  BY <1>1 DEF LinkFresh
<1>7. DestroyPending'
  <2>1. \A l \in Links : DestroyAsked(l) => DestroyAsked(l)'
    BY <1>2 DEF DestroyAsked, Calling
  <2> QED
    BY <1>1, <2>1 DEF DestroyPending
<1> QED
  BY <1>4, <1>5, <1>6, <1>7 DEF FreshInv

LEMMA CallFresh ==
  ASSUME IInv, FreshInv, MakeCall
  PROVE  FreshInv'
<1>1. /\ CallsType /\ OneCallEach /\ CreateFresh /\ TaskFresh /\ LinkFresh /\ DestroyPending
      /\ task \in [Tasks -> TaskState] /\ UNCHANGED object
      /\ link \in [Links -> {"none", "asked", "refused", "open", "gone"}]
  BY TypeParts DEF IInv, FreshInv, TaskType, MakeCall, objects, DriverType
<1>2. PICK i \in Due :
        \/ ModuleIds(i) \/ GetStatus(i) \/ ModuleConnect(i) \/ ModuleDisconnect(i)
        \/ CreateLinkCall(i) \/ RegisterCallback(i) \/ DestroyLink(i)
        \/ DestructModule(i) \/ Sever(i)
  BY DEF MakeCall
<1>3. i \in DOMAIN calls /\ calls[i] \in Call
  BY <1>1, <1>2 DEF Due, CallsType
<1>4. Made(i) /\ (UNCHANGED task \/ \E r \in Replies : Answer(i, r))
  BY <1>2 DEF ModuleIds, GetStatus, ModuleConnect, ModuleDisconnect, CreateLinkCall,
     RegisterCallback, DestroyLink, DestructModule, Sever, Answer, Made, Severing, Replies
<1>5. \A u \in Tasks : task'[u].link = task[u].link
  <2>1. TypeOK
    BY DEF IInv
  <2> QED
    BY <1>1, <1>3, <1>4, <2>1, Answered DEF IInv
<1>6. /\ \A k \in DOMAIN calls' :
           (\E j \in DOMAIN calls : calls'[k] = calls[j]) \/ calls'[k] = Severing(i)
      /\ \A j \in DOMAIN calls : j # i => \E k \in DOMAIN calls' : calls'[k] = calls[j]
  BY <1>1, <1>3, <1>4, MadeCalls
<1>7. Severing(i).kind = "sever"
  BY <1>3 DEF Severing, Call
<1>8. /\ \A l \in Links :
           \/ link'[l] = link[l]
           \/ calls[i].kind \in {"create", "destroy"} /\ calls[i].link = l /\ link'[l] # "none"
      /\ calls[i].kind = "destroy" =>
           \A l \in Links : l = calls[i].link => link'[l] = "gone" \/ l \in unreleased'
      /\ unreleased \subseteq unreleased'
  <2>1. CASE CreateLinkCall(i)
    <3>1. \E x \in {"open", "refused"} : link' = [link EXCEPT ![calls[i].link] = x]
      BY <2>1 DEF CreateLinkCall
    <3> QED
      BY <1>1, <2>1, <3>1 DEF CreateLinkCall, history
  <2>2. CASE DestroyLink(i)
    BY <1>1, <2>2 DEF DestroyLink
  <2>3. CASE ~CreateLinkCall(i) /\ ~DestroyLink(i)
    <3>1. /\ UNCHANGED link /\ calls[i].kind # "destroy"
          /\ unreleased \subseteq unreleased'
      BY <1>2, <2>3 DEF ModuleIds, GetStatus, ModuleConnect, ModuleDisconnect,
         RegisterCallback, DestructModule, Sever, history
    <3> QED
      BY <3>1
  <2> QED
    BY <2>1, <2>2, <2>3
<1>9. CreateFresh'
  <2> SUFFICES ASSUME NEW k \in DOMAIN calls', calls'[k].kind = "create"
               PROVE  /\ calls'[k].link \in Links
                      /\ object[calls'[k].link] = "none" /\ link'[calls'[k].link] # "none"
                      /\ \A u \in Tasks : task'[u].link = calls'[k].link => calls'[k].by = u
    BY <1>1 DEF CreateFresh
  <2>1. PICK j \in DOMAIN calls : calls'[k] = calls[j]
    BY <1>6, <1>7
  <2>2. /\ calls[j].link \in Links
        /\ object[calls[j].link] = "none" /\ link[calls[j].link] # "none"
        /\ \A u \in Tasks : task[u].link = calls[j].link => calls[j].by = u
    BY <1>1, <2>1 DEF CreateFresh
  <2> QED
    BY <1>5, <1>8, <2>1, <2>2
<1>10. TaskFresh'
  BY <1>1, <1>5 DEF TaskFresh
<1>11. LinkFresh'
  BY <1>1, <1>8 DEF LinkFresh
<1>12. DestroyPending'
  <2> SUFFICES ASSUME NEW l \in Links, object[l] = "dropped", link'[l] # "gone",
                      l \notin unreleased'
               PROVE  \E k \in DOMAIN calls' : calls'[k].kind = "destroy" /\ calls'[k].link = l
    BY <1>1 DEF DestroyPending, DestroyAsked
  <2>1. link[l] # "gone" /\ l \notin unreleased
    <3>1. calls[i].kind = "create" => calls[i].link # l
      BY <1>1, <1>3 DEF CreateFresh
    <3> QED
      BY <1>8, <3>1
  <2>2. PICK j \in DOMAIN calls : calls[j].kind = "destroy" /\ calls[j].link = l
    BY <1>1, <2>1 DEF DestroyPending, DestroyAsked
  <2>3. j # i
    BY <1>8, <2>2
  <2> QED
    BY <1>6, <2>2, <2>3
<1> QED
  BY <1>9, <1>10, <1>11, <1>12 DEF FreshInv

LEMMA NextFresh ==
  ASSUME IInv, FreshInv, [Next]_vars
  PROVE  FreshInv'
<1>1. TypeOK /\ TasksApart /\ CallsType /\ object \in [Links -> {"none", "alive", "dropped"}]
  BY TypeParts DEF IInv, ObjectsType
<1>2. ASSUME NEW t \in Tasks, Task(t)
      PROVE  FreshInv'
  BY <1>1, <1>2, TaskWorks, WorksFresh, AbandonFresh
<1>3. ASSUME NEW v \in Vcis, DropVci(v)
      PROVE  FreshInv'
  <2>1. PICK c \in Call : c = Destructor(v, v \in served)
    BY CallsOfDrops
  <2>2. /\ c.kind # "create" /\ calls' = Append(calls, c)
        /\ UNCHANGED <<task, link, object, unreleased>>
    BY <1>3, <2>1 DEF DropVci, Destructor, history
  <2> QED
    BY <2>2, ObjectFresh
<1>4. ASSUME NEW l \in Links, DropLink(l)
      PROVE  FreshInv'
  <2>1. PICK c \in Call : c = Destroy(l, l \in served)
    BY CallsOfDrops
  <2>2. /\ c.kind = "destroy" /\ c.link = l /\ calls' = Append(calls, c)
        /\ UNCHANGED <<task, link, unreleased>> /\ object[l] = "alive"
        /\ object' = [object EXCEPT ![l] = "dropped"]
    BY <1>4, <2>1 DEF DropLink, Destroy, history
  <2>3. Len(calls) + 1 \in DOMAIN calls' /\ calls'[Len(calls) + 1] = c
    BY <1>1, <2>2 DEF CallsType
  <2>4. DestroyAsked(l)'
    BY <2>2, <2>3 DEF DestroyAsked
  <2>5. \A x \in Links : object'[x] = object[x] \/ (object[x] = "alive" /\ DestroyAsked(x)')
    BY <1>1, <2>2, <2>4
  <2> QED
    BY <2>2, <2>5, ObjectFresh
<1>5. CASE Collect \/ Environment \/ UNCHANGED vars
  <2>1. UNCHANGED <<task, link, calls, object, unreleased>>
    BY <1>5 DEF Collect, Environment, vars, objects, history
  <2> QED
    BY <2>1, ObjectFresh
<1> QED
  BY <1>2, <1>3, <1>4, <1>5, CallFresh DEF Next

\* What DroppedReleased promises, but for the time it takes: at any moment what
\* is dropped is released, or a call that releases it has been asked for, behind
\* every connect() of it that is left in the worker's queue, or has failed.
DroppedIsPending == ReleaseAsked /\ ReleaseLast /\ DestroyPending

-----------------------------------------------------------------------------
(***************************************************************************)
(* Theorems.                                                               *)
(***************************************************************************)

\* The state is well typed, and a task that is not at work holds no object:
\* its future let go of the PduVci and of the link it was creating.
THEOREM TypeCorrect == Spec => []TypeOK
<1>1. IInv => TypeOK
  BY DEF IInv
<1> QED
  BY <1>1, Invariant, PTL

\* register_module(), the destructor and the collector together: the entry of
\* a module handle is the PduVci in use, of which there is at most one.
THEOREM HandlesLead == Spec => []ListedIsFound
<1>1. IInv => ListedIsFound
  BY DEF IInv
<1> QED
  BY <1>1, Invariant, PTL

\* create_logical_link(), its undoing and the Drop of PduLogicalLink together:
\* an open link of the driver is an object's, is at work, is lost by a creation
\* that the worker went on with alone, or is one the driver refused to destroy.
THEOREM LinksAccounted == Spec => []LinkAccounted
<1>1. IInv => LinkAccounted
  BY DEF IInv
<1> QED
  BY <1>1, Invariant, PTL

\* The destructor, the worker's order of the calls and the registration of a
\* new PduVci together: as long as no listing has panicked, no destructor in the
\* worker's queue disconnects what the PduVci in use has connected through it.
\* One outside the queue may, and any may when blocking_connect() connected it.
THEOREM LaterConnectionsAreSpared == Spec => DestructorSparesOthers
<1>1. (IInv /\ SpareInv) /\ [Next]_vars => Spares
  BY NextSpares
<1>2. Spec => [][Spares]_vars
  BY <1>1, SpareInvariant, PTL DEF Spec
<1> QED
  BY <1>2 DEF DestructorSparesOthers, Spares

\* The drop of a PduVci and of a link, their destructors, the worker's order of
\* the calls and the Arcs of the tasks together: what is dropped is released, or
\* the call that releases it has been asked for, and a connect() that an
\* abandoned task left in the worker's queue is made before that call.  What a
\* failing call of the destructor leaves is excepted, since no code tries it
\* again.  That the call is made at all is liveness.
THEOREM DropsArePending == Spec => []DroppedIsPending
<1>1. Init => HoldInv /\ ReleaseInv /\ FreshInv
  BY InitRelease, InitFresh
<1>2. (IInv /\ SpareInv) /\ (HoldInv /\ ReleaseInv /\ FreshInv) /\ [Next]_vars
        => (HoldInv /\ ReleaseInv /\ FreshInv)'
  BY NextHold, NextRelease, NextFresh
<1>3. HoldInv /\ ReleaseInv /\ FreshInv => DroppedIsPending
  BY DEF ReleaseInv, FreshInv, DroppedIsPending
<1> QED
  BY <1>1, <1>2, <1>3, SpareInvariant, PTL DEF Spec

=============================================================================
