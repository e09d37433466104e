--------------------------------- MODULE Vci ---------------------------------
(***************************************************************************)
(* PduVci (types/pdu_vci.rs): the objects made for one communication       *)
(* module of the driver by list(), connecting and disconnecting it, the    *)
(* creation of logical links, and vt_module_destructor() when the object is*)
(* dropped.  The calls go to the driver through the worker, one by one in  *)
(* the order they were put, or each on a thread of its own: those of a     *)
(* PduVci made without a worker, and of every blocking_*() method, whoever *)
(* made the PduVci.  A PduVci is found by its module handle in             *)
(* PduHandleManager, which has one entry for the module.                   *)
(***************************************************************************)
EXTENDS Naturals, Sequences

CONSTANTS
  Vcis,      \* the PduVci objects made over time
  Links,     \* the logical links made over time
  Tasks,     \* tasks of the application
  MaxCalls,  \* bound on the operations each task begins
  MaxFails   \* bound on the driver calls that fail

NoVci == "no_vci"
NoLink == "no_link"
NoTask == "no_task"

ASSUME VciAssumption ==
  /\ MaxCalls \in Nat /\ MaxFails \in Nat
  /\ NoVci \notin Vcis /\ NoLink \notin Links /\ NoTask \notin Tasks
  /\ Vcis \cap Links = {}

\* PduStatus of a module.
ModuleStatus == {"avail", "not_avail", "ready", "not_ready"}
Kinds == {"ids", "status", "connect", "disconnect", "create", "register",
          "destroy", "destruct", "sever"}
Steps == {"idle", "list", "connect_status", "connect", "disconnect_status",
          "disconnect", "create", "register", "undo"}
Call == {c \in [kind : Kinds, vci : Vcis \cup {NoVci}, link : Links \cup {NoLink},
                by : Tasks \cup {NoTask}, queued : BOOLEAN] :
           /\ c.kind \in {"destruct", "sever"} => c.vci # NoVci
           /\ c.kind = "destroy" => c.link # NoLink}

VARIABLES
  served,       \* the PduVcis and PduLogicalLinks made with a worker
  module,       \* the driver's status of the module
  link,         \* the driver's side of each link
  calls,        \* driver calls asked for and not made yet, oldest first
  vci,          \* the life of each PduVci
  entry,        \* the PduVci registered for the module handle
  object,       \* the life of each PduLogicalLink
  task,         \* what each task awaits, for which objects, and the answer
  begun,        \* operations each task has begun
  fails,        \* driver calls that have failed
  list_panicked,\* register_module() found an entry
  connector,    \* history: the PduVci that connected the module last
  direct,       \* history: and that it did so with blocking_connect()
  forsaken,     \* history: links whose creation the worker went on with alone
  unreleased    \* history: the PduVcis whose destructor met a failing call, the
                \* links the driver refused to destroy

objects == <<vci, entry, object, served, list_panicked>>
history == <<connector, direct, forsaken, unreleased>>
vars == <<module, link, calls, objects, task, begun, fails, history>>

-----------------------------------------------------------------------------
(***************************************************************************)
(* Tasks.  A task holds the Arc of the PduVci it uses while its operation  *)
(* runs.  Its calls are queued at the worker, or are its own thread's.  A  *)
(* task whose future is dropped is gone at once if its calls are queued;   *)
(* the future of an object without a worker leaves a blocking thread that  *)
(* runs on with its own Arc, and a blocking_*() call has no future.        *)
(***************************************************************************)
Idle == [step |-> "idle", vci |-> NoVci, link |-> NoLink, queued |-> FALSE,
         orphan |-> FALSE, reply |-> "none"]

InUse(v) == \E t \in Tasks : task[t].vci = v

\* A call for the objects of a task, which awaits it.
Ask(t, step, kind) ==
  /\ task' = [task EXCEPT ![t].step = step, ![t].reply = "none"]
  /\ calls' = Append(calls, [kind |-> kind, vci |-> task[t].vci,
                             link |-> task[t].link, by |-> t,
                             queued |-> task[t].queued])

Begin(t, q, step, v, l, kind) ==
  /\ task[t].step = "idle" /\ begun[t] < MaxCalls
  /\ begun' = [begun EXCEPT ![t] = @ + 1]
  /\ task' = [task EXCEPT ![t] = [Idle EXCEPT !.step = step, !.vci = v, !.link = l,
                                             !.queued = q]]
  /\ calls' = Append(calls, [kind |-> kind, vci |-> v, link |-> l, by |-> t,
                             queued |-> q])
  /\ UNCHANGED <<module, objects, fails, history>>

\* list() of a worker; blocking_list(), and list() without one: PDUGetModuleIds
\* first.
List(t, q) == Begin(t, q, "list", NoVci, NoLink, "ids") /\ UNCHANGED link

\* connect(), disconnect() of a PduVci with a worker; those of one without,
\* and blocking_connect(), blocking_disconnect() of both: the status first.
Usable(v, q) == vci[v] = "alive" /\ (q => v \in served)
Connect(t, q, v) ==
  /\ Usable(v, q)
  /\ Begin(t, q, "connect_status", v, NoLink, "status") /\ UNCHANGED link
Disconnect(t, q, v) ==
  /\ Usable(v, q)
  /\ Begin(t, q, "disconnect_status", v, NoLink, "status") /\ UNCHANGED link

\* blocking_create_logical_link(), create_logical_link(): the sender of the
\* events is registered and the driver asked for the link.
CreateLink(t, q, v, l) ==
  /\ Usable(v, q) /\ link[l] = "none"
  /\ link' = [link EXCEPT ![l] = "asked"]
  /\ Begin(t, q, "create", v, l, "create")

\* The future is dropped.  What the worker has been asked for is made all the
\* same, and nobody waits for it.
Abandon(t) ==
  /\ task[t].step # "idle" /\ ~task[t].orphan
  /\ task[t].queued \/ task[t].vci \notin served
  /\ IF task[t].queued
       THEN /\ task' = [task EXCEPT ![t] = Idle]
            /\ forsaken' = forsaken \cup ({task[t].link} \ {NoLink})
            /\ calls' = [i \in DOMAIN calls |->
                 IF calls[i].by = t THEN [calls[i] EXCEPT !.by = NoTask] ELSE calls[i]]
       ELSE /\ task' = [task EXCEPT ![t].orphan = TRUE]
            /\ UNCHANGED <<forsaken, calls>>
  /\ UNCHANGED <<module, link, objects, begun, fails, connector, direct, unreleased>>

-----------------------------------------------------------------------------
(***************************************************************************)
(* What a task does with the answer.                                       *)
(***************************************************************************)
Destructor(v, q) ==
  [kind |-> "destruct", vci |-> v, link |-> NoLink, by |-> NoTask, queued |-> q]
Destroy(l, q) ==
  [kind |-> "destroy", vci |-> NoVci, link |-> l, by |-> NoTask, queued |-> q]

\* Mutation: the task goes on holding its objects.
FinishHolding(t) == task' = [task EXCEPT ![t].step = "idle", ![t].reply = "none"]
Finish(t) == task' = [task EXCEPT ![t] = Idle]

\* register_module(): or_insert() keeps an entry that is there, and setting
\* its reference again panics.
\* Mutation: the entry is replaced.
RegisterOverwrites(v) == entry' = v /\ UNCHANGED list_panicked
RegisterModule(v) ==
  IF entry = NoVci THEN entry' = v /\ UNCHANGED list_panicked
                   ELSE list_panicked' = TRUE /\ UNCHANGED entry

\* The list is made, with the module's PduVci in it.  The PduVci is dropped at
\* once when the panic unwinds the stack, and when the list has no taker.
MakeList(t) ==
  /\ task[t].step = "list"
  /\ \E v \in Vcis :
       /\ vci[v] = "none"
       /\ served' = served \cup (IF task[t].queued THEN {v} ELSE {})
       /\ RegisterModule(v)
       /\ IF entry' # v \/ task[t].orphan
            THEN /\ vci' = [vci EXCEPT ![v] = "dropped"]
                 /\ calls' = Append(calls, Destructor(v, task[t].queued))
            ELSE vci' = [vci EXCEPT ![v] = "alive"] /\ UNCHANGED calls
  /\ Finish(t)
  /\ UNCHANGED <<object, forsaken>>

\* The status decides whether connect() and disconnect() go on.
ActOnStatus(t) ==
  /\ \/ task[t].step = "connect_status" /\ task[t].reply = "available"
          /\ Ask(t, "connect", "connect")
     \/ task[t].step = "disconnect_status" /\ task[t].reply = "connected"
          /\ Ask(t, "disconnect", "disconnect")
  /\ UNCHANGED <<objects, forsaken>>

\* After PDUCreateComLogicalLink, PDURegisterEventCallback.
Register(t) ==
  /\ task[t].step = "create" /\ task[t].reply = "ok"
  /\ Ask(t, "register", "register")
  /\ UNCHANGED <<objects, forsaken>>

\* The link is handed out, with the worker of its PduVci; that of an orphaned
\* task has no taker.
HandOut(t) ==
  LET l == task[t].link
      q == task[t].vci \in served IN
  /\ task[t].step = "register" /\ task[t].reply = "ok"
  /\ served' = served \cup (IF q THEN {l} ELSE {})
  /\ IF task[t].orphan
       THEN /\ object' = [object EXCEPT ![l] = "dropped"]
            /\ calls' = Append(calls, Destroy(l, q))
       ELSE object' = [object EXCEPT ![l] = "alive"] /\ UNCHANGED calls
  /\ Finish(t)
  /\ UNCHANGED <<vci, entry, list_panicked, forsaken>>

\* When PDURegisterEventCallback fails the link is destroyed again: by a call
\* of the blocking thread, or by a future of the worker's that nobody awaits,
\* and so never asked for.
\* Mutation: the blocking thread forgets it too.
GiveUpForgets(t) ==
  /\ forsaken' = IF task[t].queued THEN forsaken \cup {task[t].link} ELSE forsaken
  /\ Finish(t) /\ UNCHANGED calls
GiveUp(t) ==
  IF task[t].queued
    THEN /\ forsaken' = forsaken \cup {task[t].link}
         /\ Finish(t) /\ UNCHANGED calls
    ELSE Ask(t, "undo", "destroy") /\ UNCHANGED forsaken

Undo(t) ==
  /\ task[t].step = "register" /\ task[t].reply = "error"
  /\ GiveUp(t)
  /\ UNCHANGED objects

\* Otherwise the operation is over.
Over(t) ==
  /\ \/ task[t].step \in {"connect", "disconnect", "undo"}
     \/ task[t].step = "create" /\ task[t].reply = "error"
     \/ task[t].step = "connect_status" /\ task[t].reply # "available"
     \/ task[t].step = "disconnect_status" /\ task[t].reply # "connected"
  /\ Finish(t)
  /\ UNCHANGED <<calls, objects, forsaken>>

Resume(t) ==
  /\ task[t].reply # "none"
  /\ \/ MakeList(t) \/ ActOnStatus(t) \/ Register(t) \/ HandOut(t) \/ Undo(t)
     \/ Over(t)
  /\ UNCHANGED <<module, link, begun, fails, connector, direct, unreleased>>

-----------------------------------------------------------------------------
(***************************************************************************)
(* The objects are dropped.                                                *)
(***************************************************************************)

\* Drop for PduVci asks for its destructor.
DropVci(v) ==
  /\ vci[v] = "alive" /\ ~InUse(v)
  /\ vci' = [vci EXCEPT ![v] = "dropped"]
  /\ calls' = Append(calls, Destructor(v, v \in served))
  /\ UNCHANGED <<module, link, entry, object, served, list_panicked, task, begun,
                 fails, history>>

\* So does Drop for PduLogicalLink, which does not hold the PduVci.
DropLink(l) ==
  /\ object[l] = "alive"
  /\ object' = [object EXCEPT ![l] = "dropped"]
  /\ calls' = Append(calls, Destroy(l, l \in served))
  /\ UNCHANGED <<module, link, vci, entry, served, list_panicked, task, begun,
                 fails, history>>

\* The collector of PduHandleManager keeps an entry while its sender lives.
\* Mutation: while its object was made less than ten seconds ago.
CollectableInTime == entry # NoVci
Collectable == entry # NoVci /\ vci[entry] = "dropped"

Collect ==
  /\ Collectable
  /\ entry' = NoVci
  /\ UNCHANGED <<module, link, calls, vci, object, served, list_panicked, task,
                 begun, fails, history>>

-----------------------------------------------------------------------------
(***************************************************************************)
(* The driver calls.                                                       *)
(***************************************************************************)

\* The worker makes the queued calls in order.  The threads make theirs in any
\* order and beside it, but one at a time for each PduVci (pdu_sync), which the
\* creation of a link holds from its first call to its last.  The destructors
\* hold nothing, nor does the worker.
SyncHeld(v) ==
  \E t \in Tasks : task[t].vci = v /\ ~task[t].queued /\
    \/ task[t].step \in {"register", "undo"}
    \/ task[t].step = "create" /\ task[t].reply # "none"
Due ==
  {i \in DOMAIN calls :
     IF calls[i].queued THEN \A j \in 1 .. i - 1 : ~calls[j].queued
     ELSE calls[i].kind \in {"status", "connect", "disconnect", "create"} =>
            ~SyncHeld(calls[i].vci)}

Others(i) == SubSeq(calls, 1, i - 1) \o SubSeq(calls, i + 1, Len(calls))

\* The call is made and its task, if there is one still, is answered.
Answer(i, reply) ==
  /\ calls' = Others(i)
  /\ task' = IF calls[i].by = NoTask THEN task
             ELSE [task EXCEPT ![calls[i].by].reply = reply]

\* A call may fail.
Fails == fails < MaxFails /\ fails' = fails + 1

ModuleIds(i) ==
  /\ calls[i].kind = "ids"
  /\ Answer(i, "ok")
  /\ UNCHANGED <<module, link, fails, history>>

\* VciStatus::is_available_for_connection(), is_connected().
\* Mutation: a module that is not ready is not connected.
ConnectedReady == {"ready"}
Connected == {"ready", "not_ready"}

GetStatus(i) ==
  /\ calls[i].kind = "status"
  /\ Answer(i, IF module = "avail" THEN "available"
               ELSE IF module \in Connected THEN "connected" ELSE "neither")
  /\ UNCHANGED <<module, link, fails, history>>

\* PDUModuleConnect, PDUModuleDisconnect: the driver refuses a module that is
\* no longer as its status said.
ModuleConnect(i) ==
  /\ calls[i].kind = "connect"
  /\ IF module = "avail"
       THEN /\ module' = "ready" /\ Answer(i, "ok")
            /\ connector' = calls[i].vci /\ direct' = ~calls[i].queued
       ELSE Answer(i, "error") /\ UNCHANGED <<module, connector, direct>>
  /\ UNCHANGED <<link, fails, forsaken, unreleased>>

ModuleDisconnect(i) ==
  /\ calls[i].kind = "disconnect"
  /\ IF module \in {"ready", "not_ready"}
       THEN module' = "avail" /\ Answer(i, "ok")
       ELSE Answer(i, "error") /\ UNCHANGED module
  /\ UNCHANGED <<link, fails, history>>

CreateLinkCall(i) ==
  /\ calls[i].kind = "create"
  /\ \/ /\ module \in {"ready", "not_ready"}
        /\ link' = [link EXCEPT ![calls[i].link] = "open"]
        /\ Answer(i, "ok") /\ UNCHANGED fails
     \/ /\ IF module \in {"ready", "not_ready"} THEN Fails ELSE UNCHANGED fails
        /\ link' = [link EXCEPT ![calls[i].link] = "refused"]
        /\ Answer(i, "error")
  /\ UNCHANGED <<module, history>>

RegisterCallback(i) ==
  /\ calls[i].kind = "register"
  /\ \/ Answer(i, "ok") /\ UNCHANGED fails
     \/ Answer(i, "error") /\ Fails
  /\ UNCHANGED <<module, link, history>>

\* PDUDestroyComLogicalLink, alone or as the last call of vt_cll_destructor(),
\* which it makes whatever the others answered.  Nobody looks at its answer: a
\* link the driver refuses to destroy stays open.
DestroyLink(i) ==
  /\ calls[i].kind = "destroy"
  /\ \/ /\ link' = [link EXCEPT ![calls[i].link] = "gone"]
        /\ Answer(i, "ok") /\ UNCHANGED <<fails, unreleased>>
     \/ /\ Fails /\ Answer(i, "error")
        /\ unreleased' = unreleased \cup {calls[i].link}
        /\ UNCHANGED link
  /\ UNCHANGED <<module, connector, direct, forsaken>>

\* vt_module_destructor(): the status, and the disconnect of a connected
\* module, each of which may fail and leaves it at that.  In the worker the two
\* are one step of its loop.
DestructModule(i) ==
  /\ calls[i].kind = "destruct"
  /\ \/ /\ Fails
        /\ unreleased' = unreleased \cup {calls[i].vci}
        /\ calls' = Others(i) /\ UNCHANGED module
     \/ /\ module' = IF calls[i].queued /\ module \in Connected THEN "avail"
                                                               ELSE module
        /\ calls' = IF ~calls[i].queued /\ module \in Connected
                      THEN Append(Others(i), [calls[i] EXCEPT !.kind = "sever"])
                      ELSE Others(i)
        /\ UNCHANGED <<fails, unreleased>>
  /\ UNCHANGED <<link, task, connector, direct, forsaken>>

\* PDUModuleDisconnect of the destructor on a thread of its own.
Sever(i) ==
  /\ calls[i].kind = "sever"
  /\ \/ /\ module' = IF module \in {"ready", "not_ready"} THEN "avail" ELSE module
        /\ UNCHANGED <<fails, unreleased>>
     \/ /\ Fails
        /\ unreleased' = unreleased \cup {calls[i].vci}
        /\ UNCHANGED module
  /\ calls' = Others(i)
  /\ UNCHANGED <<link, task, connector, direct, forsaken>>

MakeCall ==
  /\ \E i \in Due :
       \/ ModuleIds(i) \/ GetStatus(i) \/ ModuleConnect(i) \/ ModuleDisconnect(i)
       \/ CreateLinkCall(i) \/ RegisterCallback(i) \/ DestroyLink(i)
       \/ DestructModule(i) \/ Sever(i)
  /\ UNCHANGED <<objects, begun>>

\* The module is unplugged or plugged in, and is ready or not.
Environment ==
  /\ module' = CASE module = "avail" -> "not_avail"
                 [] module = "not_avail" -> "avail"
                 [] module = "ready" -> "not_ready"
                 [] module = "not_ready" -> "ready"
  /\ UNCHANGED <<link, calls, objects, task, begun, fails, history>>

-----------------------------------------------------------------------------
Init ==
  /\ module = "avail"
  /\ link = [l \in Links |-> "none"]
  /\ calls = <<>>
  /\ vci = [v \in Vcis |-> "none"]
  /\ entry = NoVci
  /\ object = [l \in Links |-> "none"]
  /\ task = [t \in Tasks |-> Idle]
  /\ begun = [t \in Tasks |-> 0]
  /\ fails = 0
  /\ served = {}
  /\ list_panicked = FALSE
  /\ connector = NoVci /\ direct = FALSE
  /\ forsaken = {}
  /\ unreleased = {}

Task(t) ==
  \/ Abandon(t) \/ Resume(t)
  \/ \E q \in BOOLEAN :
       \/ List(t, q)
       \/ \E v \in Vcis : \/ Connect(t, q, v) \/ Disconnect(t, q, v)
                          \/ \E l \in Links : CreateLink(t, q, v, l)

Next ==
  \/ \E t \in Tasks : Task(t)
  \/ \E v \in Vcis : DropVci(v)
  \/ \E l \in Links : DropLink(l)
  \/ Collect \/ MakeCall \/ Environment

Spec == Init /\ [][Next]_vars

\* The worker and each thread make their calls (there are finitely many, so
\* that none is passed over for ever) and a blocking thread goes on with the
\* answer.  Nothing forces a task that awaits the worker to be polled.
FairSpec ==
  /\ Spec
  /\ WF_vars(MakeCall)
  /\ \A t \in Tasks : WF_vars(~task[t].queued /\ Resume(t))

-----------------------------------------------------------------------------
(***************************************************************************)
(* Properties.                                                             *)
(***************************************************************************)

\* Types; and a task that is not at work holds no object.
TypeOK ==
  /\ module \in ModuleStatus
  /\ link \in [Links -> {"none", "asked", "refused", "open", "gone"}]
  /\ calls \in Seq(Call)
  /\ vci \in [Vcis -> {"none", "alive", "dropped"}]
  /\ entry \in Vcis \cup {NoVci}
  /\ object \in [Links -> {"none", "alive", "dropped"}]
  /\ task \in [Tasks -> [step : Steps, vci : Vcis \cup {NoVci},
                         link : Links \cup {NoLink}, queued : BOOLEAN,
                         orphan : BOOLEAN,
                         reply : {"none", "ok", "error", "available",
                                  "connected", "neither"}]]
  /\ \A t \in Tasks : task[t].step = "idle" => task[t] = Idle
  /\ begun \in [Tasks -> 0 .. MaxCalls]
  /\ fails \in 0 .. MaxFails
  /\ served \subseteq Vcis \cup Links
  /\ list_panicked \in BOOLEAN
  /\ connector \in Vcis \cup {NoVci} /\ direct \in BOOLEAN
  /\ forsaken \subseteq Links /\ unreleased \subseteq Vcis \cup Links

\* A module handle leads to the PduVci in use, and there is one: whatever is
\* listed, dropped and collected, and though listings panic.
ListedIsFound == \A v \in Vcis : vci[v] = "alive" => entry = v

\* A link of the driver is an object's, is being created or destroyed, is one
\* the driver refused to destroy, or is the loss of a creation the worker went
\* on with alone: because its future was dropped, or because its callback could
\* not be registered.  A thread that creates a link loses none by itself.
LinkAccounted ==
  \A l \in Links : link[l] = "open" =>
    \/ object[l] = "alive"
    \/ \E t \in Tasks : task[t].link = l
    \/ \E i \in DOMAIN calls : calls[i].kind = "destroy" /\ calls[i].link = l
    \/ l \in forsaken \cup unreleased

\* What a PduVci in use has connected through the worker is disconnected by a
\* disconnect alone, not by the queued destructor of an earlier PduVci: that
\* was asked for before this one could be registered.  It may be disconnected
\* by a destructor outside the queue, that of a PduVci without a worker, and
\* by any if blocking_connect() connected it, ahead of the queue, or once a
\* listing has panicked, which drops the PduVci it made.
DestructorSparesOthers ==
  [][ /\ ~direct /\ ~list_panicked
      /\ module \in {"ready", "not_ready"} /\ module' = "avail"
      /\ vci[connector] = "alive"
      => \E i \in DOMAIN calls :
           /\ calls' = Others(i)
           /\ calls[i].kind = "disconnect" \/ ~calls[i].queued ]_vars

\* Once a PduVci is dropped the module does not stay connected by it, even if
\* it was dropped while a connect() was under way, unless its destructor's
\* status or disconnect failed.
ModuleReleased ==
  \A v \in Vcis : vci[v] = "dropped" ~>
    [](connector = v => module \notin {"ready", "not_ready"} \/ v \in unreleased)

\* A link that is dropped, or that nobody is left to take, is destroyed, unless
\* the driver refuses.
LinkReleased ==
  \A l \in Links :
    object[l] = "dropped" ~> link[l] = "gone" \/ l \in unreleased

\* The driver keeps nothing of an object that is dropped, neither the module
\* connected nor the link, but what a refused call of its destructor leaves.
DroppedReleased == ModuleReleased /\ LinkReleased

=============================================================================
