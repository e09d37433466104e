----------------------------- MODULE DriverCalls -----------------------------
(***************************************************************************)
(* PduApi (api/): the wrappers of the D-PDU driver's functions and the     *)
(* virtual functions made of them.  A wrapper resolves names, makes the    *)
(* call, reads the item the driver lends it and gives the item back with   *)
(* PDUDestroyItem.  One wrapper differs from the next in a few decisions,  *)
(* which are the fields of its record below; the actions are the walk they *)
(* all share.  The log level of a failing call can be lowered by options   *)
(* of the calling thread.                                                  *)
(***************************************************************************)
EXTENDS Naturals, Sequences, FiniteSets

CONSTANTS
  Threads,     \* threads that call the driver
  Ops,         \* names of the functions that are called
  Workers,     \* whether the functions are called through PduAsyncWorker
  Descriptions,\* whether a module description file is loaded
  MaxOps,      \* bound on the calls begun
  MaxItems     \* bound on the items lent

\* What items hold (PduIt); "Odd" stands for the types nothing here expects.
EventTypes == {"Status", "Result", "Error", "Info"}
IoTypes == {"IoUnum32", "IoProgVoltage", "IoByteArray", "IoFilter",
            "IoEventQueueProperty"}
ItemTypes == EventTypes \cup IoTypes \cup
  {"Param", "RscId", "RscConflict", "ModuleId", "UniqueRespIdTable", "Odd"}
Results == {"ok", "none", "error", "live"}

-----------------------------------------------------------------------------
(***************************************************************************)
(* The wrappers.                                                           *)
(***************************************************************************)

\* A function of the driver with no name to resolve and no item to read: an
\* error of the driver is the caller's, anything else is success.
\*   option   the suppress option it reads and, at the end, clears
\*   names    how many names it resolves with pdu_get_object_id()
\*   unknown  what an unknown name makes of it
\*   refuses  what arguments it does not take make of it ("takes_all")
\*   range    it checks the value the driver stored
\*   input    it hands the driver data
\*   codes    error codes of the driver it takes for a result
\*   lends    the types of item the driver's function is declared to lend
\*   reads    the types it reads, giving the rest back unread
\*   wants    the types its caller is content with
\*   null     what it makes of no item
\*   keeps    when it returns without giving the item back: the call
\*            "failed", there is "no_data", the type is "unread", or is "read"
Plain(name) ==
  [name |-> name, option |-> name, names |-> 0, unknown |-> "error",
   refuses |-> "takes_all", range |-> FALSE, input |-> FALSE, codes |-> {},
   lends |-> {}, reads |-> ItemTypes, wants |-> ItemTypes, null |-> "ok",
   keeps |-> {"failed"}]

PduConstruct == Plain("construct")
PduModuleConnect == Plain("module_connect")
PduModuleDisconnect == Plain("module_disconnect")
PduConnect == Plain("connect")
PduDisconnect == Plain("disconnect")
PduDestroyComLogicalLink == Plain("destroy_logical_link")
PduStartComPrimitive == Plain("start_primitive")
PduCancelComPrimitive == Plain("cancel_primitive")
PduLockResource == Plain("lock_resource")
PduUnlockResource == Plain("unlock_resource")
PduGetTimestamp == Plain("get_timestamp")
PduGetVersion == Plain("get_version")

\* A driver that is not constructed is destructed.
PduDestruct == [Plain("destruct") EXCEPT !.codes = {"ok"}]

\* Codes out of bounds are failures.
PduGetStatus == [Plain("get_status") EXCEPT !.range = TRUE]
PduGetLastError == [Plain("get_last_error") EXCEPT !.range = TRUE]

\* Undefined handles, parameters of the wrong class and an empty list do not
\* reach the driver.
PduRegisterEventCallback ==
  [Plain("register_event_callback") EXCEPT !.refuses = "error"]
PduSetUniqueRespIdTable ==
  [Plain("set_unique_resp_id_table") EXCEPT !.refuses = "error"]
PduSetComParam == [Plain("set_com_param") EXCEPT !.refuses = "error"]
PduGetResourceStatus == [Plain("get_resource_status") EXCEPT !.refuses = "ok"]

\* One name; and the bus, the protocol and one pin of a resource.
PduGetObjectId ==
  [Plain("get_object_id") EXCEPT !.names = 1, !.unknown = "none"]
PduCreateComLogicalLink == [Plain("create_logical_link") EXCEPT !.names = 3]

\* An empty queue is no event, and so is no item.
PduGetEventItem ==
  [Plain("get_event_item") EXCEPT !.codes = {"none"}, !.lends = EventTypes,
     !.reads = EventTypes, !.null = "none", !.keeps = {"failed", "no_data"}]

\* The item of a failed call, too, is given back.
PduGetModuleIds ==
  [Plain("get_module_ids") EXCEPT !.lends = {"ModuleId"}, !.null = "error",
     !.keeps = {}]

PduGetComParam ==
  [Plain("get_com_param") EXCEPT !.names = 1, !.lends = {"Param"},
     !.null = "error"]

\* Mutation: the list is not given back after it was read.
GetConflictsKeeps ==
  [Plain("get_conflicting_resources") EXCEPT !.lends = {"RscConflict"},
     !.reads = {"RscConflict"}, !.null = "error", !.keeps = {"failed", "read"}]
PduGetConflictingResources ==
  [Plain("get_conflicting_resources") EXCEPT !.lends = {"RscConflict"},
     !.reads = {"RscConflict"}, !.null = "error"]

\* These two read the type of the one above.
PduGetResourceIds ==
  [Plain("get_resource_ids") EXCEPT !.names = 3, !.lends = {"RscId"},
     !.reads = {"RscConflict"}, !.null = "error", !.keeps = {"failed", "read"}]
PduGetUniqueRespIdTable ==
  [Plain("get_unique_resp_id_table") EXCEPT !.lends = {"UniqueRespIdTable"},
     !.reads = {"RscConflict"}, !.null = "error"]

\* pdu_io_ctl(): the input is handed over as the data alone, where the driver
\* is declared to take an item with a type and the data.
PduIoCtl(name) ==
  [Plain(name) EXCEPT !.option = "io_ctl", !.names = 1, !.reads = IoTypes,
     !.keeps = {"failed", "no_data", "unread"}]
With(command) == [command EXCEPT !.input = TRUE]
Query(command, lent, wanted) ==
  [command EXCEPT !.lends = {lent}, !.wants = {wanted}, !.null = "error"]

IoCtlReset == PduIoCtl("io_ctl_reset")
IoCtlClearTxQueue == PduIoCtl("io_ctl_clear_tx_queue")
IoCtlSuspendTxQueue == PduIoCtl("io_ctl_suspend_tx_queue")
IoCtlResumeTxQueue == PduIoCtl("io_ctl_resume_tx_queue")
IoCtlClearRxQueue == PduIoCtl("io_ctl_clear_rx_queue")
IoCtlClearMsgFilter == PduIoCtl("io_ctl_clear_msg_filter")
IoCtlSendBreak == PduIoCtl("io_ctl_send_break")
IoCtlSetProgVoltage == With(PduIoCtl("io_ctl_set_prog_voltage"))
IoCtlGeneric == With(PduIoCtl("io_ctl_generic"))
IoCtlSetBufferSize == With(PduIoCtl("io_ctl_set_buffer_size"))
IoCtlStartMsgFilter == With(PduIoCtl("io_ctl_start_msg_filter"))
IoCtlStopMsgFilter == With(PduIoCtl("io_ctl_stop_msg_filter"))
IoCtlSetEventQueueProperties ==
  With(PduIoCtl("io_ctl_set_event_queue_properties"))
IoCtlGetCableId ==
  Query(PduIoCtl("io_ctl_get_cable_id"), "IoUnum32", "IoUnum32")
IoCtlReadIgnitionSenseState ==
  With(Query(PduIoCtl("io_ctl_read_ignition_sense_state"),
             "IoUnum32", "IoUnum32"))
IoCtlReadProgVoltage ==
  Query(PduIoCtl("io_ctl_read_prog_voltage"), "IoUnum32", "IoProgVoltage")

\* A command the driver does not know, by name or by number, reads nothing.
\* Mutation: the voltage is expected as that of a pin.
ReadVbattOfPin ==
  [Query(PduIoCtl("io_ctl_read_vbatt"), "IoUnum32", "IoProgVoltage")
     EXCEPT !.unknown = "none", !.codes = {"none"}]
IoCtlReadVbatt ==
  [Query(PduIoCtl("io_ctl_read_vbatt"), "IoUnum32", "IoUnum32")
     EXCEPT !.unknown = "none", !.codes = {"none"}]

Calls ==
  {PduConstruct, PduModuleConnect, PduModuleDisconnect, PduConnect,
   PduDisconnect, PduDestroyComLogicalLink, PduStartComPrimitive,
   PduCancelComPrimitive, PduLockResource, PduUnlockResource, PduGetTimestamp,
   PduGetVersion, PduDestruct,
   PduGetStatus, PduGetLastError, PduRegisterEventCallback,
   PduSetUniqueRespIdTable, PduSetComParam, PduGetResourceStatus, PduGetObjectId,
   PduCreateComLogicalLink, PduGetEventItem, PduGetModuleIds, PduGetComParam,
   PduGetConflictingResources, PduGetResourceIds, PduGetUniqueRespIdTable,
   IoCtlReset, IoCtlClearTxQueue, IoCtlSuspendTxQueue, IoCtlResumeTxQueue,
   IoCtlClearRxQueue, IoCtlClearMsgFilter, IoCtlSendBreak, IoCtlSetProgVoltage,
   IoCtlGeneric, IoCtlSetBufferSize, IoCtlStartMsgFilter, IoCtlStopMsgFilter,
   IoCtlSetEventQueueProperties, IoCtlGetCableId, IoCtlReadIgnitionSenseState,
   IoCtlReadProgVoltage, IoCtlReadVbatt}

\* Functions made of several calls, the first of each, and the driver's status
\* or events they begin with.
Compound == {"vt_module_destructor", "vt_cll_destructor", "vt_cop_destructor",
             "event_callback"}
First(op) == IF op = "event_callback" THEN PduGetEventItem ELSE PduGetStatus

ASSUME CallsAssumption ==
  /\ Ops \subseteq {c.name : c \in Calls} \cup Compound
  /\ Workers \subseteq BOOLEAN /\ Descriptions \subseteq BOOLEAN
  /\ MaxOps \in Nat /\ MaxItems \in Nat

VARIABLES
  worker,     \* the functions are called through the worker
  described,  \* there is a module description
  thread,     \* what each thread is doing, and the answer it goes on from
  options,    \* suppress options set by each thread
  items,      \* items the driver has lent, oldest first
  begun,      \* calls begun
  answered,   \* history: functions a driver true to its declarations answered
  rejected    \* history: those whose caller got a failure all the same

history == <<answered, rejected>>
vars == <<worker, described, thread, options, items, begun, history>>

Idle == [op |-> "none", call |-> PduConstruct, at |-> "idle", names |-> 0,
         item |-> 0, result |-> "none", fair |-> TRUE]

Busy(op, d) == [Idle EXCEPT !.op = op, !.call = d, !.names = d.names,
                  !.at = IF d.names = 0 THEN "call" ELSE "names"]

-----------------------------------------------------------------------------
(***************************************************************************)
(* The suppress options, and the way from one call to the next.            *)
(***************************************************************************)

\* Where modify_suppress_log_options() is called, and for which call.
Suppressed ==
  {<<"vt_module_destructor", "get_status">>,
   <<"vt_module_destructor", "register_event_callback">>,
   <<"vt_cll_destructor", "get_status">>, <<"vt_cop_destructor", "get_status">>,
   <<"vt_cop_destructor", "cancel_primitive">>,
   <<"event_callback", "get_event_item">>}

Sets(op, d) == {d.option} \cap {p[2] : p \in {q \in Suppressed : q[1] = op}}

\* impl_defer_clear_suppress_options!: whichever way the call returns.
\* Mutation: the option is left set.
ClearNothing(t) == options[t]
Cleared(t) == options[t] \ {thread[t].call.option}

\* The calls of the virtual functions and of the event callback: the one after
\* d with result r, if there is one.
AfterOfCll(d, r) ==
  CASE d = PduGetStatus /\ r = "live" -> {PduDisconnect}
    [] d = PduGetStatus /\ r # "live" -> {PduRegisterEventCallback}
    [] d = PduDisconnect -> {PduRegisterEventCallback}
    [] d = PduRegisterEventCallback -> {PduDestroyComLogicalLink}
    [] OTHER -> {}
\* Mutation: a module that is not connected keeps its callback.
AfterOfModuleConnected(d, r) ==
  CASE d = PduGetStatus /\ r = "live" -> {PduModuleDisconnect}
    [] d = PduModuleDisconnect -> {PduRegisterEventCallback}
    [] OTHER -> {}
AfterOfModule(d, r) ==
  CASE d = PduGetStatus /\ r = "live" -> {PduModuleDisconnect}
    [] d = PduGetStatus /\ r \notin {"live", "error"}
         -> {PduRegisterEventCallback}
    [] d = PduModuleDisconnect -> {PduRegisterEventCallback}
    [] OTHER -> {}
AfterOfCop(d, r) ==
  IF d = PduGetStatus /\ r = "live" THEN {PduCancelComPrimitive} ELSE {}
AfterOfCallback(d, r) == IF r = "ok" THEN {PduGetEventItem} ELSE {}

After(op, d, r) ==
  CASE op = "vt_cll_destructor" -> AfterOfCll(d, r)
    [] op = "vt_module_destructor" -> AfterOfModule(d, r)
    [] op = "vt_cop_destructor" -> AfterOfCop(d, r)
    [] op = "event_callback" -> AfterOfCallback(d, r)
    [] OTHER -> {}

\* The answer of the worker to each function is decoded as that function's,
\* by a match whose other arms are unreachable!().
Misanswered(op) == worker /\ op = "io_ctl_reset"

\* What a thread does next, and the answer it goes on from.
GoOn(op, next, r) ==
  [(IF next = {} THEN Idle ELSE Busy(op, CHOOSE e \in next : TRUE))
     EXCEPT !.result = r]

\* The call returns r; fair tells that the driver kept to its declarations.
Over(t, r, fair) ==
  LET d == thread[t].call
      next == After(thread[t].op, d, r) IN
  /\ thread' = [thread EXCEPT ![t] = GoOn(@.op, next, r)]
  /\ options' = [options EXCEPT ![t] =
       Cleared(t) \cup UNION {Sets(thread[t].op, e) : e \in next}]
  /\ answered' = IF fair THEN answered \cup {d.name} ELSE answered
  /\ rejected' = IF fair /\ (r = "error" \/ Misanswered(thread[t].op))
                   THEN rejected \cup {d.name} ELSE rejected

-----------------------------------------------------------------------------
(***************************************************************************)
(* The walk through a wrapper.                                             *)
(***************************************************************************)

Begin(t, op, d) ==
  /\ thread[t].at = "idle" /\ begun < MaxOps /\ op \in Ops
  /\ begun' = begun + 1
  /\ thread' = [thread EXCEPT ![t] = Busy(op, d)]
  /\ options' = [options EXCEPT ![t] = @ \cup Sets(op, d)]
  /\ UNCHANGED <<worker, described, items, history>>

Call(t) == \E d \in Calls : Begin(t, d.name, d)
CallCompound(t) == \E op \in Compound : Begin(t, op, First(op))

\* The arguments are not taken: the driver is not called.
Refuse(t) ==
  /\ thread[t].at = "call" /\ thread[t].call.refuses # "takes_all"
  /\ thread[t].op \notin Compound
  /\ Over(t, thread[t].call.refuses, FALSE)
  /\ UNCHANGED <<worker, described, items, begun>>

\* A name is resolved.
\* Mutation: one name too many.
ResolvedLate(t) ==
  [thread EXCEPT ![t].names = @ - 1,
     ![t].at = IF thread[t].names = 0 THEN "call" ELSE "names"]
Resolved(t) ==
  [thread EXCEPT ![t].names = @ - 1,
     ![t].at = IF thread[t].names = 1 THEN "call" ELSE "names"]

\* pdu_get_object_id() asks the module description first and then the driver,
\* which may know no such name, or fail.
LookUp(t) ==
  LET d == thread[t].call IN
  /\ thread[t].at = "names"
  /\ \/ /\ d.name # "get_object_id"
        /\ thread' = Resolved(t) /\ UNCHANGED <<options, history>>
     \/ d.name = "get_object_id" /\ Over(t, "ok", TRUE)
     \/ ~described /\ \E r \in {d.unknown, "error"} : Over(t, r, FALSE)
  /\ UNCHANGED <<worker, described, items, begun>>

\* wrap_pdu_call(): the driver answers.  A hook of a vendor may turn success
\* into an error after the driver has lent an item.  A driver true to its
\* declarations lends what they say and takes an input for an item: it finds
\* none, and fails.
Lend(d, why, ty) ==
  /\ Len(items) < MaxItems
  /\ items' = Append(items, [of |-> d.option, type |-> ty, why |-> why,
                             state |-> "lent"])
Lends(d) == d.lends # {} \/ d.option = "io_ctl"

Fail(t) ==
  LET d == thread[t].call IN
  /\ thread[t].at = "call"
  /\ \/ Over(t, "error", d.input) /\ UNCHANGED items
     \/ \E r \in d.codes : Over(t, r, FALSE) /\ UNCHANGED items
     \/ d.range /\ Over(t, "error", FALSE) /\ UNCHANGED items
     \/ /\ Lends(d) /\ "failed" \in d.keeps
        /\ Lend(d, "failed", "Odd") /\ Over(t, "error", FALSE)
     \/ /\ Lends(d) /\ "failed" \notin d.keeps
        /\ Lend(d, "held", "Odd")
        /\ thread' = [thread EXCEPT ![t].at = "destroy", ![t].item = Len(items'),
                        ![t].result = "error", ![t].fair = FALSE]
        /\ UNCHANGED <<options, history>>
  /\ UNCHANGED <<worker, described, begun>>

\* Success without an item, and what the status is.
Succeed(t) ==
  LET d == thread[t].call IN
  /\ thread[t].at = "call"
  /\ \E r \in {d.null} \cup (IF d = PduGetStatus THEN {"live"} ELSE {}) :
       Over(t, r, d.lends = {} /\ ~d.input)
  /\ UNCHANGED <<worker, described, items, begun>>

\* Success with an item: it is read and kept, or it is to be given back.
Receive(t) ==
  LET d == thread[t].call IN
  /\ thread[t].at = "call" /\ Lends(d)
  /\ \E ty \in d.lends \cup {"Odd", "RscConflict", "IoByteArray"},
        data \in BOOLEAN :
       LET why == IF ~data THEN "no_data"
                  ELSE IF ty \in d.reads THEN "read" ELSE "unread"
           r == IF why = "read" /\ ty \in d.wants THEN "ok" ELSE "error"
           fair == ty \in d.lends /\ data /\ ~d.input IN
       /\ ~data => \/ d = PduGetEventItem
                   \/ d.option = "io_ctl" /\ ty = "IoByteArray"
       /\ \/ /\ why \in d.keeps
             /\ Lend(d, why, ty) /\ Over(t, r, fair)
          \/ /\ why \notin d.keeps
             /\ Lend(d, "held", ty)
             /\ thread' = [thread EXCEPT ![t].at = "destroy",
                  ![t].item = Len(items'), ![t].result = r, ![t].fair = fair]
             /\ UNCHANGED <<options, history>>
  /\ UNCHANGED <<worker, described, begun>>

\* pdu_destroy_item(): the item is given back; a failure takes the place of
\* the result.
DestroyItem(t) ==
  /\ thread[t].at = "destroy"
  /\ \E state \in {"returned", "refused"} :
       /\ items' = [items EXCEPT ![thread[t].item].state = state]
       /\ IF state = "returned" THEN Over(t, thread[t].result, thread[t].fair)
                                ELSE Over(t, "error", FALSE)
  /\ UNCHANGED <<worker, described, begun>>

Init ==
  /\ worker \in Workers
  /\ described \in Descriptions
  /\ thread = [t \in Threads |-> Idle]
  /\ options = [t \in Threads |-> {}]
  /\ items = <<>>
  /\ begun = 0
  /\ answered = {} /\ rejected = {}

Next ==
  \E t \in Threads :
    \/ Call(t) \/ CallCompound(t) \/ Refuse(t) \/ LookUp(t) \/ Fail(t)
    \/ Succeed(t) \/ Receive(t) \/ DestroyItem(t)

Spec == Init /\ [][Next]_vars

-----------------------------------------------------------------------------
(***************************************************************************)
(* Properties.                                                             *)
(***************************************************************************)

\* Types; names are resolved before the call, not after, and no more than
\* there are.
TypeOK ==
  /\ worker \in BOOLEAN /\ described \in BOOLEAN
  /\ thread \in [Threads ->
       [op : {c.name : c \in Calls} \cup Compound \cup {"none"}, call : Calls,
        at : {"idle", "names", "call", "destroy"}, names : 0 .. 3,
        item : 0 .. MaxItems, result : Results, fair : BOOLEAN]]
  /\ options \in [Threads -> SUBSET {c.option : c \in Calls}]
  /\ items \in Seq([of : {c.option : c \in Calls}, type : ItemTypes,
                    why : {"held", "failed", "no_data", "unread", "read"},
                    state : {"lent", "returned", "refused"}])
  /\ Len(items) <= MaxItems
  /\ begun \in 0 .. MaxOps
  /\ answered \subseteq {c.name : c \in Calls}
  /\ rejected \subseteq answered
  /\ \A t \in Threads : thread[t].at = "names" <=> thread[t].names > 0

GivesBack(t, n) == thread[t].at = "destroy" /\ thread[t].item = n

\* The driver owns the items: each is given back once, by the thread it was
\* lent to.  Those nobody gives back are the items of failed calls other than
\* PDUGetModuleIds, an event without data, what an I/O control command answers
\* that is not read, and a list of resources that was read.
ItemsReturned ==
  /\ \A n \in DOMAIN items : items[n].state = "lent" =>
       \/ \E t \in Threads : GivesBack(t, n)
       \/ items[n].why = "failed" /\ items[n].of # "get_module_ids"
       \/ items[n].why = "no_data" /\ items[n].of \in {"get_event_item", "io_ctl"}
       \/ items[n].why = "unread" /\ items[n].of = "io_ctl"
       \/ items[n].why = "read" /\ items[n].of = "get_resource_ids"
  /\ \A t \in Threads : thread[t].at = "destroy" =>
       /\ thread[t].item \in DOMAIN items
       /\ items[thread[t].item].state = "lent"
       /\ items[thread[t].item].why = "held"
  /\ \A t, u \in Threads, n \in DOMAIN items :
       GivesBack(t, n) /\ GivesBack(u, n) => t = u

\* modify_suppress_log_options(): "Suppression is applied only to the current
\* thread and only for the duration of the required function call."  An option
\* left set would hide the failure of a later, unrelated operation that the
\* thread is reused for.
SuppressionEnds ==
  \A t \in Threads : options[t] \subseteq
    (IF thread[t].at = "idle" THEN {} ELSE {thread[t].call.option})

\* What a driver true to its declarations answers reaches the caller.  The
\* exceptions are two wrappers that look for the wrong type of item, the
\* voltage of a pin, the reset through the worker, and the commands whose
\* input the driver is not handed as an item.
Undelivered ==
  {"get_resource_ids", "get_unique_resp_id_table", "io_ctl_read_prog_voltage",
   "io_ctl_reset", "io_ctl_set_prog_voltage", "io_ctl_generic",
   "io_ctl_set_buffer_size", "io_ctl_start_msg_filter",
   "io_ctl_stop_msg_filter", "io_ctl_set_event_queue_properties",
   "io_ctl_read_ignition_sense_state"}
AnswersDelivered == rejected \subseteq Undelivered

\* The declarations of the driver's functions: when every function of Ops has
\* been answered by a driver true to them, none of the answers was a failure.
AnswersAccepted == answered = Ops => rejected = {}

\* A destructor makes its last call whatever those on the way answer, and only
\* a status that cannot be read stops it: PDUDestroyComLogicalLink for a link,
\* whose destructor takes any status ("for bad drivers"), the removal of the
\* callback for a module, PDUCancelComPrimitive for a primitive that is alive.
\* A link or a module that is live is disconnected on the way.
Finishes(t) ==
  LET op == thread[t].op
      d == thread[t].call
      answer == thread'[t].result
      over == thread'[t].at = "idle" IN
  /\ op = "vt_cll_destructor" /\ over => d = PduDestroyComLogicalLink
  /\ op = "vt_module_destructor" /\ over =>
       d = PduRegisterEventCallback \/ (d = PduGetStatus /\ answer = "error")
  /\ op = "vt_cop_destructor" /\ over =>
       d = PduCancelComPrimitive \/ (d = PduGetStatus /\ answer # "live")
  /\ /\ op \in {"vt_cll_destructor", "vt_module_destructor"}
     /\ d = PduGetStatus /\ thread'[t].call = PduRegisterEventCallback
     => answer # "live"
DestructorsFinish == [][\A t \in Threads : Finishes(t)]_vars

=============================================================================
