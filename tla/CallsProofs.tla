---------------------------- MODULE CallsProofs ----------------------------
(***************************************************************************)
(* Proofs about DriverCalls.  What the wrappers' records have in common is *)
(* Sound, shown record by record; the walk through a wrapper keeps the     *)
(* inductive invariant IInv whatever the record, so long as it is sound.   *)
(***************************************************************************)
EXTENDS DriverCalls, SequenceTheorems, TLAPS

-----------------------------------------------------------------------------
(***************************************************************************)
(* The records.                                                            *)
(***************************************************************************)

\* Fields in their ranges, and the four ways to keep an item only where
\* ItemsReturned allows them.
Ranges(d) ==
  /\ d.names \in 0 .. 3
  /\ d.unknown \in Results /\ d.null \in Results /\ d.codes \subseteq Results
  /\ d.refuses \in Results \cup {"takes_all"}
  /\ d.lends \subseteq ItemTypes
  /\ d.input \in BOOLEAN
  /\ d.name \notin Compound

Keeps(d) ==
  /\ "failed" \in d.keeps => d.option # "get_module_ids"
  /\ "no_data" \in d.keeps => d.option \in {"get_event_item", "io_ctl"}
  /\ "unread" \in d.keeps => d.option = "io_ctl"
  /\ "read" \in d.keeps => d.option = "get_resource_ids"

\* A wrapper that hands over an input, or does not want what the driver is
\* declared to lend, is one of the exceptions of AnswersDelivered.
Answers(d) ==
  /\ d.input => d.name \in Undelivered
  /\ d.name \notin Undelivered => d.lends \subseteq d.reads \cap d.wants
  /\ d.null = "error" => d.lends # {}

Sound(d) == Ranges(d) /\ Keeps(d) /\ Answers(d)

LEMMA PlainIsSound ==
  ASSUME NEW name, name # "get_module_ids", name \notin Compound
  PROVE Sound(Plain(name))
  BY DEF Sound, Ranges, Keeps, Answers, Plain, Results, ItemTypes, Compound

LEMMA PlainCallsAreSound ==
  /\ Sound(PduConstruct) /\ Sound(PduModuleConnect)
  /\ Sound(PduModuleDisconnect) /\ Sound(PduConnect) /\ Sound(PduDisconnect)
  /\ Sound(PduDestroyComLogicalLink) /\ Sound(PduStartComPrimitive)
  /\ Sound(PduCancelComPrimitive) /\ Sound(PduLockResource)
  /\ Sound(PduUnlockResource) /\ Sound(PduGetTimestamp)
  /\ Sound(PduGetVersion)
  BY PlainIsSound
     DEF PduConstruct, PduModuleConnect, PduModuleDisconnect, PduConnect,
         PduDisconnect, PduDestroyComLogicalLink, PduStartComPrimitive,
         PduCancelComPrimitive, PduLockResource, PduUnlockResource,
         PduGetTimestamp, PduGetVersion, Compound

LEMMA OtherCallsAreSound ==
  /\ Sound(PduDestruct) /\ Sound(PduGetStatus) /\ Sound(PduGetLastError)
  /\ Sound(PduRegisterEventCallback) /\ Sound(PduSetUniqueRespIdTable)
  /\ Sound(PduSetComParam) /\ Sound(PduGetResourceStatus)
  /\ Sound(PduGetObjectId) /\ Sound(PduCreateComLogicalLink)
<1>1. /\ Sound(PduDestruct) /\ Sound(PduGetStatus) /\ Sound(PduGetLastError)
  BY DEF PduDestruct, PduGetStatus, PduGetLastError,
         Sound, Ranges, Keeps, Answers, Plain, Results, ItemTypes, Compound
<1>2. /\ Sound(PduRegisterEventCallback) /\ Sound(PduSetUniqueRespIdTable)
      /\ Sound(PduSetComParam) /\ Sound(PduGetResourceStatus)
  BY DEF PduRegisterEventCallback, PduSetUniqueRespIdTable, PduSetComParam,
         PduGetResourceStatus,
         Sound, Ranges, Keeps, Answers, Plain, Results, ItemTypes, Compound
<1>3. Sound(PduGetObjectId) /\ Sound(PduCreateComLogicalLink)
  BY DEF PduGetObjectId, PduCreateComLogicalLink,
         Sound, Ranges, Keeps, Answers, Plain, Results, ItemTypes, Compound
<1> QED
  BY <1>1, <1>2, <1>3

LEMMA LendersAreSound ==
  /\ Sound(PduGetEventItem) /\ Sound(PduGetModuleIds) /\ Sound(PduGetComParam)
  /\ Sound(PduGetConflictingResources) /\ Sound(PduGetResourceIds)
  /\ Sound(PduGetUniqueRespIdTable)
<1>1. Sound(PduGetEventItem) /\ Sound(PduGetModuleIds)
  BY DEF PduGetEventItem, PduGetModuleIds, EventTypes,
         Sound, Ranges, Keeps, Answers, Plain, Results, ItemTypes, Compound
<1>2. Sound(PduGetComParam) /\ Sound(PduGetConflictingResources)
  BY DEF PduGetComParam, PduGetConflictingResources,
         Sound, Ranges, Keeps, Answers, Plain, Results, ItemTypes, Compound
<1>3. Sound(PduGetResourceIds) /\ Sound(PduGetUniqueRespIdTable)
  BY DEF PduGetResourceIds, PduGetUniqueRespIdTable, Undelivered,
         Sound, Ranges, Keeps, Answers, Plain, Results, ItemTypes, Compound
<1> QED
  BY <1>1, <1>2, <1>3

LEMMA PduIoCtlIsSound ==
  ASSUME NEW name, name \notin Compound
  PROVE /\ Sound(PduIoCtl(name))
        /\ name \in Undelivered => Sound(With(PduIoCtl(name)))
<1>1. Sound(PduIoCtl(name))
  BY DEF PduIoCtl, Sound, Ranges, Keeps, Answers, Plain, Results, ItemTypes, Compound
<1>2. name \in Undelivered => Sound(With(PduIoCtl(name)))
  BY DEF With, PduIoCtl, Sound, Ranges, Keeps, Answers, Plain, Results,
         ItemTypes, Compound
<1> QED
  BY <1>1, <1>2

LEMMA CommandsAreSound ==
  /\ Sound(IoCtlReset) /\ Sound(IoCtlClearTxQueue)
  /\ Sound(IoCtlSuspendTxQueue) /\ Sound(IoCtlResumeTxQueue)
  /\ Sound(IoCtlClearRxQueue) /\ Sound(IoCtlClearMsgFilter)
  /\ Sound(IoCtlSendBreak) /\ Sound(IoCtlSetProgVoltage)
  /\ Sound(IoCtlGeneric) /\ Sound(IoCtlSetBufferSize)
  /\ Sound(IoCtlStartMsgFilter) /\ Sound(IoCtlStopMsgFilter)
  /\ Sound(IoCtlSetEventQueueProperties)
  BY PduIoCtlIsSound
     DEF IoCtlReset, IoCtlClearTxQueue, IoCtlSuspendTxQueue,
         IoCtlResumeTxQueue, IoCtlClearRxQueue, IoCtlClearMsgFilter,
         IoCtlSendBreak, IoCtlSetProgVoltage, IoCtlGeneric,
         IoCtlSetBufferSize, IoCtlStartMsgFilter, IoCtlStopMsgFilter,
         IoCtlSetEventQueueProperties, Undelivered, Compound

LEMMA QueriesAreSound ==
  /\ Sound(IoCtlGetCableId) /\ Sound(IoCtlReadIgnitionSenseState)
  /\ Sound(IoCtlReadProgVoltage) /\ Sound(IoCtlReadVbatt)
<1>1. Sound(IoCtlGetCableId) /\ Sound(IoCtlReadVbatt)
  BY DEF IoCtlGetCableId, IoCtlReadVbatt, Query, PduIoCtl, IoTypes,
         Sound, Ranges, Keeps, Answers, Plain, Results, ItemTypes, Compound
<1>2. Sound(IoCtlReadIgnitionSenseState) /\ Sound(IoCtlReadProgVoltage)
  BY DEF IoCtlReadIgnitionSenseState, IoCtlReadProgVoltage, Query, With,
         PduIoCtl, IoTypes, Undelivered,
         Sound, Ranges, Keeps, Answers, Plain, Results, ItemTypes, Compound
<1> QED
  BY <1>1, <1>2

LEMMA CallsAreSound ==
  ASSUME NEW d \in Calls
  PROVE Sound(d)
  BY PlainCallsAreSound, OtherCallsAreSound, LendersAreSound, CommandsAreSound,
     QueriesAreSound DEF Calls

-----------------------------------------------------------------------------
(***************************************************************************)
(* One thread.                                                             *)
(***************************************************************************)
ThreadType ==
  [op : {c.name : c \in Calls} \cup Compound \cup {"none"}, call : Calls,
   at : {"idle", "names", "call", "destroy"}, names : 0 .. 3,
   item : 0 .. MaxItems, result : Results, fair : BOOLEAN]

\* The calls a destructor comes by.
OnTheWay(op, d) ==
  /\ op = "vt_cll_destructor" =>
       d \in {PduGetStatus, PduDisconnect, PduRegisterEventCallback,
              PduDestroyComLogicalLink}
  /\ op = "vt_module_destructor" =>
       d \in {PduGetStatus, PduModuleDisconnect, PduRegisterEventCallback}
  /\ op = "vt_cop_destructor" => d \in {PduGetStatus, PduCancelComPrimitive}

Rightly(s) ==
  /\ s.at = "names" <=> s.names > 0
  /\ s.at = "idle" => s.op \notin Compound
  /\ s.at # "idle" => \/ s.op \in Compound /\ OnTheWay(s.op, s.call)
                      \/ s.op = s.call.name
  /\ s.at = "destroy" /\ s.fair /\ s.result = "error" =>
       s.call.name \in Undelivered

\* What the option of a thread's call is set for.
Briefly(s, opts) ==
  opts \subseteq (IF s.at = "idle" THEN {} ELSE {s.call.option})

LEMMA SomeCalls ==
  /\ PduConstruct \in Calls /\ PduGetStatus \in Calls
  /\ PduDisconnect \in Calls /\ PduModuleDisconnect \in Calls
  /\ PduRegisterEventCallback \in Calls /\ PduCancelComPrimitive \in Calls
  /\ PduDestroyComLogicalLink \in Calls /\ PduGetEventItem \in Calls
  BY DEF Calls

LEMMA IdleIsRight ==
  Idle \in ThreadType /\ Rightly(Idle) /\ Idle.at = "idle"
  BY SomeCalls, CallsAssumption
     DEF Idle, ThreadType, Rightly, Compound, Results

LEMMA BusyIsRight ==
  ASSUME NEW d \in Calls, NEW op,
         (op \in Compound /\ OnTheWay(op, d)) \/ op = d.name
  PROVE /\ Busy(op, d) \in ThreadType /\ Rightly(Busy(op, d))
        /\ Busy(op, d).at \in {"names", "call"}
        /\ Busy(op, d).call = d /\ Busy(op, d).op = op
<1>1. d.names \in 0 .. 3
  BY CallsAreSound DEF Sound, Ranges
<1>2. op \in {c.name : c \in Calls} \cup Compound \cup {"none"}
  OBVIOUS
<1>3. PICK n \in 0 .. 3 : n = d.names
  BY <1>1
<1>4. PICK a \in {"names", "call"} : a = IF n = 0 THEN "call" ELSE "names"
  OBVIOUS
<1>5. Busy(op, d) = [Idle EXCEPT !.op = op, !.call = d, !.names = n, !.at = a]
  BY <1>3, <1>4 DEF Busy
<1>6. Busy(op, d) \in ThreadType
  BY <1>2, <1>5, IdleIsRight DEF ThreadType
<1>7. /\ Busy(op, d).op = op /\ Busy(op, d).call = d /\ Busy(op, d).at = a
      /\ Busy(op, d).names = n
  BY <1>2, <1>5, IdleIsRight DEF ThreadType
<1>8. Rightly(Busy(op, d))
  BY <1>4, <1>7 DEF Rightly
<1> QED
  BY <1>6, <1>7, <1>8

\* The answer a thread goes on from changes nothing else.
LEMMA AnswerIsRight ==
  ASSUME NEW s \in ThreadType, Rightly(s), s.at # "destroy", NEW r \in Results,
         NEW a, a = [s EXCEPT !.result = r]
  PROVE /\ a \in ThreadType /\ Rightly(a)
        /\ a.at = s.at /\ a.call = s.call /\ a.op = s.op /\ a.result = r
<1>1. a \in ThreadType
  BY DEF ThreadType
<1>2. /\ a.at = s.at /\ a.call = s.call /\ a.op = s.op /\ a.result = r
      /\ a.names = s.names /\ a.fair = s.fair
  BY DEF ThreadType
<1> QED
  BY <1>1, <1>2 DEF Rightly

LEMMA CallsDiffer ==
  /\ PduGetStatus # PduRegisterEventCallback
  /\ PduGetStatus # PduDisconnect /\ PduGetStatus # PduModuleDisconnect
  /\ PduRegisterEventCallback # PduDisconnect
  /\ PduRegisterEventCallback # PduModuleDisconnect
  /\ PduRegisterEventCallback # PduConstruct
<1>1. /\ PduGetStatus.name = "get_status"
      /\ PduRegisterEventCallback.name = "register_event_callback"
      /\ PduDisconnect.name = "disconnect"
      /\ PduModuleDisconnect.name = "module_disconnect"
      /\ PduConstruct.name = "construct"
  BY DEF PduGetStatus, PduRegisterEventCallback, PduDisconnect,
         PduModuleDisconnect, PduConstruct, Plain
<1> QED
  BY <1>1

\* After a call there is at most one more, on the way of its function; and a
\* destructor stops, or passes over the disconnection, only where
\* DestructorsFinish says.
LEMMA AfterIsOne ==
  ASSUME NEW op, NEW d, NEW r \in Results, op \in Compound => OnTheWay(op, d)
  PROVE /\ \/ After(op, d, r) = {}
           \/ \E e \in Calls : /\ After(op, d, r) = {e}
                               /\ op \in Compound /\ OnTheWay(op, e)
        /\ After(op, d, r) = {} =>
             /\ op = "vt_cll_destructor" => d = PduDestroyComLogicalLink
             /\ op = "vt_module_destructor" =>
                  \/ d = PduRegisterEventCallback
                  \/ d = PduGetStatus /\ r = "error"
             /\ op = "vt_cop_destructor" =>
                  \/ d = PduCancelComPrimitive
                  \/ d = PduGetStatus /\ r # "live"
        /\ /\ op \in {"vt_cll_destructor", "vt_module_destructor"}
           /\ d = PduGetStatus /\ After(op, d, r) = {PduRegisterEventCallback}
           => r # "live"
<1>1. CASE op = "vt_cll_destructor"
  BY <1>1, SomeCalls, CallsDiffer
     DEF After, AfterOfCll, OnTheWay, Compound
<1>2. CASE op = "vt_module_destructor"
  BY <1>2, SomeCalls, CallsDiffer
     DEF After, AfterOfModule, OnTheWay, Compound
<1>3. CASE op = "vt_cop_destructor"
  BY <1>3, SomeCalls DEF After, AfterOfCop, OnTheWay, Compound
<1>4. CASE op = "event_callback"
  BY <1>4, SomeCalls DEF After, AfterOfCallback, OnTheWay, Compound
<1>5. CASE op \notin Compound
  BY <1>5 DEF After, Compound
<1> QED
  BY <1>1, <1>2, <1>3, <1>4, <1>5 DEF Compound

-----------------------------------------------------------------------------
(***************************************************************************)
(* All threads, and the two histories.                                     *)
(***************************************************************************)
Walking ==
  /\ thread \in [Threads -> ThreadType]
  /\ \A t \in Threads : Rightly(thread[t])
  /\ options \in [Threads -> SUBSET {c.option : c \in Calls}]
  /\ \A t \in Threads : Briefly(thread[t], options[t])

Answering ==
  /\ answered \subseteq {c.name : c \in Calls}
  /\ rejected \subseteq answered \cap Undelivered

\* Only thread t moved.
OnlyMoves(t) ==
  \A u \in Threads \ {t} : thread'[u] = thread[u]

LEMMA ThreadMoves ==
  ASSUME Walking, NEW t \in Threads, NEW s \in ThreadType, Rightly(s),
         NEW o \in SUBSET {c.option : c \in Calls}, Briefly(s, o),
         thread' = [thread EXCEPT ![t] = s],
         options' = [options EXCEPT ![t] = o]
  PROVE Walking' /\ thread'[t] = s /\ OnlyMoves(t)
<1>1. /\ thread' \in [Threads -> ThreadType] /\ thread'[t] = s
      /\ options' \in [Threads -> SUBSET {c.option : c \in Calls}]
      /\ options'[t] = o
  BY DEF Walking
<1>2. \A u \in Threads \ {t} : thread'[u] = thread[u] /\ options'[u] = options[u]
  BY DEF Walking
<1>3. \A u \in Threads : Rightly(thread'[u]) /\ Briefly(thread'[u], options'[u])
  BY <1>1, <1>2 DEF Walking
<1> QED
  BY <1>1, <1>2, <1>3 DEF Walking, OnlyMoves

\* A thread that goes on inside its call, or is in none, finishes nothing.
LEMMA Unfinished ==
  ASSUME Walking, NEW t \in Threads,
         \/ thread[t].at = "idle"
         \/ thread'[t].at # "idle" /\ thread'[t].call = thread[t].call
  PROVE Finishes(t)
<1>1. CASE thread[t].at = "idle"
  BY <1>1 DEF Walking, Rightly, Finishes, Compound
<1>2. CASE thread'[t].at # "idle" /\ thread'[t].call = thread[t].call
  BY <1>2, CallsDiffer DEF Finishes
<1> QED
  BY <1>1, <1>2

LEMMA OverMoves ==
  ASSUME Walking, NEW t \in Threads, NEW r \in Results, NEW fair,
         thread[t].at # "idle", Over(t, r, fair)
  PROVE /\ Walking' /\ OnlyMoves(t) /\ thread'[t].at # "destroy"
        /\ Finishes(t)
<1> DEFINE op == thread[t].op
           d == thread[t].call
           next == After(op, d, r)
<1>1. op \in Compound => OnTheWay(op, d)
  <2>1. d \in Calls /\ Rightly(thread[t])
    BY DEF Walking, ThreadType
  <2>2. d.name \notin Compound
    BY <2>1, CallsAreSound DEF Sound, Ranges
  <2> QED
    BY <2>1, <2>2 DEF Rightly
<1>2. Cleared(t) = {}
  BY DEF Cleared, Walking, Briefly
<1>3. CASE next = {}
  <2>1. PICK s : s = [Idle EXCEPT !.result = r]
    OBVIOUS
  <2>2. thread' = [thread EXCEPT ![t] = s]
    BY <1>3, <2>1 DEF Over, GoOn
  <2>3. options' = [options EXCEPT ![t] = {}]
    BY <1>2, <1>3 DEF Over
  <2>4. s \in ThreadType /\ Rightly(s) /\ s.at = "idle" /\ s.result = r
    BY <2>1, IdleIsRight, AnswerIsRight
  <2>5. s.call = PduConstruct
    BY <2>1, IdleIsRight, AnswerIsRight DEF Idle
  <2>6. Walking' /\ OnlyMoves(t) /\ thread'[t] = s
    BY <2>2, <2>3, <2>4, ThreadMoves DEF Briefly
  <2>7. Finishes(t)
    BY <1>1, <1>3, <2>4, <2>5, <2>6, AfterIsOne, CallsDiffer DEF Finishes
  <2> QED
    BY <2>4, <2>6, <2>7
<1>4. ASSUME NEW e \in Calls, next = {e}, op \in Compound, OnTheWay(op, e)
      PROVE Walking' /\ OnlyMoves(t) /\ thread'[t].at # "destroy" /\ Finishes(t)
  <2>1. (CHOOSE x \in next : TRUE) = e
    BY <1>4
  <2>2. PICK s : s = [Busy(op, e) EXCEPT !.result = r]
    OBVIOUS
  <2>3. thread' = [thread EXCEPT ![t] = s]
    <3>1. next # {}
      BY <1>4
    <3>2. GoOn(op, next, r) = s
      <4> HIDE DEF next
      <4> QED
        BY <2>1, <2>2, <3>1 DEF GoOn
    <3>3. thread' = [thread EXCEPT ![t] = GoOn(op, next, r)]
      BY DEF Over
    <3> HIDE DEF next, op
    <3> QED
      BY <3>2, <3>3
  <2>4. UNION {Sets(op, x) : x \in next} = Sets(op, e)
    BY <1>4
  <2>5. options' = [options EXCEPT ![t] = Sets(op, e)]
    BY <1>2, <2>4 DEF Over
  <2>6. /\ s \in ThreadType /\ Rightly(s) /\ s.at \in {"names", "call"}
        /\ s.call = e /\ s.result = r
    <3>1. /\ Busy(op, e) \in ThreadType /\ Rightly(Busy(op, e))
          /\ Busy(op, e).at \in {"names", "call"} /\ Busy(op, e).call = e
      BY <1>4, BusyIsRight
    <3> QED
      BY <2>2, <3>1, AnswerIsRight
  <2>7. Sets(op, e) \in SUBSET {c.option : c \in Calls} /\ Briefly(s, Sets(op, e))
    BY <2>6 DEF Sets, Briefly
  <2>8. Walking' /\ OnlyMoves(t) /\ thread'[t] = s
    <3> HIDE DEF op
    <3> QED
      BY <2>3, <2>5, <2>6, <2>7, ThreadMoves
  <2>9. Finishes(t)
    BY <1>1, <1>4, <2>6, <2>8, AfterIsOne DEF Finishes
  <2> QED
    BY <2>6, <2>8, <2>9
<1> QED
  BY <1>1, <1>3, <1>4, AfterIsOne

\* An answer that is a failure is that of an exception.
Excused(t, r, fair) ==
  fair /\ r = "error" => thread[t].call.name \in Undelivered

LEMMA OverAnswers ==
  ASSUME Walking, Answering, NEW t \in Threads, NEW r, NEW fair \in BOOLEAN,
         thread[t].at # "idle", Over(t, r, fair), Excused(t, r, fair)
  PROVE Answering'
<1>1. thread[t].call \in Calls /\ Rightly(thread[t])
  BY DEF Walking, ThreadType
<1>2. Misanswered(thread[t].op) => thread[t].call.name \in Undelivered
  BY <1>1 DEF Misanswered, Rightly, Compound, Undelivered
<1>3. CASE fair
  BY <1>1, <1>2, <1>3 DEF Over, Answering, Excused
<1>4. CASE ~fair
  BY <1>4 DEF Over, Answering
<1> QED
  BY <1>3, <1>4

-----------------------------------------------------------------------------
(***************************************************************************)
(* The items.                                                              *)
(***************************************************************************)
ItemType ==
  [of : {c.option : c \in Calls}, type : ItemTypes,
   why : {"held", "failed", "no_data", "unread", "read"},
   state : {"lent", "returned", "refused"}]

Lending ==
  /\ items \in Seq(ItemType) /\ Len(items) <= MaxItems
  /\ ItemsReturned

\* The first conjunct of ItemsReturned for one item that nobody holds.
MayStay(i) ==
  \/ i.why = "failed" /\ i.of # "get_module_ids"
  \/ i.why = "no_data" /\ i.of \in {"get_event_item", "io_ctl"}
  \/ i.why = "unread" /\ i.of = "io_ctl"
  \/ i.why = "read" /\ i.of = "get_resource_ids"

LEMMA SameItems ==
  ASSUME Lending, UNCHANGED items, NEW t \in Threads, OnlyMoves(t),
         thread[t].at # "destroy", thread'[t].at # "destroy"
  PROVE Lending'
<1>1. \A u \in Threads : thread'[u] = thread[u] \/ u = t
  BY DEF OnlyMoves
<1>2. \A n : \A u \in Threads : GivesBack(u, n)' <=> GivesBack(u, n)
  BY <1>1 DEF GivesBack
<1> QED
  BY <1>1, <1>2 DEF Lending, ItemsReturned

LEMMA LentItem ==
  ASSUME Lending, NEW d \in Calls, NEW why \in
           {"held", "failed", "no_data", "unread", "read"},
         NEW ty \in ItemTypes, Lend(d, why, ty)
  PROVE /\ items' \in Seq(ItemType) /\ Len(items') <= MaxItems
        /\ Len(items') = Len(items) + 1
        /\ DOMAIN items' = DOMAIN items \cup {Len(items')}
        /\ \A n \in DOMAIN items : items'[n] = items[n]
        /\ items'[Len(items')] = [of |-> d.option, type |-> ty, why |-> why,
                                  state |-> "lent"]
<1>1. PICK i \in ItemType : i = [of |-> d.option, type |-> ty, why |-> why,
                                state |-> "lent"]
  BY DEF ItemType
<1>2. items' = Append(items, i) /\ Len(items) < MaxItems
  BY <1>1 DEF Lend
<1> QED
  BY <1>1, <1>2, CallsAssumption DEF Lending

LEMMA KeptItem ==
  ASSUME Lending, NEW d \in Calls, NEW why \in d.keeps,
         why \in {"failed", "no_data", "unread", "read"},
         NEW ty \in ItemTypes, Lend(d, why, ty),
         NEW t \in Threads, OnlyMoves(t),
         thread[t].at # "destroy", thread'[t].at # "destroy"
  PROVE Lending'
<1>1. Keeps(d)
  BY CallsAreSound DEF Sound
<1>5. why \in {"held", "failed", "no_data", "unread", "read"}
  OBVIOUS
<1>6. /\ items' \in Seq(ItemType) /\ Len(items') <= MaxItems
      /\ Len(items') = Len(items) + 1
      /\ DOMAIN items' = DOMAIN items \cup {Len(items')}
      /\ \A n \in DOMAIN items : items'[n] = items[n]
      /\ items'[Len(items')] = [of |-> d.option, type |-> ty, why |-> why,
                                state |-> "lent"]
  BY <1>5, LentItem
<1>2. MayStay(items'[Len(items')])
  <2>1. /\ items'[Len(items')].why = why
        /\ items'[Len(items')].of = d.option
    BY <1>6
  <2> QED
    BY <1>1, <2>1 DEF Keeps, MayStay
<1>3. \A u \in Threads : thread'[u] = thread[u] \/ u = t
  BY DEF OnlyMoves
<1>4. \A n : \A u \in Threads : GivesBack(u, n)' <=> GivesBack(u, n)
  BY <1>3 DEF GivesBack
<1>7. ItemsReturned'
  <2>1. \A n \in DOMAIN items' : n \in DOMAIN items \/ n = Len(items')
    BY <1>6
  <2>2. \A n \in DOMAIN items : n \in DOMAIN items' /\ items'[n] = items[n]
    BY <1>6
  <2>3. \A u \in Threads : thread'[u].at = "destroy" => thread'[u] = thread[u]
    BY <1>3
  <2>4. \A n \in DOMAIN items' : items'[n].state = "lent" =>
          (\E u \in Threads : GivesBack(u, n)') \/ MayStay(items'[n])
    BY <1>2, <1>4, <2>1, <2>2 DEF Lending, ItemsReturned, MayStay
  <2>5. \A u \in Threads : thread'[u].at = "destroy" =>
          /\ thread'[u].item \in DOMAIN items'
          /\ items'[thread'[u].item].state = "lent"
          /\ items'[thread'[u].item].why = "held"
    BY <2>2, <2>3 DEF Lending, ItemsReturned
  <2>6. \A u, v \in Threads, n \in DOMAIN items' :
          GivesBack(u, n)' /\ GivesBack(v, n)' => u = v
    BY <1>4, <2>3 DEF Lending, ItemsReturned, GivesBack
  <2> QED
    BY <2>4, <2>5, <2>6 DEF ItemsReturned, MayStay, GivesBack
<1> QED
  BY <1>6, <1>7 DEF Lending

LEMMA HeldItem ==
  ASSUME Lending, NEW d \in Calls, NEW ty \in ItemTypes, Lend(d, "held", ty),
         NEW t \in Threads, OnlyMoves(t), thread[t].at # "destroy",
         thread'[t].at = "destroy", thread'[t].item = Len(items')
  PROVE Lending'
<1>1. \A u \in Threads : thread'[u] = thread[u] \/ u = t
  BY DEF OnlyMoves
<1>2. /\ items' \in Seq(ItemType) /\ Len(items') <= MaxItems
      /\ Len(items') = Len(items) + 1
      /\ DOMAIN items' = DOMAIN items \cup {Len(items')}
      /\ \A n \in DOMAIN items : items'[n] = items[n]
      /\ items'[Len(items')] = [of |-> d.option, type |-> ty, why |-> "held",
                                state |-> "lent"]
  BY LentItem
<1>3. /\ items'[Len(items')].state = "lent"
      /\ items'[Len(items')].why = "held"
      /\ Len(items') \in DOMAIN items' \ DOMAIN items
  BY <1>2 DEF Lending
<1>4. \A n \in DOMAIN items' : n \in DOMAIN items \/ n = Len(items')
  BY <1>2
<1>5. \A n \in DOMAIN items : n \in DOMAIN items' /\ items'[n] = items[n]
  BY <1>2
<1>6. \A u \in Threads : thread'[u].at = "destroy" =>
        \/ u = t
        \/ u # t /\ thread'[u] = thread[u] /\ thread[u].item \in DOMAIN items
  BY <1>1 DEF Lending, ItemsReturned
<1>7. \A n \in DOMAIN items' : items'[n].state = "lent" =>
        (\E u \in Threads : GivesBack(u, n)') \/ MayStay(items'[n])
  <2> DEFINE Back(u, n) == thread'[u].at = "destroy" /\ thread'[u].item = n
  <2>1. Back(t, Len(items'))
    OBVIOUS
  <2>2. \A u \in Threads, n \in DOMAIN items :
          GivesBack(u, n) => Back(u, n)
    BY <1>1 DEF GivesBack
  <2> HIDE DEF Back
  <2>3. \A n \in DOMAIN items' : items'[n].state = "lent" =>
          (\E u \in Threads : Back(u, n)) \/ MayStay(items'[n])
    BY <1>4, <1>5, <2>1, <2>2 DEF Lending, ItemsReturned, MayStay
  <2> QED
    BY <2>3 DEF Back, GivesBack
<1>8. \A u \in Threads : thread'[u].at = "destroy" =>
        /\ thread'[u].item \in DOMAIN items'
        /\ items'[thread'[u].item].state = "lent"
        /\ items'[thread'[u].item].why = "held"
  BY <1>3, <1>5, <1>6 DEF Lending, ItemsReturned
<1>9. \A u, v \in Threads, n \in DOMAIN items' :
        GivesBack(u, n)' /\ GivesBack(v, n)' => u = v
  BY <1>3, <1>6 DEF Lending, ItemsReturned, GivesBack
<1>10. ItemsReturned'
  BY <1>7, <1>8, <1>9 DEF ItemsReturned, MayStay, GivesBack
<1> QED
  BY <1>2, <1>10 DEF Lending

LEMMA ItemGivenBack ==
  ASSUME Lending, NEW state \in {"returned", "refused"}, NEW t \in Threads,
         thread[t].at = "destroy",
         items' = [items EXCEPT ![thread[t].item].state = state],
         OnlyMoves(t), thread'[t].at # "destroy"
  PROVE Lending'
<1>1. PICK n \in DOMAIN items : n = thread[t].item
  BY DEF Lending, ItemsReturned
<1>2. PICK i \in ItemType : i = items[n]
  BY DEF Lending
<1>3. PICK j \in ItemType : /\ j = [i EXCEPT !.state = state]
                           /\ j.state = state
  <2>1. PICK O : O = {c.option : c \in Calls}
    OBVIOUS
  <2>2. /\ [i EXCEPT !.state = state] \in ItemType
        /\ [i EXCEPT !.state = state].state = state
    BY <2>1 DEF ItemType
  <2> QED
    BY <2>2
<1>4. items' = [items EXCEPT ![n] = j]
  BY <1>1, <1>2, <1>3
<1>5. /\ items' \in Seq(ItemType) /\ Len(items') <= MaxItems
      /\ DOMAIN items' = DOMAIN items
      /\ items'[n].state # "lent"
      /\ \A m \in DOMAIN items \ {n} : items'[m] = items[m]
  <2>1. /\ items \in Seq(ItemType) /\ Len(items) <= MaxItems
        /\ n \in 1 .. Len(items)
    BY <1>1 DEF Lending
  <2>2. items'[n] = j
    BY <1>4, <2>1
  <2>3. /\ items' \in Seq(ItemType) /\ Len(items') = Len(items)
        /\ DOMAIN items' = DOMAIN items
    <3>1. PICK e : e = [items EXCEPT ![n] = j]
      OBVIOUS
    <3>2. e \in Seq(ItemType) /\ Len(e) = Len(items)
      BY <1>3, <2>1, <3>1, ExceptSeq
    <3>3. DOMAIN e = DOMAIN items
      BY <3>1
    <3> QED
      BY <1>4, <3>1, <3>2, <3>3
  <2>4. \A m \in DOMAIN items \ {n} : items'[m] = items[m]
    BY <1>4, <2>1
  <2> QED
    BY <1>3, <2>1, <2>2, <2>3, <2>4
<1>6. \A u \in Threads : thread'[u] = thread[u] \/ u = t
  BY DEF OnlyMoves
<1>7. \A u \in Threads \ {t} : ~GivesBack(u, n)
  BY <1>1 DEF Lending, ItemsReturned, GivesBack
<1>8. \A u \in Threads, m \in DOMAIN items \ {n} :
        GivesBack(u, m)' <=> GivesBack(u, m)
  BY <1>1, <1>6 DEF GivesBack
<1>9. \A m \in DOMAIN items' : items'[m].state = "lent" =>
        m \in DOMAIN items \ {n} /\ items[m].state = "lent"
  BY <1>5
<1>10. \A u \in Threads : thread'[u].at = "destroy" =>
         /\ thread'[u] = thread[u] /\ u # t /\ thread[u].item # n
         /\ thread[u].item \in DOMAIN items \ {n}
  BY <1>6, <1>7 DEF GivesBack, Lending, ItemsReturned
<1> QED
  BY <1>5, <1>8, <1>9, <1>10 DEF Lending, ItemsReturned, GivesBack

-----------------------------------------------------------------------------
(***************************************************************************)
(* The steps.                                                              *)
(***************************************************************************)
IInv ==
  /\ worker \in BOOLEAN /\ described \in BOOLEAN /\ begun \in 0 .. MaxOps
  /\ Walking /\ Answering /\ Lending

\* What a step of thread t keeps, and what DestructorsFinish says of it.
Kept(t) ==
  /\ IInv' /\ OnlyMoves(t)
  /\ Finishes(t)

\* A call is over, and no item changes hands.
LEMMA OverStep ==
  ASSUME IInv, NEW t \in Threads, NEW r, NEW fair \in BOOLEAN,
         thread[t].at \in {"names", "call"}, Over(t, r, fair), r \in Results,
         Excused(t, r, fair), UNCHANGED <<worker, described, begun, items>>
  PROVE Kept(t)
<1>1. /\ Walking' /\ OnlyMoves(t) /\ thread'[t].at # "destroy"
      /\ Finishes(t)
  BY OverMoves DEF IInv
<1>2. Answering'
  BY OverAnswers DEF IInv
<1>3. Lending'
  BY <1>1, SameItems DEF IInv
<1>4. IInv'
  BY <1>1, <1>2, <1>3 DEF IInv
<1> QED
  BY <1>1, <1>4 DEF Kept, OnlyMoves

\* The thread goes on inside its call, and neither history changes.
LEMMA StayStep ==
  ASSUME IInv, NEW t \in Threads, thread[t].at # "idle",
         NEW s \in ThreadType, Rightly(s),
         s.at # "idle", s.call = thread[t].call,
         thread' = [thread EXCEPT ![t] = s], UNCHANGED <<options, history>>
  PROVE /\ Walking' /\ OnlyMoves(t) /\ thread'[t] = s /\ Answering'
<1>1. PICK o \in SUBSET {c.option : c \in Calls} : o = options[t]
  BY DEF IInv, Walking
<1>2. options' = [options EXCEPT ![t] = o]
  BY <1>1 DEF IInv, Walking
<1>3. Briefly(s, o)
  BY <1>1 DEF IInv, Walking, Briefly
<1>4. Walking' /\ OnlyMoves(t) /\ thread'[t] = s
  BY <1>2, <1>3, ThreadMoves DEF IInv
<1> QED
  BY <1>4 DEF IInv, Answering, history

LEMMA BeginStep ==
  ASSUME IInv, NEW t \in Threads, NEW op, NEW d \in Calls,
         (op \in Compound /\ OnTheWay(op, d)) \/ op = d.name, Begin(t, op, d)
  PROVE Kept(t)
<1>1. /\ Busy(op, d) \in ThreadType /\ Rightly(Busy(op, d))
      /\ Busy(op, d).at \in {"names", "call"} /\ Busy(op, d).call = d
  BY BusyIsRight
<1>2. PICK s : s = Busy(op, d)
  OBVIOUS
<1>3. PICK o \in SUBSET {c.option : c \in Calls} : o = Sets(op, d)
  BY DEF Sets
<1>4. options[t] = {}
  BY DEF Begin, IInv, Walking, Briefly
<1>5. options' = [options EXCEPT ![t] = o] /\ thread' = [thread EXCEPT ![t] = s]
  BY <1>2, <1>3, <1>4 DEF Begin
<1>6. Briefly(s, o)
  BY <1>1, <1>2, <1>3 DEF Briefly, Sets
<1>7. Walking' /\ thread'[t] = s /\ OnlyMoves(t)
  BY <1>1, <1>2, <1>5, <1>6, ThreadMoves DEF IInv
<1>8. Lending'
  BY <1>1, <1>2, <1>7, SameItems DEF Begin, IInv
<1>9. begun' \in 0 .. MaxOps /\ worker' \in BOOLEAN /\ described' \in BOOLEAN
  BY CallsAssumption DEF Begin, IInv
<1>10. Answering'
  BY DEF Begin, IInv, Answering, history
<1>11. IInv'
  BY <1>7, <1>8, <1>9, <1>10 DEF IInv
<1>12. Finishes(t)
  BY Unfinished DEF Begin, IInv
<1> QED
  BY <1>7, <1>11, <1>12 DEF Kept

LEMMA CallStep ==
  ASSUME IInv, NEW t \in Threads, Call(t)
  PROVE Kept(t)
  BY BeginStep DEF Call

LEMMA CallCompoundStep ==
  ASSUME IInv, NEW t \in Threads, CallCompound(t)
  PROVE Kept(t)
<1>1. PICK op \in Compound : Begin(t, op, First(op))
  BY DEF CallCompound
<1>2. First(op) \in Calls /\ OnTheWay(op, First(op))
  BY SomeCalls DEF First, OnTheWay
<1> QED
  BY <1>1, <1>2, BeginStep

LEMMA RefuseStep ==
  ASSUME IInv, NEW t \in Threads, Refuse(t)
  PROVE Kept(t)
<1>1. PICK d \in Calls : d = thread[t].call
  BY DEF IInv, Walking, ThreadType
<1>2. d.refuses \in Results
  BY <1>1, CallsAreSound DEF Sound, Ranges, Refuse
<1> QED
  BY <1>1, <1>2, OverStep DEF Refuse, Excused

LEMMA LookUpStep ==
  ASSUME IInv, NEW t \in Threads, LookUp(t)
  PROVE Kept(t)
<1>1. thread[t] \in ThreadType /\ Rightly(thread[t])
  BY DEF IInv, Walking
<1>2. CASE thread' = Resolved(t) /\ UNCHANGED <<options, history>>
  <2>1. PICK th \in ThreadType : th = thread[t]
    BY <1>1
  <2>2. th.names \in 1 .. 3 /\ th.at = "names"
    BY <1>1, <2>1 DEF LookUp, Rightly, ThreadType
  <2>3. PICK a \in {"names", "call"} :
          a = IF th.names = 1 THEN "call" ELSE "names"
    OBVIOUS
  <2>10. PICK k \in 0 .. 2 : k = th.names - 1
    BY <2>2
  <2>4. PICK s : s = [th EXCEPT !.names = k, !.at = a]
    OBVIOUS
  <2>5. /\ s \in ThreadType /\ s.at = a /\ s.names = k
        /\ s.call = th.call /\ s.op = th.op
    <3>1. th \in ThreadType /\ k \in 0 .. 3
      BY <2>1
    <3>2. s \in ThreadType
      BY <2>4, <3>1 DEF ThreadType
    <3> QED
      BY <2>4, <3>1 DEF ThreadType
  <2>6. Rightly(s)
    BY <1>1, <2>1, <2>2, <2>3, <2>5, <2>10 DEF Rightly
  <2>7. thread' = [thread EXCEPT ![t] = s]
    BY <1>2, <2>1, <2>3, <2>4, <2>10 DEF Resolved, IInv, Walking
  <2>8. Walking' /\ OnlyMoves(t) /\ thread'[t] = s /\ Answering'
    BY <1>2, <2>1, <2>2, <2>5, <2>6, <2>7, StayStep
  <2>9. Lending'
    BY <2>1, <2>2, <2>5, <2>8, SameItems DEF IInv, LookUp
  <2>11. IInv'
    BY <2>8, <2>9 DEF IInv, LookUp
  <2>12. Finishes(t)
    BY <2>1, <2>3, <2>5, <2>8, Unfinished DEF IInv
  <2> QED
    BY <2>8, <2>11, <2>12 DEF Kept
<1>3. CASE Over(t, "ok", TRUE)
  BY <1>3, OverStep DEF LookUp, Excused, Results
<1>4. CASE \E r \in {thread[t].call.unknown, "error"} : Over(t, r, FALSE)
  <2>1. thread[t].call.unknown \in Results /\ "error" \in Results
    BY <1>1, CallsAreSound DEF Sound, Ranges, ThreadType, Results
  <2> QED
    BY <1>4, <2>1, OverStep DEF LookUp, Excused
<1> QED
  BY <1>2, <1>3, <1>4 DEF LookUp

\* A call is over, and its item stays with the wrapper for good.
LEMMA KeepStep ==
  ASSUME IInv, NEW t \in Threads, NEW r, NEW fair \in BOOLEAN,
         thread[t].at = "call", Over(t, r, fair), Excused(t, r, fair),
         r \in Results, NEW why \in thread[t].call.keeps,
         why \in {"failed", "no_data", "unread", "read"},
         NEW ty \in ItemTypes, Lend(thread[t].call, why, ty),
         UNCHANGED <<worker, described, begun>>
  PROVE Kept(t)
<1>1. /\ Walking' /\ OnlyMoves(t) /\ thread'[t].at # "destroy"
      /\ Finishes(t)
  BY OverMoves DEF IInv
<1>2. Answering'
  BY OverAnswers DEF IInv
<1>3. PICK d \in Calls : d = thread[t].call
  BY DEF IInv, Walking, ThreadType
<1>4. Lending'
  BY <1>1, <1>3, KeptItem DEF IInv
<1>5. IInv'
  BY <1>1, <1>2, <1>4 DEF IInv
<1> QED
  BY <1>1, <1>5 DEF Kept, OnlyMoves

\* An item is held, to be given back.
LEMMA HoldStep ==
  ASSUME IInv, NEW t \in Threads, NEW r \in Results, NEW fair \in BOOLEAN,
         thread[t].at = "call", Excused(t, r, fair), NEW ty \in ItemTypes,
         Lend(thread[t].call, "held", ty),
         thread' = [thread EXCEPT ![t].at = "destroy", ![t].item = Len(items'),
                      ![t].result = r, ![t].fair = fair],
         UNCHANGED <<options, history, worker, described, begun>>
  PROVE Kept(t)
<1>1. PICK th \in ThreadType : th = thread[t]
  BY DEF IInv, Walking
<1>2. PICK d \in Calls : d = th.call
  BY DEF ThreadType
<1>3. Lending
  BY DEF IInv
<1>4. Len(items') = Len(items) + 1 /\ Len(items') <= MaxItems
  BY <1>1, <1>2, <1>3, LentItem
<1>5. PICK n \in 0 .. MaxItems : n = Len(items')
  BY <1>3, <1>4, CallsAssumption DEF Lending
<1>6. PICK s : s = [th EXCEPT !.at = "destroy", !.item = n, !.result = r,
                              !.fair = fair]
  OBVIOUS
<1>7. th \in ThreadType
  OBVIOUS
<1>8. s \in ThreadType
  BY <1>6, <1>7 DEF ThreadType
<1>9. /\ s.at = "destroy" /\ s.item = n /\ s.result = r /\ s.fair = fair
      /\ s.op = th.op /\ s.call = th.call /\ s.names = th.names
  BY <1>6, <1>7 DEF ThreadType
<1>10. Rightly(s)
  <2>1. Rightly(th)
    BY <1>1 DEF IInv, Walking
  <2>2. th.names = s.names /\ ~(th.names > 0)
    BY <1>1, <1>9, <2>1 DEF Rightly
  <2> QED
    BY <1>1, <1>9, <2>1, <2>2 DEF Rightly, Excused
<1>11. thread' = [thread EXCEPT ![t] = s]
  BY <1>1, <1>5, <1>6 DEF IInv, Walking
<1>12. Walking' /\ OnlyMoves(t) /\ thread'[t] = s /\ Answering'
  BY <1>1, <1>8, <1>9, <1>10, <1>11, StayStep
<1>13. Lending'
  BY <1>1, <1>2, <1>3, <1>5, <1>9, <1>12, HeldItem
<1>14. IInv'
  BY <1>12, <1>13 DEF IInv
<1>15. Finishes(t)
  BY <1>1, <1>9, <1>12, Unfinished DEF IInv
<1> QED
  BY <1>12, <1>14, <1>15 DEF Kept

LEMMA FailStep ==
  ASSUME IInv, NEW t \in Threads, Fail(t)
  PROVE Kept(t)
<1>1. PICK d \in Calls : d = thread[t].call
  BY DEF IInv, Walking, ThreadType
<1>2. Ranges(d) /\ Answers(d)
  BY CallsAreSound DEF Sound
<1>3. /\ thread[t].at = "call" /\ UNCHANGED <<worker, described, begun>>
      /\ "Odd" \in ItemTypes /\ "error" \in Results
  BY DEF Fail, ItemTypes, Results
<1>4. CASE Over(t, "error", d.input) /\ UNCHANGED items
  <2>1. Excused(t, "error", d.input) /\ d.input \in BOOLEAN
    BY <1>1, <1>2 DEF Excused, Answers, Ranges
  <2> QED
    BY <1>3, <1>4, <2>1, OverStep
<1>5. CASE \E r \in d.codes \cup {"error"} : Over(t, r, FALSE) /\ UNCHANGED items
  BY <1>2, <1>3, <1>5, OverStep DEF Excused, Ranges
<1>6. CASE "failed" \in d.keeps /\ Lend(d, "failed", "Odd")
             /\ Over(t, "error", FALSE)
  BY <1>1, <1>3, <1>6, KeepStep DEF Excused
<1>7. CASE /\ Lend(d, "held", "Odd")
           /\ thread' = [thread EXCEPT ![t].at = "destroy",
                ![t].item = Len(items'), ![t].result = "error", ![t].fair = FALSE]
           /\ UNCHANGED <<options, history>>
  BY <1>1, <1>3, <1>7, HoldStep DEF Excused, Results
<1> QED
  BY <1>1, <1>4, <1>5, <1>6, <1>7 DEF Fail

LEMMA SucceedStep ==
  ASSUME IInv, NEW t \in Threads, Succeed(t)
  PROVE Kept(t)
<1>1. PICK d \in Calls : d = thread[t].call
  BY DEF IInv, Walking, ThreadType
<1>2. Ranges(d) /\ Answers(d)
  BY CallsAreSound DEF Sound
<1>3. PICK fair \in BOOLEAN : fair = (d.lends = {} /\ ~d.input)
  OBVIOUS
<1>4. PICK r \in {d.null, "live"} : Over(t, r, fair)
  BY <1>1, <1>3 DEF Succeed
<1>5. Excused(t, r, fair)
  BY <1>2, <1>3, <1>4 DEF Excused, Answers
<1>6. r \in Results
  BY <1>2, <1>4 DEF Ranges, Results
<1> QED
  BY <1>4, <1>5, <1>6, OverStep DEF Succeed

LEMMA ReceiveStep ==
  ASSUME IInv, NEW t \in Threads, Receive(t)
  PROVE Kept(t)
<1>1. PICK d \in Calls : d = thread[t].call
  BY DEF IInv, Walking, ThreadType
<1>2. Ranges(d) /\ Answers(d)
  BY CallsAreSound DEF Sound
<1>3. PICK ty \in thread[t].call.lends \cup {"Odd", "RscConflict", "IoByteArray"},
           data \in BOOLEAN :
        LET why == IF ~data THEN "no_data"
                   ELSE IF ty \in thread[t].call.reads THEN "read" ELSE "unread"
            r == IF why = "read" /\ ty \in thread[t].call.wants
                   THEN "ok" ELSE "error"
            fair == ty \in thread[t].call.lends /\ data /\ ~thread[t].call.input
        IN /\ ~data => \/ thread[t].call = PduGetEventItem
                       \/ thread[t].call.option = "io_ctl" /\ ty = "IoByteArray"
           /\ \/ /\ why \in thread[t].call.keeps
                 /\ Lend(thread[t].call, why, ty) /\ Over(t, r, fair)
              \/ /\ why \notin thread[t].call.keeps
                 /\ Lend(thread[t].call, "held", ty)
                 /\ thread' = [thread EXCEPT ![t].at = "destroy",
                      ![t].item = Len(items'), ![t].result = r, ![t].fair = fair]
                 /\ UNCHANGED <<options, history>>
  BY Zenon DEF Receive
<1> DEFINE Why == IF ~data THEN "no_data"
                  ELSE IF ty \in thread[t].call.reads THEN "read" ELSE "unread"
           Answer == IF Why = "read" /\ ty \in thread[t].call.wants
                       THEN "ok" ELSE "error"
           Fair == ty \in thread[t].call.lends /\ data /\ ~thread[t].call.input
<1>4. ty \in ItemTypes
  <2>1. ty \in d.lends \cup {"Odd", "RscConflict", "IoByteArray"}
    BY <1>1
  <2>2. {"Odd", "RscConflict", "IoByteArray"} \subseteq ItemTypes
    BY DEF ItemTypes, IoTypes
  <2> QED
    BY <1>2, <2>1, <2>2 DEF Ranges
<1>5. PICK why \in {"no_data", "read", "unread"} : why = Why
  OBVIOUS
<1>6. PICK r \in {"ok", "error"} : r = Answer
  OBVIOUS
<1>7. PICK fair \in BOOLEAN : fair = Fair
  OBVIOUS
<1>8. Excused(t, r, fair)
  <2> SUFFICES ASSUME fair, r = "error", d.name \notin Undelivered PROVE FALSE
    BY <1>1 DEF Excused
  <2>1. ty \in d.lends /\ data
    BY <1>1, <1>7
  <2>2. ty \in d.reads /\ ty \in d.wants
    BY <1>2, <2>1 DEF Answers
  <2> QED
    BY <1>1, <1>6, <2>1, <2>2
<1>9. thread[t].at = "call" /\ UNCHANGED <<worker, described, begun>>
  BY DEF Receive
<1>12. \/ /\ Why \in d.keeps /\ Lend(d, Why, ty) /\ Over(t, Answer, Fair)
       \/ /\ Lend(d, "held", ty)
          /\ thread' = [thread EXCEPT ![t].at = "destroy",
               ![t].item = Len(items'), ![t].result = Answer, ![t].fair = Fair]
          /\ UNCHANGED <<options, history>>
  BY <1>1, <1>3, Zenon
<1> HIDE DEF Why, Answer, Fair
<1>10. CASE why \in d.keeps /\ Lend(d, why, ty) /\ Over(t, r, fair)
  BY <1>1, <1>4, <1>8, <1>9, <1>10, KeepStep DEF Results
<1>11. CASE /\ Lend(d, "held", ty)
            /\ thread' = [thread EXCEPT ![t].at = "destroy",
                 ![t].item = Len(items'), ![t].result = r, ![t].fair = fair]
            /\ UNCHANGED <<options, history>>
  BY <1>1, <1>4, <1>8, <1>9, <1>11, HoldStep DEF Results
<1> QED
  BY <1>5, <1>6, <1>7, <1>10, <1>11, <1>12

LEMMA DestroyItemStep ==
  ASSUME IInv, NEW t \in Threads, DestroyItem(t)
  PROVE Kept(t)
<1>1. thread[t] \in ThreadType /\ Rightly(thread[t]) /\ thread[t].at = "destroy"
  BY DEF IInv, Walking, DestroyItem
<1>2. PICK state \in {"returned", "refused"}, r \in Results, fair \in BOOLEAN :
        /\ items' = [items EXCEPT ![thread[t].item].state = state]
        /\ Over(t, r, fair) /\ Excused(t, r, fair)
  BY <1>1 DEF DestroyItem, Excused, Rightly, ThreadType, Results
<1>3. /\ Walking' /\ OnlyMoves(t) /\ thread'[t].at # "destroy"
      /\ Finishes(t)
  BY <1>1, <1>2, OverMoves DEF IInv
<1>4. Answering'
  BY <1>1, <1>2, OverAnswers DEF IInv
<1>5. Lending'
  BY <1>1, <1>2, <1>3, ItemGivenBack DEF IInv
<1>6. IInv'
  BY <1>3, <1>4, <1>5 DEF IInv, DestroyItem
<1> QED
  BY <1>3, <1>6 DEF Kept, OnlyMoves

LEMMA Initially ==
  ASSUME Init
  PROVE IInv
<1>1. Walking
  BY IdleIsRight DEF Init, Walking, Briefly
<1>2. Lending
  BY IdleIsRight, CallsAssumption DEF Init, Lending, ItemsReturned, GivesBack
<1> QED
  BY <1>1, <1>2, CallsAssumption DEF Init, IInv, Answering

LEMMA Stuttering ==
  ASSUME IInv, UNCHANGED vars
  PROVE IInv'
  BY DEF IInv, Walking, Answering, Lending, ItemsReturned, GivesBack, vars,
         history

LEMMA NextKeeps ==
  ASSUME IInv, Next
  PROVE \E t \in Threads : Kept(t)
  BY CallStep, CallCompoundStep, RefuseStep, LookUpStep, FailStep, SucceedStep,
     ReceiveStep, DestroyItemStep DEF Next

-----------------------------------------------------------------------------
\* Nothing the walk can meet is outside IInv: every thread is where its
\* wrapper can be, its options are those of its call, its item is held by it
\* alone, and only exceptions have been rejected.
THEOREM Inductive == Spec => []IInv
<1>1. IInv /\ [Next]_vars => IInv'
  BY NextKeeps, Stuttering DEF Kept
<1> QED
  BY <1>1, Initially, PTL DEF Spec

\* Every variable keeps its type, and names are resolved before the call, for
\* any number of threads and calls.
THEOREM TypeCorrect == Spec => []TypeOK
<1>1. IInv => TypeOK
  BY DEF IInv, Walking, Answering, Lending, TypeOK, ThreadType, Rightly, ItemType
<1> QED
  BY <1>1, Inductive, PTL

\* Items go back to the driver once, from the thread they were lent to, but
\* for those of the wrappers that keep them.
THEOREM ItemsGoBack == Spec => []ItemsReturned
<1>1. IInv => ItemsReturned
  BY DEF IInv, Lending
<1> QED
  BY <1>1, Inductive, PTL

\* The options a thread has set are those of the call it is in: none is left
\* for the next.
THEOREM OptionsAreBrief == Spec => []SuppressionEnds
<1>1. IInv => SuppressionEnds
  BY DEF IInv, Walking, Briefly, SuppressionEnds
<1> QED
  BY <1>1, Inductive, PTL

\* A driver true to its declarations is answered with a failure only by the
\* wrappers listed in Undelivered.
THEOREM AnswersArrive == Spec => []AnswersDelivered
<1>1. IInv => AnswersDelivered
  BY DEF IInv, Answering, AnswersDelivered
<1> QED
  BY <1>1, Inductive, PTL

\* A destructor of a link, a module or a primitive ends with its last call, and
\* stops before it only at the status: that of a module when it cannot be read,
\* that of a primitive when it cannot be read or the primitive is not alive.
THEOREM DestructorsEnd == Spec => DestructorsFinish
<1> DEFINE Finish == \A t \in Threads : Finishes(t)
<1>1. IInv /\ [Next]_vars => [Finish]_vars
  <2> SUFFICES ASSUME IInv, Next, NEW t \in Threads PROVE Finishes(t)
    OBVIOUS
  <2>1. PICK u \in Threads : Kept(u)
    BY NextKeeps
  <2>2. CASE t = u
    BY <2>1, <2>2 DEF Kept
  <2>3. CASE t # u
    BY <2>1, <2>3, Unfinished DEF Kept, OnlyMoves, IInv
  <2> QED
    BY <2>2, <2>3
<1> QED
  BY <1>1, Inductive, PTL DEF Spec, DestructorsFinish

=============================================================================
