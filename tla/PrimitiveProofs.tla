--------------------------- MODULE PrimitiveProofs ---------------------------
(***************************************************************************)
(* Theorems about Primitive, for every set of threads and handles, every   *)
(* channel capacity and every bound on the driver: its types, what the     *)
(* flags, the channel and the waiters say, that no handle is lost unseen,  *)
(* that it implements PrimitiveContract, and that what a waiter, a         *)
(* cancellation or a drop waits for is due.                                *)
(***************************************************************************)
EXTENDS Primitive, FiniteSetTheorems, TLAPS

-----------------------------------------------------------------------------
(***************************************************************************)
(* Types, one part of the state at a time.                                 *)
(***************************************************************************)
LEMMA InitTypes == Init => TypeOK
<1> SUFFICES ASSUME Init PROVE TypeOK
  OBVIOUS
<1>1. DriverType
  BY DEF Init, DriverType, DriverState
<1>2. CallType
  BY DEF Init, CallType, Label, Answer
<1>3. ReceiverType
  BY DEF Init, ReceiverType
<1>4. ListenerType
  <2>1. pdu_events \in Seq(PduEvent) BY DEF Init
  <2>2. log \in Seq(PrimitiveEvent) BY DEF Init
  <2>3. listener \in {"running", "stopped", "panicked"} BY DEF Init
  <2>4. current \in PduEvent \cup {NoEvent} BY DEF Init
  <2>5. dead \in BOOLEAN BY DEF Init
  <2>6. error \in BOOLEAN BY DEF Init
  <2>7. status \in Status \cup {"Created"} BY DEF Init
  <2>8. QED BY <2>1, <2>2, <2>3, <2>4, <2>5, <2>6, <2>7 DEF ListenerType
<1>5. DropType
  BY DEF Init, DropType
<1>6. QED BY <1>1, <1>2, <1>3, <1>4, <1>5 DEF TypeOK

LEMMA DriverTypes ==
  ASSUME TypeOK, NEW h \in Handles, Driver(h)
  PROVE  TypeOK'
<1>1. PICK s \in DriverState, e \in PduEvent :
        driver' \in {driver, [driver EXCEPT ![h] = s]} /\ Raise(e)
  <2>1. CASE DriverStatus(h)
    BY <2>1 DEF DriverStatus, DriverState, LiveDriver, Status, PduEvent
  <2>2. CASE DriverResult(h)
    BY <2>2 DEF DriverResult, DriverState, PduEvent
  <2>3. CASE DriverError(h)
    BY <2>3 DEF DriverError, DriverState, PduEvent
  <2>4. QED BY <2>1, <2>2, <2>3 DEF Driver
<1>2. DriverType'
  BY <1>1 DEF TypeOK, DriverType, Raise
<1>3. pdu_events' \in Seq(PduEvent)
  BY <1>1 DEF TypeOK, ListenerType, Raise
<1>4. CallType' /\ ReceiverType' /\ DropType'
  BY <1>1 DEF TypeOK, CallType, ReceiverType, DropType, Raise, threadVars, dropVars
<1>5. ListenerType'
  BY <1>1, <1>3 DEF TypeOK, ListenerType, Raise, listenerVars
<1>6. QED BY <1>2, <1>4, <1>5 DEF TypeOK

LEMMA ListenTypes ==
  ASSUME TypeOK, Listen
  PROVE  TypeOK'
<1>1. UNCHANGED <<driverVars, h_cop, pdu_sync, threadVars, dropVars>>
  BY DEF Listen, ListenTake, ListenPublish, ListenClosed, dropVars
<1>2. DriverType' /\ CallType' /\ ReceiverType' /\ DropType'
  BY <1>1 DEF TypeOK, DriverType, CallType, ReceiverType, DropType,
     driverVars, threadVars, dropVars
<1>3. ListenerType'
  <2>1. CASE ListenTake
    <3>1. Head(pdu_events) \in PduEvent /\ Tail(pdu_events) \in Seq(PduEvent)
      BY <2>1 DEF ListenTake, TypeOK, ListenerType
    <3>2. pdu_events' \in Seq(PduEvent) /\ current' \in PduEvent \cup {NoEvent}
      BY <2>1, <3>1 DEF ListenTake
    <3>3. UNCHANGED <<status, log>> /\ listener' \in {listener, "panicked"}
      BY <2>1 DEF ListenTake
    <3>4. dead' \in BOOLEAN /\ error' \in BOOLEAN
      BY <2>1, Zenon DEF ListenTake, DeadAfter, ErrorAfter
    <3>5. QED BY <3>2, <3>3, <3>4 DEF TypeOK, ListenerType
  <2>2. CASE ListenPublish
    <3>1. current \in PduEvent
      BY <2>2 DEF ListenPublish, TypeOK, ListenerType
    <3>2. log' \in Seq(PrimitiveEvent)
      BY <2>2, <3>1 DEF ListenPublish, TypeOK, ListenerType, PrimitiveEvent
    <3>3. pdu_events' \in Seq(PduEvent)
      <4>1. pdu_events' = <<>> \/ pdu_events' = pdu_events
        BY <2>2 DEF ListenPublish
      <4>2. <<>> \in Seq(PduEvent) /\ pdu_events \in Seq(PduEvent)
        BY DEF TypeOK, ListenerType
      <4>3. QED BY <4>1, <4>2
    <3>4. listener' \in {listener, "stopped"} /\ current' = NoEvent
      BY <2>2 DEF ListenPublish
    <3>5. (status' = current /\ current \in Status) \/ UNCHANGED status
      BY <2>2 DEF ListenPublish
    <3>6. UNCHANGED <<dead, error>>
      BY <2>2 DEF ListenPublish
    <3>7. QED BY <3>2, <3>3, <3>4, <3>5, <3>6 DEF TypeOK, ListenerType
  <2>3. CASE ListenClosed
    BY <2>3 DEF ListenClosed, TypeOK, ListenerType
  <2>4. QED BY <2>1, <2>2, <2>3 DEF Listen
<1>4. QED BY <1>2, <1>3 DEF TypeOK

LEMMA StartTypes ==
  ASSUME TypeOK, NEW t \in Threads, Start(t)
  PROVE  TypeOK'
<1>1. DriverType'
  BY DEF TypeOK, DriverType, DriverState, LiveDriver, AliveStatus, Start,
     StartCheck, StartCall, StartRecord, StartAbort, driverVars
<1>2. CallType'
  <2> USE DEF TypeOK, CallType, Label, Answer, Goto, Return, Enter
  <2>1. CASE StartCheck(t) BY <2>1 DEF StartCheck
  <2>2. CASE StartCall(t) BY <2>2 DEF StartCall
  <2>3. CASE StartRecord(t) BY <2>3 DEF StartRecord
  <2>4. CASE StartAbort(t) BY <2>4 DEF StartAbort
  <2>5. QED BY <2>1, <2>2, <2>3, <2>4 DEF Start
<1>3. ReceiverType' /\ DropType'
  BY DEF TypeOK, ReceiverType, DropType, Start, StartCheck, StartCall,
     StartRecord, StartAbort, dropVars
<1>4. /\ UNCHANGED <<pdu_events, listenerVars>>
      /\ log' \in {log, Append(log, "StartFailed")}
  BY DEF Start, StartCheck, StartCall, StartRecord, StartAbort
<1>5. log' \in Seq(PrimitiveEvent)
  BY <1>4 DEF TypeOK, ListenerType, PrimitiveEvent
<1>6. ListenerType'
  BY <1>4, <1>5 DEF TypeOK, ListenerType, listenerVars
<1>7. QED BY <1>1, <1>2, <1>3, <1>6 DEF TypeOK

LEMMA CancelTypes ==
  ASSUME TypeOK, NEW t \in Threads, Cancel(t)
  PROVE  TypeOK'
<1>1. DriverType'
  BY DEF TypeOK, DriverType, DriverState, LiveDriver, Cancel, CancelCheck,
     CancelCall, CancelledBy, driverVars
<1>2. CallType'
  BY DEF TypeOK, CallType, Label, Answer, Goto, Return, Enter, Cancel,
     CancelCheck, CancelCall
<1>3. ReceiverType' /\ DropType'
  BY DEF TypeOK, ReceiverType, DropType, Cancel, CancelCheck, CancelCall, dropVars
<1>4. UNCHANGED <<pdu_events, listenerVars, log>>
  BY DEF Cancel, CancelCheck, CancelCall
<1>5. ListenerType'
  BY <1>4 DEF TypeOK, ListenerType, listenerVars
<1>6. QED BY <1>1, <1>2, <1>3, <1>5 DEF TypeOK

LEMMA WaitTypes ==
  ASSUME TypeOK, NEW t \in Threads, Wait(t)
  PROVE  TypeOK'
<1>1. UNCHANGED <<driverVars, pdu_events, listenerVars, log, dropVars>>
  BY DEF Wait, WaitCheck, RxCheckDead, RxTake, Recv
<1>2. DriverType' /\ ListenerType' /\ DropType'
  BY <1>1 DEF TypeOK, DriverType, ListenerType, DropType, driverVars,
     listenerVars, dropVars
<1>3. CallType'
  <2> USE DEF TypeOK, CallType, Label, Answer, Goto, Return, Enter
  <2>1. CASE WaitCheck(t) BY <2>1 DEF WaitCheck
  <2>2. CASE RxCheckDead(t) BY <2>2 DEF RxCheckDead
  <2>3. CASE RxTake(t) BY <2>3 DEF RxTake
  <2>4. CASE Recv(t)
    <3>1. AnswerTo(t, log[rx[t] + 1]) \in Answer /\ Fallthrough(t) \in Answer
      BY DEF AnswerTo, Fallthrough
    <3>2. QED BY <2>4, <3>1 DEF Recv
  <2>5. QED BY <2>1, <2>2, <2>3, <2>4 DEF Wait
<1>4. ReceiverType'
  <2> USE DEF TypeOK, ReceiverType
  <2>1. CASE WaitCheck(t) BY <2>1 DEF WaitCheck
  <2>2. CASE RxCheckDead(t) BY <2>2 DEF RxCheckDead
  <2>3. CASE RxTake(t)
    <3>1. Len(log) \in Nat BY DEF ListenerType
    <3>2. rx' \in [Threads -> Nat] BY <2>3, <3>1 DEF RxTake, FirstUnread
    <3>3. QED BY <2>3, <3>2 DEF RxTake
  <2>4. CASE Recv(t) BY <2>4 DEF Recv
  <2>5. QED BY <2>1, <2>2, <2>3, <2>4 DEF Wait
<1>5. QED BY <1>2, <1>3, <1>4 DEF TypeOK

LEMMA DropTypes ==
  ASSUME TypeOK, Drop \/ Destruct
  PROVE  TypeOK'
<1>1. /\ UNCHANGED <<emitted, h_cop, pdu_sync, threadVars, pdu_events, log>>
      /\ UNCHANGED listenerVars
  BY DEF Drop, Destruct, driverVars
<1>2. CallType' /\ ReceiverType'
  BY <1>1 DEF TypeOK, CallType, ReceiverType, threadVars
<1>3. ListenerType'
  BY <1>1 DEF TypeOK, ListenerType, listenerVars
<1>4. DriverType' /\ DropType'
  BY DEF TypeOK, DriverType, DropType, DriverState, LiveDriver, Drop, Destruct,
     CancelledBy, driverVars
<1>5. QED BY <1>2, <1>3, <1>4 DEF TypeOK

\* Every variable keeps its type: the driver, the listener and the callers
\* only store what handle_event() and the calls of PduPrimitive produce.
THEOREM TypeCorrect == Spec => []TypeOK
<1>1. TypeOK /\ [Next]_vars => TypeOK'
  <2> SUFFICES ASSUME TypeOK, [Next]_vars PROVE TypeOK'
    OBVIOUS
  <2>1. CASE UNCHANGED vars
    BY <2>1 DEF vars, TypeOK, DriverType, CallType, ReceiverType, ListenerType,
       DropType, driverVars, threadVars, listenerVars, dropVars
  <2>2. CASE Next
    BY <2>2, DriverTypes, ListenTypes, StartTypes, CancelTypes, WaitTypes,
       DropTypes DEF Next
  <2>3. QED BY <2>1, <2>2
<1>2. QED BY <1>1, InitTypes, PTL DEF Spec

-----------------------------------------------------------------------------
(***************************************************************************)
(* The inductive invariant.  What the listener holds in its hand has set   *)
(* its flag already; only a running listener holds an event, and one that  *)
(* has broadcast the end runs no more.                                     *)
(***************************************************************************)
HandLeads ==
  /\ current \in TerminalStatus => dead
  /\ current = "Error" => error

RunningMeansNoEnd ==
  /\ current # NoEvent => listener = "running"
  /\ HasTerminal(log) => listener = "stopped"

LeftAtTheEndUnlessLagged ==
  \A t \in Threads : res[t] \in {"Ok", "RxTimeout"} => dead \/ Len(log) > Capacity

IInv ==
  /\ HandLeads
  /\ FlagsLeadEvents
  /\ RunningMeansNoEnd
  /\ EndIsLast
  /\ LeftAtTheEndUnlessLagged

\* What one more event on the channel changes.
LEMMA OneMoreEvent ==
  ASSUME log \in Seq(PrimitiveEvent), NEW e \in PrimitiveEvent,
         log' = Append(log, e)
  PROVE  /\ Len(log') = Len(log) + 1
         /\ \A i \in DOMAIN log : i \in DOMAIN log' /\ log'[i] = log[i]
         /\ \A i \in DOMAIN log' : i \in DOMAIN log \/ (i = Len(log') /\ log'[i] = e)
         /\ HasTerminal(log') => HasTerminal(log) \/ e \in TerminalStatus
         /\ Has(log', "Error") => Has(log, "Error") \/ e = "Error"
<1>1. /\ Len(log') = Len(log) + 1
      /\ \A i \in DOMAIN log : i \in DOMAIN log' /\ log'[i] = log[i]
      /\ \A i \in DOMAIN log' : i \in DOMAIN log \/ (i = Len(log') /\ log'[i] = e)
  OBVIOUS
<1>2. QED BY <1>1 DEF HasTerminal, Has

\* Only the listener changes its own state; the only other event on the
\* channel is the start that failed.
LEMMA OthersKeepFlags ==
  ASSUME [Next]_vars, ~Listen
  PROVE  /\ UNCHANGED listenerVars
         /\ log' = log \/ log' = Append(log, "StartFailed")
<1>1. CASE UNCHANGED vars
  BY <1>1 DEF vars
<1>2. ASSUME NEW h \in Handles, Driver(h)
      PROVE  UNCHANGED <<listenerVars, log>>
  BY <1>2 DEF Driver, DriverStatus, DriverResult, DriverError, Raise
<1>3. ASSUME NEW t \in Threads, Start(t)
      PROVE  /\ UNCHANGED listenerVars
             /\ log' = log \/ log' = Append(log, "StartFailed")
  BY <1>3 DEF Start, StartCheck, StartCall, StartRecord, StartAbort
<1>4. ASSUME NEW t \in Threads, Cancel(t) \/ Wait(t)
      PROVE  UNCHANGED <<listenerVars, log>>
  BY <1>4 DEF Cancel, CancelCheck, CancelCall, Wait, WaitCheck, RxCheckDead,
     RxTake, Recv
<1>5. CASE Drop \/ Destruct
  BY <1>5 DEF Drop, Destruct
<1>6. QED BY <1>1, <1>2, <1>3, <1>4, <1>5 DEF Next

\* A call returns Ok or RxTimeout only from the receive loop.
LEMMA OnlyRecvGivesUp ==
  ASSUME TypeOK, [Next]_vars, NEW t \in Threads, res'[t] \in {"Ok", "RxTimeout"}
  PROVE  res'[t] = res[t] \/ Recv(t)
<1> USE DEF TypeOK, CallType
<1>1. CASE UNCHANGED res
  BY <1>1
<1>2. ASSUME NEW u \in Threads, Start(u) PROVE res'[t] = res[t]
  BY <1>2 DEF Start, StartCheck, StartCall, StartRecord, StartAbort, Enter, Return
<1>3. ASSUME NEW u \in Threads, Cancel(u) PROVE res'[t] = res[t]
  BY <1>3 DEF Cancel, CancelCheck, CancelCall, Enter, Return
<1>4. ASSUME NEW u \in Threads, Wait(u) PROVE res'[t] = res[t] \/ Recv(t)
  <2>1. CASE WaitCheck(u) BY <2>1 DEF WaitCheck, Enter, Return
  <2>2. CASE RxCheckDead(u) BY <2>2 DEF RxCheckDead, Return
  <2>3. CASE RxTake(u) BY <2>3 DEF RxTake
  <2>4. CASE Recv(u)
    <3>1. CASE u = t BY <2>4, <3>1
    <3>2. CASE u # t BY <2>4, <3>2 DEF Recv, Return
    <3>3. QED BY <3>1, <3>2
  <2>5. QED BY <1>4, <2>1, <2>2, <2>3, <2>4 DEF Wait
<1>5. Next => \/ UNCHANGED res
              \/ \E u \in Threads : Start(u) \/ Cancel(u) \/ Wait(u)
  BY DEF Next, Driver, DriverStatus, DriverResult, DriverError, Raise, Listen,
     ListenTake, ListenPublish, ListenClosed, Drop, Destruct, threadVars
<1>6. UNCHANGED vars => UNCHANGED res
  BY DEF vars, threadVars
<1>7. QED BY <1>1, <1>2, <1>3, <1>4, <1>5, <1>6

\* A waiter that gives up has read the end, or has lagged.
LEMMA RecvGivesUp ==
  ASSUME TypeOK, IInv, NEW t \in Threads, Recv(t), res'[t] \in {"Ok", "RxTimeout"},
         res'[t] # res[t]
  PROVE  dead \/ Len(log) > Capacity
<1> DEFINE e == log[rx[t] + 1]
<1>1. rx[t] \in Nat /\ Len(log) \in Nat /\ rx[t] + 1 \in DOMAIN log
  <2>1. rx[t] \in Nat BY DEF TypeOK, ReceiverType
  <2>2. Len(log) \in Nat /\ DOMAIN log = 1..Len(log) BY DEF TypeOK, ListenerType
  <2>3. QED BY <2>1, <2>2 DEF Recv
<1>2. CASE Lagged(t)
  BY <1>1, <1>2, PrimitiveAssumption DEF Lagged
<1>3. CASE ~Lagged(t)
  <2>1. res'[t] = AnswerTo(t, e)
    BY <1>3 DEF Recv, Return, TypeOK, CallType
  <2>2. e \in TerminalStatus
    BY <2>1 DEF AnswerTo
  <2>3. HasTerminal(log)
    BY <1>1, <2>2 DEF HasTerminal
  <2>4. QED BY <2>3 DEF IInv, FlagsLeadEvents
<1>4. QED BY <1>2, <1>3

LEMMA InitIInv == Init => IInv
  BY DEF Init, IInv, HandLeads, FlagsLeadEvents, RunningMeansNoEnd, EndIsLast,
     LeftAtTheEndUnlessLagged, HasTerminal, Has, TerminalStatus, NoEvent

\* The listener's own steps.
LEMMA ListenIInv ==
  ASSUME TypeOK, IInv, Listen
  PROVE  HandLeads' /\ FlagsLeadEvents' /\ RunningMeansNoEnd' /\ EndIsLast'
<1>0. log \in Seq(PrimitiveEvent)
  BY DEF TypeOK, ListenerType
<1>1. CASE ListenTake
  <2>1. HandLeads'
    BY <1>1 DEF ListenTake, DeadAfter, ErrorAfter, HandLeads, TerminalStatus, NoEvent
  <2>2. FlagsLeadEvents'
    BY <1>1 DEF ListenTake, DeadAfter, ErrorAfter, IInv, FlagsLeadEvents
  <2>3. ~HasTerminal(log)
    BY <1>1 DEF ListenTake, IInv, RunningMeansNoEnd
  <2>4. RunningMeansNoEnd'
    BY <1>1, <2>3 DEF ListenTake, RunningMeansNoEnd
  <2>5. EndIsLast'
    BY <1>1 DEF ListenTake, IInv, EndIsLast
  <2>6. QED BY <2>1, <2>2, <2>4, <2>5
<1>2. CASE ListenPublish
  <2>1. current \in PrimitiveEvent /\ log' = Append(log, current)
    BY <1>2 DEF ListenPublish, TypeOK, ListenerType, PrimitiveEvent
  <2>2. UNCHANGED <<dead, error>> /\ current' = NoEvent
    BY <1>2 DEF ListenPublish
  <2>3. HandLeads'
    BY <2>2 DEF HandLeads, TerminalStatus, NoEvent
  <2>4. FlagsLeadEvents'
    BY <1>0, <2>1, <2>2, OneMoreEvent DEF IInv, FlagsLeadEvents, HandLeads
  <2>5. ~HasTerminal(log)
    BY <1>2 DEF ListenPublish, IInv, RunningMeansNoEnd
  <2>6. current \in TerminalStatus => listener' = "stopped"
    BY <1>2 DEF ListenPublish, StopsAt
  <2>7. RunningMeansNoEnd'
    BY <1>0, <2>1, <2>2, <2>5, <2>6, OneMoreEvent DEF RunningMeansNoEnd
  <2>8. EndIsLast'
    <3> SUFFICES ASSUME NEW i \in DOMAIN log', log'[i] \in TerminalStatus,
                        NEW j \in DOMAIN log', j > i
                 PROVE  FALSE
      BY DEF EndIsLast
    <3>1. i = Len(log')
      BY <1>0, <2>1, <2>5, OneMoreEvent DEF HasTerminal
    <3>2. QED BY <1>0, <2>1, <3>1
  <2>9. QED BY <2>3, <2>4, <2>7, <2>8
<1>3. CASE ListenClosed
  <2>1. UNCHANGED <<current, dead, error, log>> /\ current = NoEvent
    BY <1>3 DEF ListenClosed
  <2>2. listener' = "stopped"
    BY <1>3 DEF ListenClosed
  <2>3. QED BY <2>1, <2>2 DEF IInv, HandLeads, FlagsLeadEvents,
            RunningMeansNoEnd, EndIsLast
<1>4. QED BY <1>1, <1>2, <1>3 DEF Listen

\* Everybody else's steps.
LEMMA OthersIInv ==
  ASSUME TypeOK, IInv, [Next]_vars, ~Listen
  PROVE  HandLeads' /\ FlagsLeadEvents' /\ RunningMeansNoEnd' /\ EndIsLast'
<1>1. UNCHANGED <<listener, current, dead, error>>
  BY OthersKeepFlags DEF listenerVars
<1>2. log \in Seq(PrimitiveEvent)
  BY DEF TypeOK, ListenerType
<1>3. HandLeads'
  BY <1>1 DEF IInv, HandLeads
<1>4. CASE log' = log
  BY <1>1, <1>3, <1>4 DEF IInv, FlagsLeadEvents, RunningMeansNoEnd, EndIsLast
<1>5. CASE log' = Append(log, "StartFailed")
  <2>1. "StartFailed" \in PrimitiveEvent \ TerminalStatus
    BY DEF PrimitiveEvent, TerminalStatus
  <2>2. FlagsLeadEvents' /\ RunningMeansNoEnd'
    BY <1>1, <1>2, <1>5, <2>1, OneMoreEvent DEF IInv, FlagsLeadEvents,
       RunningMeansNoEnd
  <2>3. EndIsLast'
    <3> SUFFICES ASSUME NEW i \in DOMAIN log', log'[i] \in TerminalStatus,
                        NEW j \in DOMAIN log', j > i
                 PROVE  log'[j] = "StartFailed"
      BY DEF EndIsLast
    <3>1. i \in DOMAIN log /\ log[i] \in TerminalStatus
      BY <1>2, <1>5, <2>1, OneMoreEvent
    <3>2. CASE j \in DOMAIN log
      BY <1>2, <1>5, <2>1, <3>1, <3>2, OneMoreEvent DEF IInv, EndIsLast
    <3>3. CASE j \notin DOMAIN log
      BY <1>2, <1>5, <2>1, <3>3, OneMoreEvent
    <3>4. QED BY <3>2, <3>3
  <2>4. QED BY <1>3, <2>2, <2>3
<1>6. QED BY <1>4, <1>5, OthersKeepFlags

LEMMA StepIInv ==
  ASSUME TypeOK, IInv, [Next]_vars
  PROVE  IInv'
<1>1. HandLeads' /\ FlagsLeadEvents' /\ RunningMeansNoEnd' /\ EndIsLast'
  BY ListenIInv, OthersIInv
<1>2. dead => dead'
  BY OthersKeepFlags DEF listenerVars, Listen, ListenTake, ListenPublish,
     ListenClosed, DeadAfter
<1>3. Len(log) \in Nat /\ Len(log') >= Len(log)
  <2>1. log \in Seq(PrimitiveEvent)
    BY DEF TypeOK, ListenerType
  <2>2. \E e : log' = log \/ log' = Append(log, e)
    BY OthersKeepFlags DEF Listen, ListenTake, ListenPublish, ListenClosed
  <2>3. QED BY <2>1, <2>2
<1>4. LeftAtTheEndUnlessLagged'
  <2> SUFFICES ASSUME NEW t \in Threads, res'[t] \in {"Ok", "RxTimeout"}
               PROVE  dead' \/ Len(log') > Capacity
    BY DEF LeftAtTheEndUnlessLagged
  <2>1. dead \/ Len(log) > Capacity
    BY OnlyRecvGivesUp, RecvGivesUp DEF IInv, LeftAtTheEndUnlessLagged
  <2>2. QED BY <1>2, <1>3, <2>1, PrimitiveAssumption
<1>5. QED BY <1>1, <1>4 DEF IInv

THEOREM Inductive == Spec => []IInv
<1>1. TypeOK /\ IInv /\ [Next]_vars => IInv'
  BY StepIInv
<1>2. QED BY <1>1, InitIInv, TypeCorrect, PTL DEF Spec

\* Whoever reads the end, or an error, from the channel finds is_dead(), or
\* get_error(), set: handle_event() stores before it sends.
THEOREM FlagsLead == Spec => []FlagsLeadEvents
<1>1. IInv => FlagsLeadEvents
  BY DEF IInv
<1>2. QED BY <1>1, Inductive, PTL

\* The listener broadcasts nothing after the primitive's end, however many
\* ComPrimitives report to it.
THEOREM EndComesLast == Spec => []EndIsLast
<1>1. IInv => EndIsLast
  BY DEF IInv
<1>2. QED BY <1>1, Inductive, PTL

\* As long as the channel has not overflowed, wait_finish() returns Ok and
\* get_result() RxTimeout only after the end, whatever interleaves with them.
THEOREM WaitersAreRight ==
  Spec => [](Len(log) <= Capacity => WaitersLeaveAtTheEnd)
<1>1. TypeOK /\ IInv => (Len(log) <= Capacity => WaitersLeaveAtTheEnd)
  <2> SUFFICES ASSUME TypeOK, IInv, Len(log) <= Capacity
               PROVE  WaitersLeaveAtTheEnd
    OBVIOUS
  <2>1. Len(log) \in Nat
    BY DEF TypeOK, ListenerType
  <2>2. ~(Len(log) > Capacity)
    BY <2>1, PrimitiveAssumption
  <2>3. QED BY <2>2 DEF IInv, LeftAtTheEndUnlessLagged, WaitersLeaveAtTheEnd
<1>2. QED BY <1>1, Inductive, TypeCorrect, PTL

-----------------------------------------------------------------------------
(***************************************************************************)
(* EveryHandleAccounted, for any number of racing starts.                  *)
(***************************************************************************)
Made == {h \in Handles : driver[h] # "Free"}
Recorded == {h \in Handles : h_cop = h}
Unrecorded == {t \in Threads : pc[t] \in {"start_record", "panicked", "abandoned"}}

CountInv ==
  /\ IsFiniteSet(Made) /\ IsFiniteSet(Unrecorded)
  /\ Cardinality(Made) = Cardinality(Recorded) + Cardinality(Unrecorded)
  /\ \A t \in Threads : pc[t] = "start_record" => started[t] \in Handles

LEMMA RecordedCount ==
  /\ h_cop = NoCop => Recorded = {} /\ Cardinality(Recorded) = 0
  /\ h_cop \in Handles => Recorded = {h_cop} /\ Cardinality(Recorded) = 1
<1>1. h_cop = NoCop => Recorded = {}
  BY PrimitiveAssumption DEF Recorded
<1>2. h_cop \in Handles => Recorded = {h_cop}
  BY DEF Recorded
<1>3. Cardinality({}) = 0 /\ \A x : Cardinality({x}) = 1
  BY FS_EmptySet, FS_Singleton
<1> QED
  BY <1>1, <1>2, <1>3

LEMMA InitCount == Init => CountInv
<1> SUFFICES ASSUME Init PROVE CountInv
  OBVIOUS
<1>1. Made = {} /\ Unrecorded = {} /\ Recorded = {}
  BY PrimitiveAssumption DEF Init, Made, Unrecorded, Recorded
<1>2. \A t \in Threads : pc[t] # "start_record"
  BY DEF Init
<1> QED
  BY <1>1, <1>2, FS_EmptySet DEF CountInv

\* A step that makes, records and loses nothing.
LEMMA SameCount ==
  ASSUME CountInv, Made' = Made, Recorded' = Recorded, Unrecorded' = Unrecorded,
         \A t \in Threads : pc'[t] = "start_record" =>
           pc[t] = "start_record" /\ started'[t] = started[t]
  PROVE  CountInv'
BY DEF CountInv

\* The driver makes a ComPrimitive and the start has its handle to record.
LEMMA StartCallCount ==
  ASSUME TypeOK, CountInv, NEW t \in Threads, StartCall(t)
  PROVE  CountInv'
<1>1. /\ driver \in [Handles -> DriverState] /\ pc \in [Threads -> Label]
      /\ started \in [Threads -> Handles \cup {NoCop}]
      /\ pc[t] = "start_call" /\ UNCHANGED h_cop
  BY DEF TypeOK, DriverType, CallType, StartCall
<1>2. CASE \E h \in Handles :
             /\ driver[h] = "Free"
             /\ driver' = [driver EXCEPT ![h] = "Idle"]
             /\ started' = [started EXCEPT ![t] = h]
             /\ pc' = [pc EXCEPT ![t] = "start_record"]
  <2>1. PICK h \in Handles :
             /\ driver[h] = "Free"
             /\ driver' = [driver EXCEPT ![h] = "Idle"]
             /\ started' = [started EXCEPT ![t] = h]
             /\ pc' = [pc EXCEPT ![t] = "start_record"]
    BY <1>2
  <2>2. Made' = Made \cup {h} /\ h \notin Made
    BY <1>1, <2>1 DEF Made
  <2>3. Unrecorded' = Unrecorded \cup {t} /\ t \notin Unrecorded
    BY <1>1, <2>1 DEF Unrecorded
  <2>4. /\ IsFiniteSet(Made') /\ Cardinality(Made') = Cardinality(Made) + 1
        /\ IsFiniteSet(Unrecorded')
        /\ Cardinality(Unrecorded') = Cardinality(Unrecorded) + 1
    BY <2>2, <2>3, FS_AddElement DEF CountInv
  <2>5. /\ Recorded' = Recorded /\ Cardinality(Recorded) \in Nat
        /\ Cardinality(Unrecorded) \in Nat
    BY <1>1, RecordedCount, FS_CardinalityType DEF Recorded, CountInv, TypeOK, CallType
  <2>6. \A u \in Threads : pc'[u] = "start_record" => started'[u] \in Handles
    BY <1>1, <2>1 DEF CountInv
  <2> QED
    BY <2>4, <2>5, <2>6 DEF CountInv
<1>3. CASE UNCHANGED <<driver, started>> /\ pc' = [pc EXCEPT ![t] = "idle"]
  BY <1>1, <1>3, SameCount DEF Made, Recorded, Unrecorded
<1> QED
  BY <1>2, <1>3 DEF StartCall, Goto, Return

\* The handle is recorded, or the start panics and keeps it to itself.
LEMMA StartRecordCount ==
  ASSUME TypeOK, CountInv, NEW t \in Threads, StartRecord(t) \/ StartAbort(t)
  PROVE  CountInv'
<1>1. /\ pc \in [Threads -> Label] /\ started \in [Threads -> Handles \cup {NoCop}]
      /\ pc[t] = "start_record" /\ started[t] \in Handles
      /\ Made' = Made
  BY DEF TypeOK, CallType, StartRecord, StartAbort, CountInv, Made, driverVars
<1>2. CASE h_cop = NoCop /\ h_cop' = started[t] /\ pc' = [pc EXCEPT ![t] = "idle"]
  <2>1. Unrecorded' = Unrecorded \ {t} /\ t \in Unrecorded
    BY <1>1, <1>2 DEF Unrecorded
  <2>2. /\ IsFiniteSet(Unrecorded')
        /\ Cardinality(Unrecorded') = Cardinality(Unrecorded) - 1
    BY <2>1, FS_RemoveElement DEF CountInv
  <2>3. Cardinality(Unrecorded) \in Nat
    BY FS_CardinalityType DEF CountInv
  <2>4. Cardinality(Recorded) = 0
    BY <1>2, RecordedCount
  <2>5. Cardinality(Recorded') = 1
    <3>1. Recorded' = {started[t]}
      BY <1>1, <1>2 DEF Recorded
    <3> QED
      BY <3>1, FS_Singleton
  <2>6. \A u \in Threads : pc'[u] = "start_record" => started'[u] \in Handles
    BY <1>1, <1>2 DEF CountInv, StartRecord, StartAbort
  <2> QED
    BY <1>1, <2>2, <2>3, <2>4, <2>5, <2>6 DEF CountInv
<1>3. CASE UNCHANGED h_cop /\ \E l \in {"panicked", "abandoned"} : pc' = [pc EXCEPT ![t] = l]
  <2>1. Unrecorded' = Unrecorded /\ Recorded' = Recorded
    BY <1>1, <1>3 DEF Unrecorded, Recorded
  <2>2. \A u \in Threads : pc'[u] = "start_record" =>
          pc[u] = "start_record" /\ started'[u] = started[u]
    BY <1>1, <1>3 DEF StartRecord, StartAbort
  <2> QED
    BY <1>1, <2>1, <2>2, SameCount
<1> QED
  BY <1>2, <1>3 DEF StartRecord, StartAbort, Return, Goto

LEMMA NextCount == TypeOK /\ CountInv /\ [Next]_vars => CountInv'
<1> SUFFICES ASSUME TypeOK, CountInv, [Next]_vars PROVE CountInv'
  OBVIOUS
<1>1. driver \in [Handles -> DriverState] /\ pc \in [Threads -> Label]
  BY DEF TypeOK, DriverType, CallType
<1>2. ASSUME NEW h \in Handles, Driver(h)
      PROVE  CountInv'
  <2>1. UNCHANGED <<h_cop, pc, started>>
    BY <1>2 DEF Driver, DriverStatus, DriverResult, DriverError, Raise, threadVars
  <2>2. Made' = Made
    <3>1. \/ UNCHANGED driver
          \/ /\ driver[h] \in LiveDriver
             /\ \E s \in Status : driver' = [driver EXCEPT ![h] = s]
      BY <1>2 DEF Driver, DriverStatus, DriverResult, DriverError, LiveDriver
    <3> QED
      BY <1>1, <3>1 DEF Made, LiveDriver, Status, AliveStatus, TerminalStatus
  <2> QED
    BY <2>1, <2>2, SameCount DEF Recorded, Unrecorded
<1>3. CASE Listen
  BY <1>3, SameCount DEF Listen, ListenTake, ListenPublish, ListenClosed, driverVars,
     threadVars, Made, Recorded, Unrecorded
<1>4. ASSUME driver' \in {driver, CancelledBy(h_cop)}
      PROVE  Made' = Made
  BY <1>1, <1>4 DEF Made, CancelledBy, AliveStatus
<1>5. ASSUME NEW t \in Threads, StartCheck(t) \/ Cancel(t) \/ Wait(t)
      PROVE  CountInv'
  <2>1. /\ UNCHANGED <<h_cop, started>> /\ driver' \in {driver, CancelledBy(h_cop)}
    BY <1>5 DEF StartCheck, Cancel, CancelCheck, CancelCall, Wait, WaitCheck, RxCheckDead,
       RxTake, Recv, driverVars
  <2>2. /\ pc[t] \notin {"start_record", "panicked", "abandoned"}
        /\ \/ UNCHANGED pc
           \/ \E l \in Label \ {"start_record", "panicked", "abandoned"} :
                pc' = [pc EXCEPT ![t] = l]
    BY <1>5 DEF StartCheck, Cancel, CancelCheck, CancelCall, Wait, WaitCheck, RxCheckDead,
       RxTake, Recv, Goto, Return, Enter, Label
  <2>3. Unrecorded' = Unrecorded
    BY <1>1, <2>2 DEF Unrecorded
  <2>4. \A u \in Threads : pc'[u] = "start_record" => pc[u] = "start_record"
    BY <1>1, <2>2
  <2> QED
    BY <1>4, <2>1, <2>3, <2>4, SameCount DEF Recorded
<1>6. CASE Drop \/ Destruct \/ UNCHANGED vars
  <2>1. UNCHANGED <<h_cop, pc, started>> /\ driver' \in {driver, CancelledBy(h_cop)}
    BY <1>6 DEF Drop, Destruct, vars, driverVars, threadVars
  <2> QED
    BY <1>4, <2>1, SameCount DEF Recorded, Unrecorded
<1> QED
  BY <1>2, <1>3, <1>5, <1>6, StartCallCount, StartRecordCount DEF Next, Start

\* However many threads race through the check and the call of start(), every
\* ComPrimitive the driver made is recorded, about to be, or lost by exactly
\* one start that panicked or was abandoned.
THEOREM HandlesAccounted == Spec => []EveryHandleAccounted
<1>1. CountInv => EveryHandleAccounted
  BY DEF CountInv, EveryHandleAccounted, Made, Recorded, Unrecorded
<1>2. QED BY <1>1, InitCount, NextCount, TypeCorrect, PTL DEF Spec

-----------------------------------------------------------------------------
(***************************************************************************)
(* The contract: every step of the primitive is a step of PrimitiveContract *)
(* or changes nothing a caller sees.                                       *)
(***************************************************************************)
\* No receiver is so far behind that the channel has overwritten what it has
\* not read: recv() never fails with Lagged.
NobodyLags == \A t \in Threads : pc[t] = "recv" => ~Lagged(t)

Begun == \E h \in Handles : driver[h] # "Free"

\* A recorded handle is that of a primitive the driver made, and so is one
\* about to be recorded; only a started primitive is cancelled or waited for.
StartedFirst ==
  /\ h_cop # NoCop => driver[h_cop] # "Free"
  /\ \A t \in Threads :
       /\ pc[t] = "start_record" =>
            started[t] \in Handles /\ driver[started[t]] # "Free"
       /\ pc[t] \in {"cancel_call", "rx_dead", "rx_take", "recv"} => h_cop # NoCop

\* Events come from a primitive the driver made.
EventsAreOfBegun == (pdu_events # <<>> \/ current # NoEvent \/ dead) => Begun

\* When the flag is set, the listener has the end in its hand or has stopped:
\* it takes nothing any more.
DeadTakesNothing == dead => current \in TerminalStatus \/ listener = "stopped"

ContractInv == StartedFirst /\ EventsAreOfBegun /\ DeadTakesNothing

LEMMA InitContract == Init => ContractInv
<1> SUFFICES ASSUME Init PROVE ContractInv
  OBVIOUS
<1> QED
  BY DEF Init, ContractInv, StartedFirst, EventsAreOfBegun, DeadTakesNothing

\* The driver never takes a handle back.
LEMMA MadeStaysMade ==
  ASSUME TypeOK, [Next]_vars, NEW h \in Handles, driver[h] # "Free"
  PROVE  driver'[h] # "Free"
<1>1. driver \in [Handles -> DriverState]
  BY DEF TypeOK, DriverType
<1>2. ASSUME NEW g \in Handles, Driver(g) PROVE driver'[h] # "Free"
  <2>1. driver' = driver \/ \E s \in Status : driver' = [driver EXCEPT ![g] = s]
    BY <1>2 DEF Driver, DriverStatus, DriverResult, DriverError
  <2> QED
    BY <1>1, <2>1 DEF Status, AliveStatus, TerminalStatus
<1>3. ASSUME NEW t \in Threads, Start(t) PROVE driver'[h] # "Free"
  BY <1>1, <1>3 DEF Start, StartCheck, StartCall, StartRecord, StartAbort, driverVars
<1>4. driver' = CancelledBy(h_cop) => driver'[h] # "Free"
  BY <1>1 DEF CancelledBy
<1>5. ASSUME NEW t \in Threads, Cancel(t) \/ Wait(t)
      PROVE  driver' \in {driver, CancelledBy(h_cop)}
  BY <1>5 DEF Cancel, CancelCheck, CancelCall, Wait, WaitCheck, RxCheckDead,
     RxTake, Recv, driverVars
<1>6. Listen \/ Drop \/ Destruct \/ UNCHANGED vars =>
        driver' \in {driver, CancelledBy(h_cop)}
  BY DEF Listen, ListenTake, ListenPublish, ListenClosed, Drop, Destruct, vars,
     driverVars
<1> QED
  BY <1>2, <1>3, <1>4, <1>5, <1>6 DEF Next

\* Cancelling makes no primitive.
LEMMA CancelMakesNone ==
  ASSUME TypeOK, driver' \in {driver, CancelledBy(h_cop)}
  PROVE  Begun' <=> Begun
BY DEF Begun, CancelledBy, AliveStatus, TypeOK, DriverType

LEMMA StartedFirstStep ==
  ASSUME TypeOK, ContractInv, [Next]_vars
  PROVE  StartedFirst'
<1>1. /\ pc \in [Threads -> Label] /\ started \in [Threads -> Handles \cup {NoCop}]
      /\ h_cop \in Handles \cup {NoCop} /\ driver \in [Handles -> DriverState]
      /\ NoCop \notin Handles
  BY PrimitiveAssumption DEF TypeOK, CallType, DriverType
<1> USE DEF ContractInv, StartedFirst
\* A step that records and calls nothing.
<1>2. ASSUME UNCHANGED <<h_cop, started>>,
             \A t \in Threads :
               /\ pc'[t] = "start_record" => pc[t] = "start_record"
               /\ pc'[t] \in {"cancel_call", "rx_dead", "rx_take", "recv"} =>
                    h_cop # NoCop
      PROVE  StartedFirst'
  BY <1>1, <1>2, MadeStaysMade
<1>3. ASSUME UNCHANGED <<h_cop, started, pc>> PROVE StartedFirst'
  BY <1>2, <1>3
<1>4. ASSUME NEW t \in Threads, StartCheck(t) PROVE StartedFirst'
  BY <1>1, <1>2, <1>4 DEF StartCheck, Goto, Return, Enter
<1>5. ASSUME NEW t \in Threads, StartCall(t) PROVE StartedFirst'
  <2>1. h_cop' = h_cop /\ \A u \in Threads : u # t => pc'[u] = pc[u] /\ started'[u] = started[u]
    BY <1>1, <1>5 DEF StartCall, Goto, Return
  <2>2. \/ /\ pc'[t] = "start_record" /\ started'[t] \in Handles
           /\ driver'[started'[t]] # "Free"
        \/ pc'[t] = "idle"
    BY <1>1, <1>5 DEF StartCall, Goto, Return
  <2> QED
    BY <1>1, <2>1, <2>2, MadeStaysMade
<1>6. ASSUME NEW t \in Threads, StartRecord(t) PROVE StartedFirst'
  <2>1. \A u \in Threads : u # t => pc'[u] = pc[u] /\ started'[u] = started[u]
    BY <1>1, <1>6 DEF StartRecord, Goto, Return
  <2>2. pc'[t] \in {"idle", "panicked"} /\ h_cop' \in {h_cop, started[t]}
    BY <1>1, <1>6 DEF StartRecord, Goto, Return
  <2>3. h_cop # NoCop => h_cop' = h_cop
    BY <1>6 DEF StartRecord
  <2>4. started[t] \in Handles /\ driver[started[t]] # "Free"
    BY <1>6 DEF StartRecord
  <2> QED
    BY <1>1, <2>1, <2>2, <2>3, <2>4, MadeStaysMade
<1>7. ASSUME NEW t \in Threads, StartAbort(t) PROVE StartedFirst'
  <2>1. h_cop' = h_cop /\ \A u \in Threads : u # t => pc'[u] = pc[u] /\ started'[u] = started[u]
    BY <1>1, <1>7 DEF StartAbort, Goto
  <2>2. pc'[t] = "abandoned"
    BY <1>1, <1>7 DEF StartAbort, Goto
  <2> QED
    BY <1>1, <2>1, <2>2, MadeStaysMade
<1>8. ASSUME NEW t \in Threads, Cancel(t) \/ Wait(t) PROVE StartedFirst'
  BY <1>1, <1>2, <1>8 DEF Cancel, CancelCheck, CancelCall, Wait, WaitCheck,
     RxCheckDead, RxTake, Recv, Goto, Return, Enter
<1>9. ASSUME NEW h \in Handles, Driver(h) PROVE StartedFirst'
  BY <1>3, <1>9 DEF Driver, DriverStatus, DriverResult, DriverError, Raise, threadVars
<1>10. Listen \/ Drop \/ Destruct \/ UNCHANGED vars => StartedFirst'
  BY <1>3 DEF Listen, ListenTake, ListenPublish, ListenClosed, Drop, Destruct, vars,
     threadVars
<1> QED
  BY <1>4, <1>5, <1>6, <1>7, <1>8, <1>9, <1>10 DEF Next, Start

\* Only the driver queues events, for a primitive it has made.
LEMMA OnlyDriverQueues ==
  ASSUME [Next]_vars
  PROVE  \/ UNCHANGED pdu_events \/ Listen
         \/ \E h \in Handles : Driver(h) /\ driver[h] # "Free"
<1>1. ASSUME NEW h \in Handles, Driver(h) PROVE driver[h] # "Free"
  BY <1>1 DEF Driver, DriverStatus, DriverResult, DriverError, AliveStatus
<1>2. ASSUME NEW t \in Threads, Start(t) \/ Cancel(t) \/ Wait(t)
      PROVE  UNCHANGED pdu_events
  BY <1>2 DEF Start, StartCheck, StartCall, StartRecord, StartAbort, Cancel,
     CancelCheck, CancelCall, Wait, WaitCheck, RxCheckDead, RxTake, Recv
<1>3. Drop \/ Destruct \/ UNCHANGED vars => UNCHANGED pdu_events
  BY DEF Drop, Destruct, vars
<1> QED
  BY <1>1, <1>2, <1>3 DEF Next

LEMMA ContractInvStep ==
  ASSUME TypeOK, ContractInv, [Next]_vars
  PROVE  ContractInv'
<1>1. Begun => Begun'
  BY MadeStaysMade DEF Begun
<1>2. EventsAreOfBegun'
  <2>1. Listen => (pdu_events # <<>> \/ current # NoEvent \/ dead)
                    \/ ~(pdu_events' # <<>> \/ current' # NoEvent \/ dead')
    BY DEF Listen, ListenTake, ListenPublish, ListenClosed
  <2>2. ~Listen => UNCHANGED <<current, dead>>
    BY OthersKeepFlags DEF listenerVars
  <2> QED
    BY <1>1, <2>1, <2>2, OnlyDriverQueues DEF ContractInv, EventsAreOfBegun, Begun
<1>3. DeadTakesNothing'
  <2>1. CASE Listen
    BY <2>1 DEF Listen, ListenTake, ListenPublish, ListenClosed, DeadAfter, StopsAt,
       ContractInv, DeadTakesNothing, NoEvent, TerminalStatus
  <2>2. CASE ~Listen
    BY <2>2, OthersKeepFlags DEF listenerVars, ContractInv, DeadTakesNothing
  <2> QED
    BY <2>1, <2>2
<1> QED
  BY <1>2, <1>3, StartedFirstStep DEF ContractInv

\* What a waiter that does not lag is answered is true.
LEMMA RecvIsTrue ==
  ASSUME TypeOK, IInv, ContractInv, NobodyLags, NEW t \in Threads, Recv(t)
  PROVE  \/ UNCHANGED res
         \/ \E r \in {"Error", "Result", "Ok", "RxTimeout"} :
              /\ res' = [res EXCEPT ![t] = r]
              /\ r \in {"Ok", "RxTimeout"} => dead
              /\ r = "Error" => error
              /\ Begun
<1>1. /\ rx[t] \in Nat /\ Len(log) \in Nat /\ DOMAIN log = 1 .. Len(log)
      /\ pc[t] = "recv" /\ rx[t] < Len(log)
  BY DEF TypeOK, ReceiverType, ListenerType, Recv
<1>2. PICK e : e = log[rx[t] + 1]
  OBVIOUS
<1>3. UNCHANGED res \/ (res' = [res EXCEPT ![t] = AnswerTo(t, e)] /\ AnswerTo(t, e) # "none")
  BY <1>1, <1>2 DEF Recv, Return, NobodyLags
<1>4. AnswerTo(t, e) # "none" =>
        \/ AnswerTo(t, e) = e /\ e \in {"Error", "Result"}
        \/ AnswerTo(t, e) \in {"Ok", "RxTimeout"} /\ e \in TerminalStatus
  BY DEF AnswerTo, Fallthrough
<1>5. (e \in TerminalStatus => dead) /\ (e = "Error" => error)
  <2>1. rx[t] + 1 \in DOMAIN log
    BY <1>1
  <2> QED
    BY <1>2, <2>1 DEF IInv, FlagsLeadEvents, HasTerminal, Has
<1>6. Begun
  BY <1>1 DEF ContractInv, StartedFirst, Begun, TypeOK, CallType
<1> QED
  BY <1>3, <1>4, <1>5, <1>6

\* A caller's step answers it, calls, or changes nothing it sees.
LEMMA CallsAnswer ==
  ASSUME TypeOK, IInv, ContractInv, NobodyLags, NEW t \in Threads,
         StartCheck(t) \/ StartRecord(t) \/ StartAbort(t) \/ Cancel(t) \/ Wait(t)
  PROVE  \/ UNCHANGED res
         \/ res' = [res EXCEPT ![t] = "none"]
         \/ \E r \in Answer \ {"none"} :
              /\ res' = [res EXCEPT ![t] = r]
              /\ r \in {"Ok", "RxTimeout", "Destroyed"} => dead
              /\ r \in {"Started", "Result", "AlreadyStarted", "Cancelled"} => Begun
              /\ r = "Error" => error
<1> USE DEF Answer
<1>1. h_cop # NoCop => Begun
  BY DEF ContractInv, StartedFirst, Begun, TypeOK, CallType
<1>2. CASE StartCheck(t)
  BY <1>1, <1>2 DEF StartCheck, NotStarted, Enter, Return
<1>3. CASE StartRecord(t)
  <2>1. Begun
    BY <1>3 DEF StartRecord, ContractInv, StartedFirst, Begun
  <2> QED
    BY <1>3, <2>1 DEF StartRecord, Return
<1>4. CASE StartAbort(t)
  BY <1>4 DEF StartAbort
<1>5. CASE CancelCheck(t)
  BY <1>5 DEF CancelCheck, Enter, Return
<1>6. CASE CancelCall(t)
  <2>1. Begun
    BY <1>1, <1>6 DEF CancelCall, ContractInv, StartedFirst
  <2> QED
    BY <1>6, <2>1 DEF CancelCall, Return
<1>7. CASE WaitCheck(t)
  BY <1>7 DEF WaitCheck, Enter, Return
<1>8. CASE RxCheckDead(t)
  BY <1>8 DEF RxCheckDead, Return
<1>9. CASE RxTake(t)
  BY <1>9 DEF RxTake
<1>10. CASE Recv(t)
  BY <1>10, RecvIsTrue
<1> QED
  BY <1>2, <1>3, <1>4, <1>5, <1>6, <1>7, <1>8, <1>9, <1>10 DEF Cancel, Wait

\* The phase is a matter of the dead flag and of the driver's primitives.
LEMMA PhaseKept ==
  ASSUME UNCHANGED dead, Begun' <=> Begun
  PROVE  phase' = phase
BY DEF phase, Begun

LEMMA InitRefines == Init => Contract!Init
BY DEF Init, Contract!Init, phase

LEMMA ContractStep ==
  ASSUME TypeOK, IInv, ContractInv, NobodyLags, [Next]_vars
  PROVE  [Contract!Next]_(Contract!vars)
<1> USE DEF Contract!vars
<1>1. ~Listen => UNCHANGED <<dead, error>>
  BY OthersKeepFlags DEF listenerVars
<1>2. Begun => Begun'
  BY MadeStaysMade DEF Begun
<1>3. ASSUME NEW h \in Handles, Driver(h) PROVE UNCHANGED <<phase, error, res>>
  <2>1. UNCHANGED <<dead, error, res>>
    BY <1>3 DEF Driver, DriverStatus, DriverResult, DriverError, Raise, threadVars,
       listenerVars
  <2>2. Begun
    BY <1>3 DEF Driver, DriverStatus, DriverResult, DriverError, AliveStatus, Begun
  <2> QED
    BY <1>2, <2>1, <2>2, PhaseKept
<1>4. CASE Listen
  <2>1. UNCHANGED res /\ (Begun' <=> Begun)
    BY <1>4 DEF Listen, ListenTake, ListenPublish, ListenClosed, threadVars,
       driverVars, Begun
  <2>2. CASE UNCHANGED <<dead, error>>
    BY <2>1, <2>2, PhaseKept
  <2>3. CASE ListenTake /\ ~UNCHANGED <<dead, error>>
    <3>1. Begun /\ ~dead
      BY <2>3 DEF ListenTake, ContractInv, EventsAreOfBegun, DeadTakesNothing, NoEvent,
         TerminalStatus
    <3>2. phase = "Started"
      BY <3>1 DEF phase, Begun
    <3>3. CASE dead' = dead
      <4>1. ~error /\ error' = TRUE
        BY <2>3, <3>3 DEF ListenTake, ErrorAfter, TypeOK, ListenerType
      <4>2. phase' = phase
        BY <2>1, <3>3, PhaseKept
      <4> QED
        BY <2>1, <3>2, <4>1, <4>2 DEF Contract!Next, Contract!Fail
    <3>4. CASE dead' # dead
      <4>1. dead' = TRUE /\ error' = error
        BY <2>3, <3>1, <3>4 DEF ListenTake, DeadAfter, ErrorAfter, TerminalStatus,
           TypeOK, ListenerType
      <4>2. phase' = "Ended"
        BY <4>1 DEF phase
      <4> QED
        BY <2>1, <3>2, <4>1, <4>2 DEF Contract!Next, Contract!End
    <3> QED
      BY <3>3, <3>4
  <2>4. ListenPublish \/ ListenClosed => UNCHANGED <<dead, error>>
    BY DEF ListenPublish, ListenClosed
  <2> QED
    BY <1>4, <2>2, <2>3, <2>4 DEF Listen
<1>5. ASSUME NEW t \in Threads, UNCHANGED <<dead, error>>, Begun' <=> Begun,
             \/ UNCHANGED res
             \/ res' = [res EXCEPT ![t] = "none"]
             \/ \E r \in Answer \ {"none"} :
                  /\ res' = [res EXCEPT ![t] = r]
                  /\ r \in {"Ok", "RxTimeout", "Destroyed"} => dead
                  /\ r \in {"Started", "Result", "AlreadyStarted", "Cancelled"} => Begun
                  /\ r = "Error" => error
      PROVE  [Contract!Next]_(Contract!vars)
  <2>1. UNCHANGED <<phase, error>>
    BY <1>5, PhaseKept
  <2>2. CASE UNCHANGED res
    BY <2>1, <2>2
  <2>3. CASE res' = [res EXCEPT ![t] = "none"]
    BY <2>1, <2>3 DEF Contract!Next, Contract!Call
  <2>4. ASSUME NEW r \in Answer \ {"none"},
               res' = [res EXCEPT ![t] = r],
               r \in {"Ok", "RxTimeout", "Destroyed"} => dead,
               r \in {"Started", "Result", "AlreadyStarted", "Cancelled"} => Begun,
               r = "Error" => error
        PROVE  Contract!Answer(t)
    <3>1. Contract!Truthful(r)
      BY <2>4 DEF Contract!Truthful, phase, Begun
    <3> QED
      BY <2>1, <2>4, <3>1 DEF Contract!Answer, Answer
  <2> QED
    BY <1>5, <2>2, <2>3, <2>4 DEF Contract!Next
<1>6. ASSUME NEW t \in Threads,
             StartCheck(t) \/ StartRecord(t) \/ StartAbort(t) \/ Cancel(t) \/ Wait(t)
      PROVE  [Contract!Next]_(Contract!vars)
  <2>1. UNCHANGED <<dead, error>>
    BY <1>6 DEF StartCheck, StartRecord, StartAbort, Cancel, CancelCheck, CancelCall,
       Wait, WaitCheck, RxCheckDead, RxTake, Recv, listenerVars
  <2>2. driver' \in {driver, CancelledBy(h_cop)}
    BY <1>6 DEF StartCheck, StartRecord, StartAbort, Cancel, CancelCheck, CancelCall,
       Wait, WaitCheck, RxCheckDead, RxTake, Recv, driverVars
  <2>3. Begun' <=> Begun
    BY <2>2, CancelMakesNone
  <2> QED
    BY <1>5, <1>6, <2>1, <2>3, CallsAnswer
<1>7. ASSUME NEW t \in Threads, StartCall(t) PROVE [Contract!Next]_(Contract!vars)
  <2>1. UNCHANGED <<dead, error>>
    BY <1>7 DEF StartCall, listenerVars
  <2>2. CASE UNCHANGED driver /\ res' = [res EXCEPT ![t] = "ApiError"]
    <3>1. Begun' <=> Begun
      BY <2>2 DEF Begun
    <3>2. \E r \in Answer \ {"none"} :
            /\ res' = [res EXCEPT ![t] = r]
            /\ r \notin {"Ok", "RxTimeout", "Destroyed"}
            /\ r \notin {"Started", "Result", "AlreadyStarted", "Cancelled"}
            /\ r # "Error"
      BY <2>2 DEF Answer
    <3> QED
      BY <1>5, <2>1, <3>1, <3>2
  <2>3. CASE UNCHANGED res /\ Begun'
    <3>1. CASE Begun
      BY <1>5, <2>1, <2>3, <3>1
    <3>2. CASE ~Begun
      <4>1. ~dead
        BY <3>2 DEF ContractInv, EventsAreOfBegun
      <4>2. phase = "NotStarted" /\ phase' = "Started"
        BY <2>1, <2>3, <3>2, <4>1 DEF phase, Begun
      <4> QED
        BY <2>1, <2>3, <4>2 DEF Contract!Next, Contract!Begin
    <3> QED
      BY <3>1, <3>2
  <2>4. (\E h \in Handles : driver' = [driver EXCEPT ![h] = "Idle"]) => Begun'
    BY DEF Begun, TypeOK, DriverType
  <2> QED
    BY <1>7, <2>2, <2>3, <2>4 DEF StartCall, Return
<1>8. CASE Drop \/ Destruct \/ UNCHANGED vars
  <2>1. UNCHANGED <<dead, error, res>> /\ driver' \in {driver, CancelledBy(h_cop)}
    BY <1>8 DEF Drop, Destruct, vars, driverVars, threadVars, listenerVars
  <2> QED
    BY <2>1, CancelMakesNone, PhaseKept
<1> QED
  BY <1>3, <1>4, <1>6, <1>7, <1>8 DEF Next, Start

\* As long as no receiver lags behind the channel, every step of the listener,
\* the driver and the racing threads is one the contract of PduPrimitive allows:
\* one start, at most one failure, one end, and answers true of the phase.
THEOREM KeepsTheContract == Spec /\ []NobodyLags => ContractSpec
<1>1. ContractInv /\ TypeOK /\ [Next]_vars => ContractInv'
  BY ContractInvStep
<1>2. Spec => []ContractInv
  BY <1>1, InitContract, TypeCorrect, PTL DEF Spec
<1>3. TypeOK /\ IInv /\ ContractInv /\ NobodyLags /\ [Next]_vars
        => [Contract!Next]_(Contract!vars)
  BY ContractStep
<1> QED
  BY <1>2, <1>3, InitRefines, TypeCorrect, Inductive, PTL
     DEF Spec, ContractSpec, Contract!Spec

-----------------------------------------------------------------------------
(***************************************************************************)
(* What the first waiter can count on, when no two starts raced.           *)
(***************************************************************************)
OneStart == \A g, h \in Handles : driver[g] # "Free" /\ driver[h] # "Free" => g = h

\* After the end it reported, the driver has nothing more to report.
DriverOver == \A h \in Handles : driver[h] \in TerminalStatus \cup {"Free"}

OverAfterTheEnd == HasTerminal(emitted) => DriverOver /\ Begun

\* The end the listener sees is one the driver reported, and the last thing
\* in its queue.
EndWasEmitted ==
  HasTerminal(pdu_events) \/ current \in TerminalStatus \/ HasTerminal(log) =>
    HasTerminal(emitted)

EndIsLastInQueue ==
  /\ \A i \in DOMAIN pdu_events :
       pdu_events[i] \in TerminalStatus => i = Len(pdu_events)
  /\ current \in TerminalStatus => pdu_events = <<>>

\* A listener that stopped has broadcast the end or was told to go.
WhyStopped ==
  listener = "stopped" => pdu_events = <<>> /\ (dropped \/ HasTerminal(log))

\* A result, or an error, is on the channel, in the listener's hand or in its
\* queue, while somebody is left to wait for it.
NothingSkipped ==
  \A e \in {"Result", "Error"} :
    Has(emitted, e) => \/ Has(log, e) \/ current = e \/ Has(pdu_events, e)
                       \/ dropped \/ listener = "panicked"

\* What the holder of the first receiver has read is everything up to there,
\* and nothing in it was for him.
FirstReads ==
  \A t \in Threads : via[t] = "first" /\ pc[t] = "recv" =>
    /\ rx[t] <= Len(log)
    /\ \A i \in DOMAIN log : i <= rx[t] => AnswerTo(t, log[i]) = "none"

\* Nobody is in a call when the object is dropped; a waiting call has no
\* outcome yet, and those who left at the end had read it.
DroppedIsQuiet ==
  dropped => \A t \in Threads : pc[t] \in {"idle", "panicked", "abandoned"}

WaitingIsOpen ==
  \A t \in Threads : pc[t] \in {"rx_dead", "rx_take", "recv"} =>
    res[t] = "none" /\ op[t] \in Waits

LeftAtTheEnd ==
  \A t \in Threads : res[t] \in {"Ok", "RxTimeout"} => HasTerminal(log)

DriverInv == OverAfterTheEnd /\ EndWasEmitted /\ EndIsLastInQueue /\ WhyStopped
WaiterInv ==
  NothingSkipped /\ FirstReads /\ DroppedIsQuiet /\ WaitingIsOpen /\ LeftAtTheEnd

\* One element more, and one less.
LEMMA OneMore ==
  ASSUME NEW S, NEW s \in Seq(S), NEW e \in S
  PROVE  /\ HasTerminal(Append(s, e)) <=> HasTerminal(s) \/ e \in TerminalStatus
         /\ \A x : Has(Append(s, e), x) <=> Has(s, x) \/ e = x
         /\ Len(Append(s, e)) = Len(s) + 1
         /\ \A i \in DOMAIN s : i \in DOMAIN Append(s, e) /\ Append(s, e)[i] = s[i]
         /\ \A i \in DOMAIN Append(s, e) :
              i \in DOMAIN s \/ (i = Len(s) + 1 /\ Append(s, e)[i] = e)
<1>1. PICK a : a = Append(s, e)
  OBVIOUS
<1>2. /\ Len(a) = Len(s) + 1 /\ Len(s) + 1 \in DOMAIN a /\ a[Len(s) + 1] = e
      /\ \A i \in DOMAIN s : i \in DOMAIN a /\ a[i] = s[i]
      /\ \A i \in DOMAIN a : i \in DOMAIN s \/ (i = Len(s) + 1 /\ a[i] = e)
  BY <1>1
<1>3. HasTerminal(a) <=> HasTerminal(s) \/ e \in TerminalStatus
  BY <1>2 DEF HasTerminal
<1>4. ASSUME NEW x PROVE Has(a, x) <=> Has(s, x) \/ e = x
  BY <1>2 DEF Has
<1> QED
  BY <1>1, <1>2, <1>3, <1>4

LEMMA OneLess ==
  ASSUME NEW S, NEW s \in Seq(S), s # <<>>
  PROVE  /\ HasTerminal(s) <=> Head(s) \in TerminalStatus \/ HasTerminal(Tail(s))
         /\ \A x : Has(s, x) <=> Head(s) = x \/ Has(Tail(s), x)
         /\ Len(Tail(s)) = Len(s) - 1
         /\ \A i \in DOMAIN Tail(s) : i + 1 \in DOMAIN s /\ Tail(s)[i] = s[i + 1]
<1>1. PICK r : r = Tail(s)
  OBVIOUS
<1>2. PICK h : h = Head(s)
  OBVIOUS
<1>3. /\ Len(r) = Len(s) - 1 /\ 1 \in DOMAIN s /\ s[1] = h
      /\ \A i \in DOMAIN r : i + 1 \in DOMAIN s /\ r[i] = s[i + 1]
  BY <1>1, <1>2
<1>4. \A i \in DOMAIN s : i = 1 \/ (i - 1 \in DOMAIN r /\ r[i - 1] = s[i])
  BY <1>1
<1>5. HasTerminal(s) <=> h \in TerminalStatus \/ HasTerminal(r)
  BY <1>3, <1>4 DEF HasTerminal
<1>6. ASSUME NEW x PROVE Has(s, x) <=> h = x \/ Has(r, x)
  BY <1>3, <1>4 DEF Has
<1> QED
  BY <1>1, <1>2, <1>3, <1>5, <1>6

LEMMA InitMisses == Init => DriverInv /\ WaiterInv
<1> SUFFICES ASSUME Init PROVE DriverInv /\ WaiterInv
  OBVIOUS
<1>1. ~HasTerminal(<<>>) /\ \A x : ~Has(<<>>, x)
  BY DEF HasTerminal, Has
<1>2. DriverInv
  BY <1>1 DEF Init, DriverInv, OverAfterTheEnd, EndWasEmitted, EndIsLastInQueue,
     WhyStopped, NoEvent, TerminalStatus
<1>3. WaiterInv
  BY <1>1 DEF Init, WaiterInv, NothingSkipped, FirstReads, DroppedIsQuiet,
     WaitingIsOpen, LeftAtTheEnd
<1> QED
  BY <1>2, <1>3

\* The driver at work: not after the end, and it reports one event.
LEMMA DriverWorks ==
  ASSUME TypeOK, DriverInv, NEW h \in Handles, Driver(h)
  PROVE  /\ ~HasTerminal(emitted) /\ ~HasTerminal(pdu_events) /\ ~HasTerminal(log)
         /\ current \notin TerminalStatus
         /\ \E e \in PduEvent :
              /\ Raise(e)
              /\ e \in TerminalStatus => driver' = [driver EXCEPT ![h] = e]
              /\ e \notin TerminalStatus => \E s \in DriverState :
                   driver' = [driver EXCEPT ![h] = s]
<1>1. driver[h] \in LiveDriver
  BY DEF Driver, DriverStatus, DriverResult, DriverError, LiveDriver, AliveStatus
<1>2. ~HasTerminal(emitted)
  BY <1>1 DEF DriverInv, OverAfterTheEnd, DriverOver, LiveDriver, AliveStatus,
     TerminalStatus
<1>3. driver = [driver EXCEPT ![h] = driver[h]] /\ driver[h] \in DriverState
  BY DEF TypeOK, DriverType
<1> DEFINE Reports(e) ==
      /\ Raise(e)
      /\ e \in TerminalStatus => driver' = [driver EXCEPT ![h] = e]
      /\ e \notin TerminalStatus => \E s \in DriverState :
           driver' = [driver EXCEPT ![h] = s]
<1> HIDE DEF Reports
<1>4. ASSUME DriverStatus(h) PROVE \E e \in PduEvent : Reports(e)
  <2>1. PICK s \in Status : Raise(s) /\ driver' = [driver EXCEPT ![h] = s]
    BY <1>4 DEF DriverStatus
  <2>2. s \in PduEvent /\ s \in DriverState
    BY DEF PduEvent, Status, DriverState, LiveDriver
  <2>3. Reports(s)
    BY <2>1, <2>2 DEF Reports
  <2> QED
    BY <2>2, <2>3
<1>5. ASSUME DriverResult(h) \/ DriverError(h)
      PROVE  \E e \in PduEvent : Reports(e)
  <2>1. PICK e \in {"Result", "Error"} : Raise(e) /\ UNCHANGED driver
    BY <1>5 DEF DriverResult, DriverError
  <2>2. e \in PduEvent /\ e \notin TerminalStatus
    BY DEF PduEvent, TerminalStatus
  <2>3. Reports(e)
    BY <1>3, <2>1, <2>2 DEF Reports
  <2> QED
    BY <2>2, <2>3
<1>6. \E e \in PduEvent : Reports(e)
  BY <1>4, <1>5, Zenon DEF Driver
<1>7. /\ ~HasTerminal(pdu_events) /\ ~HasTerminal(log)
      /\ current \notin TerminalStatus
  BY <1>2 DEF DriverInv, EndWasEmitted
<1> QED
  BY <1>2, <1>6, <1>7, Zenon DEF Reports

\* Everybody but the driver leaves its reports alone, and everybody but the
\* driver and the listener leaves the queue alone.
LEMMA OthersKeepEvents ==
  ASSUME [Next]_vars, \A h \in Handles : ~Driver(h)
  PROVE  /\ UNCHANGED emitted
         /\ Listen \/ UNCHANGED <<pdu_events, listenerVars>>
<1>1. Listen => UNCHANGED emitted
  BY DEF Listen, ListenTake, ListenPublish, ListenClosed, driverVars
<1>2. ASSUME NEW t \in Threads, Start(t)
      PROVE  UNCHANGED <<emitted, pdu_events, listenerVars>>
  BY <1>2 DEF Start, StartCheck, StartCall, StartRecord, StartAbort, driverVars
<1>3. ASSUME NEW t \in Threads, Cancel(t)
      PROVE  UNCHANGED <<emitted, pdu_events, listenerVars>>
  BY <1>3 DEF Cancel, CancelCheck, CancelCall, driverVars
<1>4. ASSUME NEW t \in Threads, Wait(t)
      PROVE  UNCHANGED <<emitted, pdu_events, listenerVars>>
  BY <1>4 DEF Wait, WaitCheck, RxCheckDead, RxTake, Recv, driverVars
<1>5. Drop \/ Destruct \/ UNCHANGED vars => UNCHANGED <<emitted, pdu_events, listenerVars>>
  BY DEF Drop, Destruct, vars, driverVars
<1> QED
  BY <1>1, <1>2, <1>3, <1>4, <1>5 DEF Next

LEMMA DroppedForGood == [Next]_vars /\ dropped => dropped'
<1> SUFFICES ASSUME [Next]_vars, dropped PROVE dropped'
  OBVIOUS
<1>1. ASSUME NEW h \in Handles, Driver(h) PROVE dropped'
  BY <1>1 DEF Driver, DriverStatus, DriverResult, DriverError, Raise, dropVars
<1>2. ASSUME NEW t \in Threads, Start(t) \/ Cancel(t) \/ Wait(t) PROVE dropped'
  BY <1>2 DEF Start, StartCheck, StartCall, StartRecord, StartAbort, Cancel,
     CancelCheck, CancelCall, Wait, WaitCheck, RxCheckDead, RxTake, Recv, dropVars
<1>3. Listen \/ Drop \/ Destruct \/ UNCHANGED vars => dropped'
  BY DEF Listen, ListenTake, ListenPublish, ListenClosed, Drop, Destruct, vars, dropVars
<1> QED
  BY <1>1, <1>2, <1>3 DEF Next

\* When no two starts raced, an ended primitive stays the only one.
LEMMA OverStaysOver ==
  ASSUME TypeOK, DriverOver, Begun, OneStart', [Next]_vars,
         \A h \in Handles : ~Driver(h)
  PROVE  DriverOver'
<1>1. driver \in [Handles -> DriverState]
  BY DEF TypeOK, DriverType
<1>2. PICK g \in Handles : driver[g] # "Free"
  BY DEF Begun
<1>3. driver'[g] # "Free"
  BY <1>2, MadeStaysMade
<1>4. driver' \in {driver, CancelledBy(h_cop)} => DriverOver'
  <2>1. driver' = CancelledBy(h_cop) => \A h \in Handles :
          driver'[h] = driver[h] \/ driver[h] \in AliveStatus
    BY <1>1 DEF CancelledBy
  <2> QED
    BY <2>1 DEF DriverOver, AliveStatus, TerminalStatus
<1>5. ASSUME NEW t \in Threads, StartCall(t) PROVE DriverOver'
  <2>1. UNCHANGED driver \/ \E h \in Handles :
          driver[h] = "Free" /\ driver' = [driver EXCEPT ![h] = "Idle"]
    BY <1>5 DEF StartCall
  <2>2. ASSUME NEW h \in Handles, driver[h] = "Free",
               driver' = [driver EXCEPT ![h] = "Idle"]
        PROVE  FALSE
    BY <1>1, <1>2, <1>3, <2>2 DEF OneStart
  <2> QED
    BY <1>4, <2>1, <2>2
<1>6. ASSUME NEW t \in Threads,
             StartCheck(t) \/ StartRecord(t) \/ StartAbort(t) \/ Cancel(t) \/ Wait(t)
      PROVE  driver' \in {driver, CancelledBy(h_cop)}
  BY <1>6 DEF StartCheck, StartRecord, StartAbort, Cancel, CancelCheck, CancelCall,
     Wait, WaitCheck, RxCheckDead, RxTake, Recv, driverVars
<1>7. Listen \/ Drop \/ Destruct \/ UNCHANGED vars =>
        driver' \in {driver, CancelledBy(h_cop)}
  BY DEF Listen, ListenTake, ListenPublish, ListenClosed, Drop, Destruct, vars,
     driverVars
<1> QED
  BY <1>4, <1>5, <1>6, <1>7 DEF Next, Start

\* The driver's report, seen from the listener's side.
LEMMA ReportMisses ==
  ASSUME TypeOK, IInv, DriverInv, OneStart, NEW h \in Handles, Driver(h)
  PROVE  DriverInv'
<1>1. /\ emitted \in Seq(PduEvent) /\ pdu_events \in Seq(PduEvent)
      /\ driver \in [Handles -> DriverState]
  BY DEF TypeOK, DriverType, ListenerType
<1>2. /\ ~HasTerminal(emitted) /\ ~HasTerminal(pdu_events) /\ ~HasTerminal(log)
      /\ current \notin TerminalStatus
  BY DriverWorks
<1>3. PICK e \in PduEvent :
        /\ Raise(e)
        /\ e \in TerminalStatus => driver' = [driver EXCEPT ![h] = e]
        /\ e \notin TerminalStatus => \E s \in DriverState :
             driver' = [driver EXCEPT ![h] = s]
  BY DriverWorks, Zenon
<1>4. /\ emitted' = Append(emitted, e) /\ UNCHANGED <<log, current, listener, dropped>>
      /\ pdu_events' = Append(pdu_events, e) \/ pdu_events' = pdu_events
      /\ listener # "running" => pdu_events' = pdu_events
  BY <1>3 DEF Raise, listenerVars, dropVars
<1>5. HasTerminal(emitted') <=> e \in TerminalStatus
  BY <1>1, <1>2, <1>4, OneMore
<1>6. /\ HasTerminal(pdu_events') => e \in TerminalStatus
      /\ \A i \in DOMAIN pdu_events' :
           pdu_events'[i] \in TerminalStatus => i = Len(pdu_events')
  <2>1. \A i \in DOMAIN pdu_events : pdu_events[i] \notin TerminalStatus
    BY <1>2 DEF HasTerminal
  <2>2. CASE pdu_events' = pdu_events
    BY <1>2, <2>1, <2>2
  <2>3. CASE pdu_events' = Append(pdu_events, e)
    BY <1>1, <1>2, <2>1, <2>3, OneMore
  <2> QED
    BY <1>4, <2>2, <2>3
<1>7. OverAfterTheEnd'
  <2> SUFFICES ASSUME HasTerminal(emitted') PROVE DriverOver' /\ Begun'
    BY DEF OverAfterTheEnd, HasTerminal
  <2>1. e \in TerminalStatus /\ driver' = [driver EXCEPT ![h] = e]
    BY <1>3, <1>5
  <2>2. driver[h] # "Free"
    BY DEF Driver, DriverStatus, DriverResult, DriverError, AliveStatus
  <2>3. \A g \in Handles : g # h => driver[g] = "Free"
    BY <2>2 DEF OneStart
  <2> QED
    BY <1>1, <2>1, <2>3 DEF DriverOver, Begun, TerminalStatus
<1>8. EndWasEmitted'
  BY <1>2, <1>4, <1>5, <1>6 DEF EndWasEmitted, HasTerminal
<1>9. EndIsLastInQueue'
  BY <1>2, <1>4, <1>6 DEF EndIsLastInQueue
<1>10. WhyStopped'
  BY <1>4 DEF DriverInv, WhyStopped, HasTerminal
<1> QED
  BY <1>7, <1>8, <1>9, <1>10 DEF DriverInv

\* The listener's steps.
LEMMA ListenMisses ==
  ASSUME TypeOK, IInv, DriverInv, Listen
  PROVE  DriverInv'
<1>1. /\ pdu_events \in Seq(PduEvent) /\ log \in Seq(PrimitiveEvent)
      /\ UNCHANGED <<driver, emitted, dropped>>
  BY DEF TypeOK, ListenerType, Listen, ListenTake, ListenPublish, ListenClosed,
     driverVars, dropVars
<1>2. OverAfterTheEnd'
  BY <1>1 DEF DriverInv, OverAfterTheEnd, DriverOver, Begun, HasTerminal
<1>3. CASE ListenTake
  <2>1. /\ pdu_events # <<>> /\ listener = "running" /\ UNCHANGED log
        /\ current' \in {NoEvent, Head(pdu_events)}
        /\ \/ pdu_events' = Tail(pdu_events) /\ listener' = listener
           \/ pdu_events' = <<>> /\ listener' = "panicked"
    BY <1>3 DEF ListenTake
  <2>2. Tail(pdu_events) \in Seq(PduEvent)
    BY <1>1, <2>1
  <2>3. ~HasTerminal(<<>>)
    BY DEF HasTerminal
  <2>4. HasTerminal(pdu_events') \/ current' \in TerminalStatus => HasTerminal(pdu_events)
    BY <1>1, <2>1, <2>3, OneLess DEF NoEvent, TerminalStatus
  <2>5. EndWasEmitted'
    BY <1>1, <2>1, <2>4 DEF DriverInv, EndWasEmitted, HasTerminal
  <2>6. ASSUME NEW i \in DOMAIN pdu_events', pdu_events'[i] \in TerminalStatus
        PROVE  i = Len(pdu_events')
    <3>1. pdu_events' = Tail(pdu_events)
      BY <2>1, <2>6
    <3>2. /\ i + 1 \in DOMAIN pdu_events /\ pdu_events[i + 1] = pdu_events'[i]
          /\ Len(pdu_events') = Len(pdu_events) - 1
      BY <1>1, <2>1, <2>6, <3>1, OneLess
    <3>3. i + 1 = Len(pdu_events)
      BY <2>6, <3>2 DEF DriverInv, EndIsLastInQueue
    <3>4. i \in Nat
      BY <2>2, <2>6, <3>1
    <3> QED
      BY <3>2, <3>3, <3>4
  <2>7. current' \in TerminalStatus => pdu_events' = <<>>
    <3> SUFFICES ASSUME Head(pdu_events) \in TerminalStatus
                 PROVE  Tail(pdu_events) = <<>>
      BY <2>1 DEF NoEvent, TerminalStatus
    <3>1. 1 \in DOMAIN pdu_events /\ pdu_events[1] = Head(pdu_events)
      BY <1>1, <2>1
    <3>2. Len(pdu_events) = 1
      BY <3>1 DEF DriverInv, EndIsLastInQueue
    <3>3. Len(Tail(pdu_events)) = 0
      BY <1>1, <2>1, <3>2, OneLess
    <3>4. \A r \in Seq(PduEvent) : Len(r) = 0 => r = <<>>
      OBVIOUS
    <3> QED
      BY <2>2, <3>3, <3>4
  <2>8. EndIsLastInQueue'
    BY <2>6, <2>7 DEF EndIsLastInQueue
  <2>9. WhyStopped'
    BY <2>1 DEF WhyStopped
  <2> QED
    BY <1>2, <2>5, <2>8, <2>9 DEF DriverInv
<1>4. CASE ListenPublish
  <2>1. /\ log' = Append(log, current) /\ current' = NoEvent
        /\ current \in PrimitiveEvent
        /\ IF current \in TerminalStatus
             THEN pdu_events' = <<>>
             ELSE UNCHANGED <<listener, pdu_events>>
    BY <1>4 DEF ListenPublish, StopsAt, TypeOK, ListenerType, PrimitiveEvent
  <2>2. HasTerminal(log') <=> HasTerminal(log) \/ current \in TerminalStatus
    BY <1>1, <2>1, OneMore
  <2>3. EndWasEmitted'
    BY <1>1, <2>1, <2>2 DEF DriverInv, EndWasEmitted, HasTerminal, NoEvent, TerminalStatus
  <2>4. EndIsLastInQueue'
    BY <2>1 DEF DriverInv, EndIsLastInQueue, NoEvent, TerminalStatus
  <2>5. WhyStopped'
    BY <1>1, <1>4, <2>1, <2>2 DEF DriverInv, WhyStopped, HasTerminal, ListenPublish
  <2> QED
    BY <1>2, <2>3, <2>4, <2>5 DEF DriverInv
<1>5. CASE ListenClosed
  BY <1>1, <1>2, <1>5 DEF ListenClosed, DriverInv, EndWasEmitted, EndIsLastInQueue,
     WhyStopped, HasTerminal
<1> QED
  BY <1>3, <1>4, <1>5 DEF Listen

LEMMA DriverInvStep ==
  ASSUME TypeOK, IInv, DriverInv, OneStart', [Next]_vars
  PROVE  DriverInv'
<1>1. OneStart
  BY MadeStaysMade DEF OneStart
<1>2. ASSUME NEW h \in Handles, Driver(h) PROVE DriverInv'
  BY <1>1, <1>2, ReportMisses
<1>3. CASE \A h \in Handles : ~Driver(h)
  <2>1. CASE Listen
    BY <2>1, ListenMisses
  <2>2. CASE ~Listen
    <3>1. UNCHANGED <<emitted, pdu_events, listener, current>>
      BY <1>3, <2>2, OthersKeepEvents DEF listenerVars
    <3>2. log \in Seq(PrimitiveEvent) /\ "StartFailed" \in PrimitiveEvent \ TerminalStatus
      BY DEF TypeOK, ListenerType, PrimitiveEvent, TerminalStatus
    <3>3. HasTerminal(log') <=> HasTerminal(log)
      <4>1. HasTerminal(Append(log, "StartFailed")) <=> HasTerminal(log)
        BY <3>2, OneMore
      <4>2. log' = log \/ log' = Append(log, "StartFailed")
        BY <2>2, OthersKeepFlags
      <4> QED
        BY <4>1, <4>2
    <3>4. dropped => dropped'
      BY DroppedForGood
    <3>5. OverAfterTheEnd'
      <4> SUFFICES ASSUME HasTerminal(emitted) PROVE DriverOver' /\ Begun'
        BY <3>1 DEF OverAfterTheEnd, HasTerminal
      <4>1. DriverOver /\ Begun
        BY DEF DriverInv, OverAfterTheEnd
      <4>2. Begun'
        BY <4>1, MadeStaysMade DEF Begun
      <4>3. DriverOver'
        BY <1>3, <4>1, OverStaysOver
      <4> QED
        BY <4>2, <4>3
    <3>6. EndWasEmitted' /\ EndIsLastInQueue' /\ WhyStopped'
      BY <3>1, <3>3, <3>4 DEF DriverInv, EndWasEmitted, EndIsLastInQueue, WhyStopped,
         HasTerminal
    <3> QED
      BY <3>5, <3>6 DEF DriverInv
  <2> QED
    BY <2>1, <2>2
<1> QED
  BY <1>2, <1>3

\* Whatever happens, the channel loses nothing.
LEMMA LogGrows ==
  ASSUME TypeOK, [Next]_vars
  PROVE  \/ log' = log
         \/ \E e \in PrimitiveEvent : log' = Append(log, e)
<1>1. current \in PduEvent \cup {NoEvent} /\ PduEvent \subseteq PrimitiveEvent
  BY DEF TypeOK, ListenerType, PrimitiveEvent
<1>2. Listen => log' = log \/ \E e \in PrimitiveEvent : log' = Append(log, e)
  BY <1>1 DEF Listen, ListenTake, ListenPublish, ListenClosed
<1>3. "StartFailed" \in PrimitiveEvent
  BY DEF PrimitiveEvent
<1> QED
  BY <1>2, <1>3, OthersKeepFlags

LEMMA LogKeeps ==
  ASSUME TypeOK, [Next]_vars
  PROVE  /\ HasTerminal(log) => HasTerminal(log')
         /\ \A e : Has(log, e) => Has(log', e)
<1>1. log \in Seq(PrimitiveEvent)
  BY DEF TypeOK, ListenerType
<1>2. CASE log' = log
  BY <1>2 DEF HasTerminal
<1>3. ASSUME NEW x \in PrimitiveEvent, log' = Append(log, x)
      PROVE  /\ HasTerminal(log) => HasTerminal(log')
             /\ \A e : Has(log, e) => Has(log', e)
  BY <1>1, <1>3, OneMore
<1> QED
  BY <1>2, <1>3, LogGrows

LEMMA NothingSkippedStep ==
  ASSUME TypeOK, IInv, DriverInv, NothingSkipped, [Next]_vars
  PROVE  NothingSkipped'
<1> SUFFICES ASSUME NEW e \in {"Result", "Error"}, Has(emitted', e),
                    ~dropped', listener' # "panicked"
             PROVE  Has(log', e) \/ current' = e \/ Has(pdu_events', e)
  BY DEF NothingSkipped, Has
<1>1. /\ emitted \in Seq(PduEvent) /\ pdu_events \in Seq(PduEvent)
      /\ log \in Seq(PrimitiveEvent) /\ ~dropped
  BY DroppedForGood DEF TypeOK, DriverType, ListenerType
<1>2. ASSUME NEW h \in Handles, Driver(h)
      PROVE  Has(log', e) \/ current' = e \/ Has(pdu_events', e)
  <2>1. PICK x \in PduEvent : Raise(x)
    BY <1>2, DriverWorks
  <2>2. ~HasTerminal(log)
    BY <1>2, DriverWorks
  <2>3. /\ emitted' = Append(emitted, x) /\ UNCHANGED <<log, current, listener>>
        /\ pdu_events' = IF listener = "running" THEN Append(pdu_events, x) ELSE pdu_events
    BY <1>1, <2>1 DEF Raise, listenerVars
  <2>4. listener = "running"
    BY <1>1, <2>2, <2>3 DEF DriverInv, WhyStopped, TypeOK, ListenerType
  <2>5. Has(emitted, e) \/ x = e
    BY <1>1, <2>3, OneMore
  <2>6. Has(pdu_events', e) <=> Has(pdu_events, e) \/ x = e
    BY <1>1, <2>3, <2>4, OneMore
  <2> QED
    BY <1>1, <2>3, <2>4, <2>5, <2>6 DEF NothingSkipped
<1>3. CASE \A h \in Handles : ~Driver(h)
  <2>1. emitted' = emitted /\ listener' # "panicked"
    BY <1>3, OthersKeepEvents
  <2>2. listener # "panicked"
    BY <1>3, <2>1, OthersKeepEvents DEF listenerVars, Listen, ListenTake,
       ListenPublish, ListenClosed
  <2>3. Has(log, e) \/ current = e \/ Has(pdu_events, e)
    BY <1>1, <2>1, <2>2 DEF NothingSkipped
  <2>4. Has(log, e) => Has(log', e)
    BY LogKeeps
  <2>5. CASE ~Listen
    BY <1>3, <2>3, <2>4, <2>5, OthersKeepEvents DEF listenerVars
  <2>6. CASE ListenTake
    <3>1. /\ current = NoEvent /\ current' = Head(pdu_events) /\ pdu_events # <<>>
          /\ pdu_events' = Tail(pdu_events)
      BY <2>1, <2>6 DEF ListenTake
    <3>2. Has(pdu_events, e) <=> Head(pdu_events) = e \/ Has(Tail(pdu_events), e)
      BY <1>1, <3>1, OneLess
    <3> QED
      BY <2>3, <2>4, <3>1, <3>2 DEF NoEvent
  <2>7. CASE ListenPublish
    <3>1. log' = Append(log, current) /\ current \in PrimitiveEvent
      BY <2>7 DEF ListenPublish, TypeOK, ListenerType, PrimitiveEvent
    <3>2. Has(log', e) <=> Has(log, e) \/ current = e
      BY <1>1, <3>1, OneMore
    <3>3. pdu_events' = pdu_events
      BY <2>7 DEF ListenPublish, StopsAt, DriverInv, EndIsLastInQueue
    <3> QED
      BY <2>3, <3>2, <3>3
  <2>8. CASE ListenClosed
    BY <1>1, <2>8 DEF ListenClosed
  <2> QED
    BY <2>5, <2>6, <2>7, <2>8 DEF Listen
<1> QED
  BY <1>2, <1>3

\* What a step of another thread, or of nobody, leaves to a thread.
Untouched(t) ==
  /\ pc'[t] = pc[t] /\ op'[t] = op[t] /\ res'[t] = res[t]
  /\ via'[t] = via[t] /\ rx'[t] = rx[t]

LEMMA OthersUntouched ==
  ASSUME TypeOK, [Next]_vars, NEW t \in Threads
  PROVE  Untouched(t) \/ Start(t) \/ Cancel(t) \/ Wait(t)
<1> USE DEF Untouched, TypeOK, CallType, ReceiverType
<1>1. UNCHANGED threadVars => Untouched(t)
  BY DEF threadVars
<1>2. ASSUME NEW u \in Threads, u # t, Start(u) PROVE Untouched(t)
  BY <1>2 DEF Start, StartCheck, StartCall, StartRecord, StartAbort, Goto, Enter, Return
<1>3. ASSUME NEW u \in Threads, u # t, Cancel(u) PROVE Untouched(t)
  BY <1>3 DEF Cancel, CancelCheck, CancelCall, Goto, Enter, Return
<1>4. ASSUME NEW u \in Threads, u # t, Wait(u) PROVE Untouched(t)
  BY <1>4 DEF Wait, WaitCheck, RxCheckDead, RxTake, Recv, Goto, Enter, Return
<1>5. ASSUME NEW h \in Handles, Driver(h) PROVE UNCHANGED threadVars
  BY <1>5 DEF Driver, DriverStatus, DriverResult, DriverError, Raise
<1>6. Listen \/ Drop \/ Destruct \/ UNCHANGED vars => UNCHANGED threadVars
  BY DEF Listen, ListenTake, ListenPublish, ListenClosed, Drop, Destruct, vars
<1> QED
  BY <1>1, <1>2, <1>3, <1>4, <1>5, <1>6 DEF Next

LEMMA FirstReadsStep ==
  ASSUME TypeOK, FirstReads, [Next]_vars
  PROVE  FirstReads'
<1> SUFFICES ASSUME NEW t \in Threads, via'[t] = "first", pc'[t] = "recv"
             PROVE  /\ rx'[t] <= Len(log')
                    /\ \A i \in DOMAIN log' :
                         i <= rx'[t] => AnswerTo(t, log[i])' = "none"
  BY DEF FirstReads
<1>1. /\ log \in Seq(PrimitiveEvent) /\ Len(log) \in Nat /\ rx[t] \in Nat
      /\ DOMAIN log = 1 .. Len(log)
  BY DEF TypeOK, ListenerType, ReceiverType
<1>2. CASE Untouched(t)
  <2>1. /\ rx'[t] = rx[t] /\ op'[t] = op[t] /\ rx[t] <= Len(log)
        /\ \A i \in DOMAIN log : i <= rx[t] => AnswerTo(t, log[i]) = "none"
    BY <1>2 DEF Untouched, FirstReads
  <2>2. /\ Len(log') >= Len(log) /\ Len(log') \in Nat
        /\ \A i \in DOMAIN log' : (i \in DOMAIN log /\ log'[i] = log[i]) \/ i > Len(log)
    <3>1. ASSUME NEW e \in PrimitiveEvent, log' = Append(log, e)
          PROVE  /\ Len(log') = Len(log) + 1
                 /\ \A i \in DOMAIN log' :
                      (i \in DOMAIN log /\ log'[i] = log[i]) \/ i = Len(log) + 1
      BY <1>1, <3>1, OneMore
    <3> QED
      BY <1>1, <3>1, LogGrows
  <2>3. ASSUME NEW i \in DOMAIN log', i <= rx'[t]
        PROVE  AnswerTo(t, log[i])' = "none"
    <3>1. i \in DOMAIN log /\ log'[i] = log[i]
      BY <1>1, <2>1, <2>2, <2>3
    <3>2. AnswerTo(t, log[i]) = "none"
      BY <2>1, <2>3, <3>1
    <3> QED
      BY <2>1, <3>1, <3>2 DEF AnswerTo, Fallthrough
  <2> QED
    BY <1>1, <2>1, <2>2, <2>3
<1>3. Start(t) \/ Cancel(t) => pc'[t] # "recv"
  BY DEF Start, StartCheck, StartCall, StartRecord, StartAbort, Cancel, CancelCheck,
     CancelCall, Goto, Enter, Return, TypeOK, CallType
<1>4. WaitCheck(t) \/ RxCheckDead(t) => pc'[t] # "recv"
  BY DEF WaitCheck, RxCheckDead, Goto, Enter, Return, TypeOK, CallType
<1>5. CASE RxTake(t)
  <2>1. rx'[t] = 0 /\ log' = log
    BY <1>5 DEF RxTake, FirstUnread, TypeOK, ReceiverType
  <2>2. \A i \in DOMAIN log' : ~(i <= rx'[t])
    BY <1>1, <2>1
  <2> QED
    BY <1>1, <2>1, <2>2
<1>6. CASE Recv(t)
  <2>1. /\ via[t] = "first" /\ pc[t] = "recv" /\ log' = log /\ op' = op
        /\ rx[t] < Len(log)
    BY <1>6 DEF Recv
  <2>2. /\ rx'[t] = rx[t] + 1
        /\ (IF Lagged(t) THEN Fallthrough(t) ELSE AnswerTo(t, log[rx[t] + 1])) = "none"
    BY <1>6 DEF Recv, Return, Goto, TypeOK, CallType, ReceiverType
  <2>3. AnswerTo(t, log[rx[t] + 1]) = "none"
    BY <2>2 DEF Fallthrough
  <2>4. ASSUME NEW i \in DOMAIN log, i <= rx[t] + 1 PROVE AnswerTo(t, log[i]) = "none"
    <3>1. i <= rx[t] \/ i = rx[t] + 1
      BY <1>1, <2>4
    <3> QED
      BY <2>1, <2>3, <2>4, <3>1 DEF FirstReads
  <2>5. ASSUME NEW i \in DOMAIN log', i <= rx'[t] PROVE AnswerTo(t, log[i])' = "none"
    BY <2>1, <2>2, <2>4, <2>5 DEF AnswerTo, Fallthrough
  <2> QED
    BY <1>1, <2>1, <2>2, <2>5
<1> QED
  BY <1>2, <1>3, <1>4, <1>5, <1>6, OthersUntouched DEF Wait

LEMMA DroppedIsQuietStep ==
  ASSUME TypeOK, DroppedIsQuiet, [Next]_vars
  PROVE  DroppedIsQuiet'
<1> SUFFICES ASSUME dropped', NEW t \in Threads
             PROVE  pc'[t] \in {"idle", "panicked", "abandoned"}
  BY DEF DroppedIsQuiet
<1>1. CASE dropped
  <2>1. pc[t] \in {"idle", "panicked", "abandoned"}
    BY <1>1 DEF DroppedIsQuiet
  <2>2. ~(Start(t) \/ Cancel(t) \/ Wait(t))
    BY <1>1, <2>1 DEF Start, StartCheck, StartCall, StartRecord, StartAbort, Cancel,
       CancelCheck, CancelCall, Wait, WaitCheck, RxCheckDead, RxTake, Recv
  <2> QED
    BY <2>1, <2>2, OthersUntouched DEF Untouched
<1>2. CASE ~dropped
  <2>1. ASSUME NEW h \in Handles, Driver(h) PROVE UNCHANGED dropped
    BY <2>1 DEF Driver, DriverStatus, DriverResult, DriverError, Raise, dropVars
  <2>2. ASSUME NEW u \in Threads, Start(u) \/ Cancel(u) \/ Wait(u)
        PROVE  UNCHANGED dropped
    BY <2>2 DEF Start, StartCheck, StartCall, StartRecord, StartAbort, Cancel,
       CancelCheck, CancelCall, Wait, WaitCheck, RxCheckDead, RxTake, Recv, dropVars
  <2>3. Listen \/ Destruct \/ UNCHANGED vars => UNCHANGED dropped
    BY DEF Listen, ListenTake, ListenPublish, ListenClosed, Destruct, vars, dropVars
  <2>4. Drop
    BY <1>2, <2>1, <2>2, <2>3 DEF Next
  <2> QED
    BY <2>4 DEF Drop, threadVars
<1> QED
  BY <1>1, <1>2

LEMMA WaitingIsOpenStep ==
  ASSUME TypeOK, WaitingIsOpen, [Next]_vars
  PROVE  WaitingIsOpen'
<1> SUFFICES ASSUME NEW t \in Threads, pc'[t] \in {"rx_dead", "rx_take", "recv"}
             PROVE  res'[t] = "none" /\ op'[t] \in Waits
  BY DEF WaitingIsOpen
<1> USE DEF TypeOK, CallType
<1>1. CASE Untouched(t)
  BY <1>1 DEF Untouched, WaitingIsOpen
<1>2. Start(t) \/ Cancel(t) => pc'[t] \notin {"rx_dead", "rx_take", "recv"}
  BY DEF Start, StartCheck, StartCall, StartRecord, StartAbort, Cancel, CancelCheck,
     CancelCall, Goto, Enter, Return
<1>3. CASE Wait(t)
  BY <1>3 DEF WaitingIsOpen, Wait, WaitCheck, RxCheckDead, RxTake, Recv, Goto, Enter,
     Return
<1> QED
  BY <1>1, <1>2, <1>3, OthersUntouched

\* A waiter that leaves at the end, and does not lag, has the end before it.
LEMMA ReadsTheEnd ==
  ASSUME TypeOK, NobodyLags, NEW t \in Threads, Recv(t),
         res'[t] \in {"Ok", "RxTimeout"}, res'[t] # res[t]
  PROVE  /\ rx[t] + 1 \in DOMAIN log /\ log[rx[t] + 1] \in TerminalStatus
         /\ res'[t] = "RxTimeout" => op[t] # "wait_finish"
         /\ res'[t] = Fallthrough(t)
         /\ UNCHANGED <<log, op, via>> /\ pc[t] = "recv"
<1>1. /\ rx[t] \in Nat /\ Len(log) \in Nat /\ DOMAIN log = 1 .. Len(log)
      /\ pc[t] = "recv" /\ rx[t] < Len(log) /\ UNCHANGED <<log, op, via>>
  BY DEF TypeOK, ReceiverType, ListenerType, Recv
<1>2. PICK e : e = log[rx[t] + 1]
  OBVIOUS
<1>3. res'[t] = AnswerTo(t, e)
  BY <1>1, <1>2 DEF Recv, Return, NobodyLags, TypeOK, CallType
<1>4. e \in TerminalStatus /\ res'[t] = Fallthrough(t)
  BY <1>3 DEF AnswerTo
<1> QED
  BY <1>1, <1>2, <1>4 DEF Fallthrough

LEMMA LeftAtTheEndStep ==
  ASSUME TypeOK, NobodyLags, LeftAtTheEnd, [Next]_vars
  PROVE  LeftAtTheEnd'
<1> SUFFICES ASSUME NEW t \in Threads, res'[t] \in {"Ok", "RxTimeout"}
             PROVE  HasTerminal(log')
  BY DEF LeftAtTheEnd, HasTerminal
<1>1. CASE res'[t] = res[t]
  BY <1>1, LogKeeps DEF LeftAtTheEnd
<1>2. CASE res'[t] # res[t]
  <2>1. Recv(t)
    BY <1>2, OnlyRecvGivesUp
  <2>2. HasTerminal(log)
    BY <1>2, <2>1, ReadsTheEnd DEF HasTerminal
  <2> QED
    BY <2>2, LogKeeps
<1> QED
  BY <1>1, <1>2

LEMMA WaiterInvStep ==
  ASSUME TypeOK, IInv, DriverInv, WaiterInv, NobodyLags, [Next]_vars
  PROVE  WaiterInv'
BY NothingSkippedStep, FirstReadsStep, DroppedIsQuietStep, WaitingIsOpenStep,
   LeftAtTheEndStep DEF WaiterInv

\* Who leaves at the end has read, with the first receiver, everything before
\* it, and after it comes nothing but a refused start.
LEMMA NothingWasMissed ==
  ASSUME TypeOK, IInv, DriverInv, WaiterInv, NobodyLags, NEW t \in Threads,
         Recv(t), res'[t] \in {"Ok", "RxTimeout"}, res'[t] # res[t], via[t] = "first"
  PROVE  /\ ~Has(emitted, "Error")
         /\ res'[t] = "RxTimeout" => ~Has(emitted, "Result")
<1>1. /\ rx[t] + 1 \in DOMAIN log /\ log[rx[t] + 1] \in TerminalStatus
      /\ res'[t] = Fallthrough(t) /\ pc[t] = "recv"
  BY ReadsTheEnd
<1>2. /\ rx[t] \in Nat /\ DOMAIN log = 1 .. Len(log) /\ Len(log) \in Nat
  BY DEF TypeOK, ReceiverType, ListenerType
<1>3. HasTerminal(log)
  BY <1>1 DEF HasTerminal
<1>4. /\ listener = "stopped" /\ current = NoEvent /\ pdu_events = <<>> /\ ~dropped
  BY <1>1, <1>3 DEF IInv, RunningMeansNoEnd, DriverInv, WhyStopped, WaiterInv,
     DroppedIsQuiet
<1>5. ASSUME NEW e \in {"Result", "Error"}, Has(emitted, e) PROVE Has(log, e)
  BY <1>4, <1>5 DEF WaiterInv, NothingSkipped, NoEvent, Has
<1>6. ASSUME NEW e \in {"Result", "Error"}, Has(log, e)
      PROVE  AnswerTo(t, e) = "none"
  <2>1. PICK i \in DOMAIN log : log[i] = e
    BY <1>6 DEF Has
  <2>2. i # rx[t] + 1
    BY <1>1, <2>1 DEF TerminalStatus
  <2>3. ~(i > rx[t] + 1)
    BY <1>1, <2>1 DEF IInv, EndIsLast
  <2>4. i <= rx[t]
    BY <1>2, <2>2, <2>3
  <2> QED
    BY <1>1, <2>1, <2>4 DEF WaiterInv, FirstReads
<1>7. ~Has(emitted, "Error")
  BY <1>5, <1>6 DEF AnswerTo
<1>8. res'[t] = "RxTimeout" => op[t] = "get_result"
  BY <1>1 DEF WaiterInv, WaitingIsOpen, Waits, Fallthrough
<1>9. op[t] = "get_result" => AnswerTo(t, "Result") # "none"
  BY DEF AnswerTo
<1> QED
  BY <1>5, <1>6, <1>7, <1>8, <1>9

LEMMA FirstWaiterStep ==
  ASSUME TypeOK, IInv, DriverInv, WaiterInv, NobodyLags, FirstWaiterMissesNothing,
         [Next]_vars
  PROVE  FirstWaiterMissesNothing'
<1> SUFFICES ASSUME NEW t \in Threads, via'[t] = "first",
                    res'[t] \in {"Ok", "RxTimeout"}
             PROVE  /\ ~Has(emitted', "Error")
                    /\ res'[t] = "RxTimeout" => ~Has(emitted', "Result")
  BY DEF FirstWaiterMissesNothing, Has
<1>1. CASE res'[t] # res[t]
  <2>1. Recv(t)
    BY <1>1, OnlyRecvGivesUp
  <2>2. UNCHANGED <<via, emitted>>
    BY <2>1 DEF Recv, driverVars
  <2> QED
    BY <1>1, <2>1, <2>2, NothingWasMissed
<1>2. CASE res'[t] = res[t]
  <2>1. HasTerminal(log)
    BY <1>2 DEF WaiterInv, LeftAtTheEnd
  <2>2. \A h \in Handles : ~Driver(h)
    BY <2>1, DriverWorks
  <2>3. emitted' = emitted
    BY <2>2, OthersKeepEvents
  <2>4. via[t] = "first"
    <3>1. Untouched(t) => via[t] = "first"
      BY DEF Untouched
    <3>2. Start(t) \/ Cancel(t) \/ RxCheckDead(t) \/ Recv(t) => via[t] = "first"
      BY DEF Start, StartCheck, StartCall, StartRecord, StartAbort, Cancel,
         CancelCheck, CancelCall, RxCheckDead, Recv
    <3>3. ~WaitCheck(t)
      BY DEF WaitCheck, TypeOK, ReceiverType
    <3>4. ~RxTake(t)
      BY <1>2 DEF RxTake, WaiterInv, WaitingIsOpen
    <3> QED
      BY <3>1, <3>2, <3>3, <3>4, OthersUntouched DEF Wait
  <2> QED
    BY <1>2, <2>3, <2>4 DEF FirstWaiterMissesNothing
<1> QED
  BY <1>1, <1>2

\* When no two starts raced and no receiver lags, the waiter with the first
\* receiver reports neither a timeout for a primitive that had a result or an
\* error, nor Ok for one that had an error.
THEOREM FirstWaiterIsToldEverything ==
  Spec /\ [](NobodyLags /\ OneStart) => []FirstWaiterMissesNothing
<1>1. Init => FirstWaiterMissesNothing
  BY DEF Init, FirstWaiterMissesNothing
<1>2. TypeOK /\ IInv /\ DriverInv /\ OneStart' /\ [Next]_vars => DriverInv'
  BY DriverInvStep
<1>3. TypeOK /\ IInv /\ DriverInv /\ WaiterInv /\ NobodyLags /\ [Next]_vars => WaiterInv'
  BY WaiterInvStep
<1>4. TypeOK /\ IInv /\ DriverInv /\ WaiterInv /\ NobodyLags
        /\ FirstWaiterMissesNothing /\ [Next]_vars => FirstWaiterMissesNothing'
  BY FirstWaiterStep
<1>5. Init => DriverInv /\ WaiterInv
  BY InitMisses
<1> QED
  BY <1>1, <1>2, <1>3, <1>4, <1>5, TypeCorrect, Inductive, PTL DEF Spec

\* wait_finish() returns Ok, and get_result() RxTimeout, only after the end, as
\* long as no receiver lags, however much is sent on the channel.
THEOREM WaitersAreRightUnlessTheyLag ==
  Spec /\ []NobodyLags => []WaitersLeaveAtTheEnd
<1>1. Init => LeftAtTheEnd
  BY DEF Init, LeftAtTheEnd
<1>2. TypeOK /\ LeftAtTheEnd /\ NobodyLags /\ [Next]_vars => LeftAtTheEnd'
  BY LeftAtTheEndStep
<1>3. IInv /\ LeftAtTheEnd => WaitersLeaveAtTheEnd
  BY DEF IInv, FlagsLeadEvents, LeftAtTheEnd, WaitersLeaveAtTheEnd
<1> QED
  BY <1>1, <1>2, <1>3, TypeCorrect, Inductive, PTL DEF Spec

-----------------------------------------------------------------------------
(***************************************************************************)
(* What FirstWaiterReturns, CancelTakesEffect and NothingLeaks promise,    *)
(* but for the time it takes.  An end the driver reported is on its way to *)
(* the channel, or is there, unless the object is dropped or its listener  *)
(* has panicked; and the panic comes after an error that is on the channel.*)
(***************************************************************************)
Underway ==
  listener = "running" /\ (current \in TerminalStatus \/ HasTerminal(pdu_events))

EndsAreReported == \A h \in Handles : driver[h] \in TerminalStatus => HasTerminal(emitted)

EndIsComing ==
  HasTerminal(emitted) =>
    HasTerminal(log) \/ Underway \/ dropped \/ listener = "panicked"

StopsForGood == listener = "stopped" => dropped \/ HasTerminal(log)

ErrorIsOut ==
  /\ error => Has(log, "Error") \/ current = "Error"
  /\ listener = "panicked" => Has(log, "Error")

EndInv == EndsAreReported /\ EndIsComing /\ StopsForGood /\ ErrorIsOut

\* Something to read that makes the call return, or the end, before long.
FirstWaiterIsDue ==
  \A t \in Threads, h \in Handles :
    pc[t] = "recv" /\ via[t] = "first" /\ driver[h] \in TerminalStatus =>
      \/ \E i \in DOMAIN log : rx[t] < i /\ AnswerTo(t, log[i]) # "none"
      \/ Underway

CancelIsDue ==
  \A t \in Threads : res[t] = "Cancelled" =>
    \/ dead \/ dropped \/ listener = "panicked"
    \/ driver[h_cop] = "Cancelling"
    \/ listener = "running" /\ HasTerminal(pdu_events)

LEMMA InitEnd == Init => EndInv
<1> SUFFICES ASSUME Init PROVE EndInv
  OBVIOUS
<1>1. ~HasTerminal(<<>>)
  BY DEF HasTerminal
<1> QED
  BY <1>1 DEF Init, EndInv, EndsAreReported, EndIsComing, StopsForGood, ErrorIsOut,
     TerminalStatus

\* The driver reports an event.
LEMMA DriverEnd ==
  ASSUME TypeOK, EndInv, NEW h \in Handles, Driver(h)
  PROVE  EndInv'
<1>1. /\ emitted \in Seq(PduEvent) /\ pdu_events \in Seq(PduEvent)
      /\ driver \in [Handles -> DriverState]
      /\ listener \in {"running", "stopped", "panicked"}
  BY DEF TypeOK, DriverType, ListenerType
<1>2. PICK e \in PduEvent :
        /\ Raise(e)
        /\ UNCHANGED driver \/ driver' = [driver EXCEPT ![h] = e]
  BY DEF Driver, DriverStatus, DriverResult, DriverError, PduEvent, Status
<1>3. /\ emitted' = Append(emitted, e)
      /\ UNCHANGED <<listener, current, error, log, dropped>>
      /\ pdu_events' = IF ~dropped /\ listener = "running"
                         THEN Append(pdu_events, e) ELSE pdu_events
  BY <1>2 DEF Raise, listenerVars, dropVars
<1>4. /\ HasTerminal(emitted') <=> HasTerminal(emitted) \/ e \in TerminalStatus
      /\ ~dropped /\ listener = "running" =>
           (HasTerminal(pdu_events') <=> HasTerminal(pdu_events) \/ e \in TerminalStatus)
      /\ HasTerminal(pdu_events) => HasTerminal(pdu_events')
  BY <1>1, <1>3, OneMore
<1>5. EndsAreReported'
  <2>1. \A g \in Handles : driver'[g] = driver[g] \/ driver'[g] = e
    BY <1>1, <1>2
  <2>2. \A g \in Handles : driver'[g] \in TerminalStatus => HasTerminal(emitted')
    BY <1>4, <2>1 DEF EndInv, EndsAreReported
  <2> QED
    BY <2>2 DEF EndsAreReported, HasTerminal
<1>6. EndIsComing'
  <2> SUFFICES ASSUME HasTerminal(emitted'), ~dropped, listener # "panicked",
                      ~HasTerminal(log)
               PROVE  /\ listener = "running"
                      /\ current \in TerminalStatus \/ HasTerminal(pdu_events')
    BY <1>3 DEF EndIsComing, Underway, HasTerminal
  <2>1. listener = "running"
    BY <1>1 DEF EndInv, StopsForGood
  <2>2. HasTerminal(emitted) => current \in TerminalStatus \/ HasTerminal(pdu_events)
    BY DEF EndInv, EndIsComing, Underway
  <2> QED
    BY <1>4, <2>1, <2>2
<1>7. StopsForGood' /\ ErrorIsOut'
  BY <1>3 DEF EndInv, StopsForGood, ErrorIsOut, HasTerminal, Has
<1> QED
  BY <1>5, <1>6, <1>7 DEF EndInv

\* The listener takes an event, broadcasts one, or stops.
LEMMA ListenEnd ==
  ASSUME TypeOK, EndInv, Listen
  PROVE  EndInv'
<1>1. /\ pdu_events \in Seq(PduEvent) /\ log \in Seq(PrimitiveEvent)
      /\ current \in PduEvent \cup {NoEvent} /\ PduEvent \subseteq PrimitiveEvent
      /\ UNCHANGED <<driver, emitted, dropped>> /\ listener = "running"
  BY DEF TypeOK, ListenerType, PrimitiveEvent, Listen, ListenTake, ListenPublish,
     ListenClosed, driverVars, dropVars
<1>2. EndsAreReported'
  BY <1>1 DEF EndInv, EndsAreReported, HasTerminal
<1>3. EndIsComing /\ ErrorIsOut /\ StopsForGood
  BY DEF EndInv
<1>4. CASE ListenTake
  <2>1. /\ current = NoEvent /\ pdu_events # <<>> /\ UNCHANGED log
        /\ \/ /\ Head(pdu_events) = "Error" /\ error /\ listener' = "panicked"
              /\ current' = NoEvent
           \/ /\ listener' = "running" /\ current' = Head(pdu_events)
              /\ pdu_events' = Tail(pdu_events)
        /\ error' = (error \/ Head(pdu_events) = "Error")
        /\ listener' = "panicked" => error
        /\ listener' # "panicked" /\ Head(pdu_events) = "Error" => current' = "Error"
        /\ listener' # "panicked" => Head(pdu_events) # "Error" \/ ~error
    BY <1>1, <1>4 DEF ListenTake, ErrorAfter
  <2>2. HasTerminal(pdu_events) <=>
          Head(pdu_events) \in TerminalStatus \/ HasTerminal(Tail(pdu_events))
    BY <1>1, <2>1, OneLess
  <2>3. EndIsComing'
    <3> SUFFICES ASSUME HasTerminal(emitted), ~dropped, listener' # "panicked",
                        ~HasTerminal(log)
                 PROVE  /\ listener' = "running"
                        /\ current' \in TerminalStatus \/ HasTerminal(pdu_events')
      BY <1>1, <2>1 DEF EndIsComing, Underway, HasTerminal
    <3>1. HasTerminal(pdu_events)
      BY <1>1, <1>3, <2>1 DEF EndIsComing, Underway, NoEvent, TerminalStatus
    <3> QED
      BY <2>1, <2>2, <3>1
  <2>4. Has(log', "Error") <=> Has(log, "Error")
    BY <2>1
  <2>5. error => Has(log, "Error")
    BY <1>3, <2>1 DEF ErrorIsOut, NoEvent
  <2>6. (error' => Has(log', "Error") \/ current' = "Error")
         /\ (listener' = "panicked" => Has(log', "Error"))
    BY <2>1, <2>4, <2>5
  <2>7. ErrorIsOut' /\ StopsForGood'
    BY <2>1, <2>6 DEF ErrorIsOut, StopsForGood, Has
  <2> QED
    BY <1>2, <2>3, <2>7 DEF EndInv
<1>5. CASE ListenPublish
  <2>1. /\ log' = Append(log, current) /\ current \in PrimitiveEvent
        /\ UNCHANGED error /\ listener' \in {"running", "stopped"}
        /\ \/ current \in TerminalStatus
           \/ UNCHANGED <<listener, pdu_events>>
    BY <1>1, <1>5 DEF ListenPublish, StopsAt
  <2>2. /\ HasTerminal(log') <=> HasTerminal(log) \/ current \in TerminalStatus
        /\ Has(log', "Error") <=> Has(log, "Error") \/ current = "Error"
    BY <1>1, <2>1, OneMore
  <2>3. EndIsComing'
    <3> SUFFICES ASSUME HasTerminal(emitted), ~dropped, ~HasTerminal(log')
                 PROVE  listener' = "running" /\ HasTerminal(pdu_events')
      BY <1>1 DEF EndIsComing, Underway, HasTerminal
    <3> QED
      BY <1>1, <1>3, <2>1, <2>2 DEF EndIsComing, Underway
  <2>4. StopsForGood'
    <3> SUFFICES ASSUME listener' = "stopped" PROVE HasTerminal(log')
      BY DEF StopsForGood, HasTerminal
    <3> QED
      BY <1>1, <2>1, <2>2
  <2>5. (error' => Has(log', "Error")) /\ listener' # "panicked"
    BY <1>3, <2>1, <2>2 DEF ErrorIsOut
  <2>6. ErrorIsOut'
    BY <2>5 DEF ErrorIsOut, Has
  <2> QED
    BY <1>2, <2>3, <2>4, <2>6 DEF EndInv
<1>6. CASE ListenClosed
  BY <1>1, <1>2, <1>3, <1>6 DEF ListenClosed, EndInv, EndIsComing, StopsForGood,
     ErrorIsOut, Has
<1> QED
  BY <1>4, <1>5, <1>6 DEF Listen

\* Everybody else.
LEMMA OthersEnd ==
  ASSUME TypeOK, EndInv, [Next]_vars, ~Listen, \A h \in Handles : ~Driver(h)
  PROVE  EndInv'
<1>1. UNCHANGED <<emitted, pdu_events, listener, current, error>>
  BY OthersKeepEvents DEF listenerVars
<1>2. /\ HasTerminal(log) => HasTerminal(log')
      /\ Has(log, "Error") => Has(log', "Error")
  BY LogKeeps
<1>3. dropped => dropped'
  BY DroppedForGood
<1>4. \A h \in Handles : driver'[h] \in TerminalStatus => driver[h] \in TerminalStatus
  <2>1. driver' = CancelledBy(h_cop) =>
          \A h \in Handles : driver'[h] \in {driver[h], "Cancelling"}
    BY DEF CancelledBy, TypeOK, DriverType
  <2>2. ASSUME NEW t \in Threads, Start(t)
        PROVE  \A h \in Handles : driver'[h] \in {driver[h], "Idle"}
    BY <2>2 DEF TypeOK, DriverType, Start, StartCheck, StartCall, StartRecord,
       StartAbort, driverVars
  <2>3. ASSUME NEW t \in Threads, Cancel(t) \/ Wait(t)
        PROVE  driver' \in {driver, CancelledBy(h_cop)}
    BY <2>3 DEF Cancel, CancelCheck, CancelCall, Wait, WaitCheck, RxCheckDead,
       RxTake, Recv, driverVars
  <2>4. Drop \/ Destruct \/ UNCHANGED vars => driver' \in {driver, CancelledBy(h_cop)}
    BY DEF Drop, Destruct, vars, driverVars
  <2> QED
    BY <2>1, <2>2, <2>3, <2>4 DEF Next, TerminalStatus
<1>5. EndsAreReported'
  BY <1>1, <1>4 DEF EndInv, EndsAreReported, HasTerminal
<1>6. EndIsComing' /\ StopsForGood'
  BY <1>1, <1>2, <1>3 DEF EndInv, EndIsComing, Underway, StopsForGood, HasTerminal
<1>7. ErrorIsOut'
  BY <1>1, <1>2 DEF EndInv, ErrorIsOut, Has
<1> QED
  BY <1>5, <1>6, <1>7 DEF EndInv

LEMMA EndStep == TypeOK /\ EndInv /\ [Next]_vars => EndInv'
BY DriverEnd, ListenEnd, OthersEnd

\* The first waiter is no reader of the end, or of an error, it has read.
LEMMA WaiterHasTheEnd ==
  ASSUME TypeOK, EndInv, FirstReads, DroppedIsQuiet, WaitingIsOpen
  PROVE  FirstWaiterIsDue
<1> SUFFICES ASSUME NEW t \in Threads, NEW h \in Handles, pc[t] = "recv",
                    via[t] = "first", driver[h] \in TerminalStatus, ~Underway
             PROVE  \E i \in DOMAIN log : rx[t] < i /\ AnswerTo(t, log[i]) # "none"
  BY DEF FirstWaiterIsDue
<1>1. ~dropped /\ op[t] \in Waits
  BY DEF DroppedIsQuiet, WaitingIsOpen
<1>2. HasTerminal(log) \/ Has(log, "Error")
  BY <1>1 DEF EndInv, EndsAreReported, EndIsComing, ErrorIsOut
<1>3. PICK i \in DOMAIN log : log[i] \in TerminalStatus \/ log[i] = "Error"
  BY <1>2 DEF HasTerminal, Has
<1>4. AnswerTo(t, log[i]) # "none"
  <2>1. Fallthrough(t) # "none"
    BY DEF Fallthrough
  <2> QED
    BY <1>3, <2>1 DEF AnswerTo
<1>5. ~(i <= rx[t]) /\ i \in Nat /\ rx[t] \in Nat
  BY <1>4 DEF FirstReads, TypeOK, ListenerType, ReceiverType
<1> QED
  BY <1>4, <1>5

\* A primitive whose cancellation the driver accepted is ending or has ended.
CancelledIsEnding ==
  \A t \in Threads : res[t] = "Cancelled" =>
    h_cop \in Handles /\ driver[h_cop] \in {"Cancelling"} \cup TerminalStatus

\* What is ending, or has ended, stays so.
LEMMA EndingStays ==
  ASSUME TypeOK, [Next]_vars, NEW g \in Handles,
         driver[g] \in {"Cancelling"} \cup TerminalStatus
  PROVE  driver'[g] \in {"Cancelling"} \cup TerminalStatus
<1>1. driver \in [Handles -> DriverState]
  BY DEF TypeOK, DriverType
<1>2. driver' = CancelledBy(h_cop) => driver'[g] \in {"Cancelling"} \cup TerminalStatus
  BY <1>1 DEF CancelledBy
<1>3. ASSUME NEW h \in Handles, Driver(h)
      PROVE  driver'[g] \in {"Cancelling"} \cup TerminalStatus
  <2>1. UNCHANGED driver \/ DriverStatus(h)
    BY <1>3 DEF Driver, DriverResult, DriverError
  <2>2. CASE DriverStatus(h)
    <3>1. PICK s \in Status :
            /\ driver' = [driver EXCEPT ![h] = s]
            /\ \/ driver[h] \in AliveStatus
               \/ s \in TerminalStatus
      BY <2>2 DEF DriverStatus
    <3> QED
      BY <1>1, <3>1 DEF AliveStatus, TerminalStatus
  <2> QED
    BY <2>1, <2>2
<1>4. ASSUME NEW t \in Threads, Start(t)
      PROVE  driver'[g] = driver[g]
  BY <1>1, <1>4 DEF Start, StartCheck, StartCall, StartRecord, StartAbort, driverVars,
     TerminalStatus
<1>5. ASSUME NEW t \in Threads, Cancel(t) \/ Wait(t)
      PROVE  driver' \in {driver, CancelledBy(h_cop)}
  BY <1>5 DEF Cancel, CancelCheck, CancelCall, Wait, WaitCheck, RxCheckDead,
     RxTake, Recv, driverVars
<1>6. Listen \/ Drop \/ Destruct \/ UNCHANGED vars =>
        driver' \in {driver, CancelledBy(h_cop)}
  BY DEF Listen, ListenTake, ListenPublish, ListenClosed, Drop, Destruct, vars,
     driverVars
<1> QED
  BY <1>2, <1>3, <1>4, <1>5, <1>6 DEF Next

\* h_cop is set once.
LEMMA HandleStays ==
  ASSUME TypeOK, [Next]_vars, h_cop # NoCop
  PROVE  UNCHANGED h_cop
<1>1. ASSUME NEW t \in Threads, Start(t) \/ Cancel(t) \/ Wait(t)
      PROVE  UNCHANGED h_cop
  BY <1>1 DEF Start, StartCheck, StartCall, StartRecord, StartAbort, Cancel,
     CancelCheck, CancelCall, Wait, WaitCheck, RxCheckDead, RxTake, Recv
<1>2. ASSUME NEW h \in Handles, Driver(h) PROVE UNCHANGED h_cop
  BY <1>2 DEF Driver, DriverStatus, DriverResult, DriverError, Raise
<1>3. Listen \/ Drop \/ Destruct \/ UNCHANGED vars => UNCHANGED h_cop
  BY DEF Listen, ListenTake, ListenPublish, ListenClosed, Drop, Destruct, vars
<1> QED
  BY <1>1, <1>2, <1>3 DEF Next

\* A request to cancel makes a recorded primitive end.
LEMMA CancelEndsIt ==
  ASSUME TypeOK, StartedFirst, h_cop # NoCop, driver' = CancelledBy(h_cop)
  PROVE  driver'[h_cop] \in {"Cancelling"} \cup TerminalStatus
BY DEF TypeOK, CallType, DriverType, DriverState, LiveDriver, StartedFirst, CancelledBy

LEMMA CancelledIsEndingStep ==
  ASSUME TypeOK, ContractInv, CancelledIsEnding, [Next]_vars
  PROVE  CancelledIsEnding'
<1> SUFFICES ASSUME NEW t \in Threads, res'[t] = "Cancelled"
             PROVE  /\ h_cop' \in Handles
                    /\ driver'[h_cop'] \in {"Cancelling"} \cup TerminalStatus
  BY DEF CancelledIsEnding
<1>1. h_cop \in Handles \cup {NoCop} /\ NoCop \notin Handles
  BY PrimitiveAssumption DEF TypeOK, CallType
<1>2. CASE res[t] = "Cancelled"
  BY <1>1, <1>2, EndingStays, HandleStays DEF CancelledIsEnding
<1>3. CASE res[t] # "Cancelled"
  <2>1. Start(t) \/ Cancel(t) \/ Wait(t)
    BY <1>3, OthersUntouched DEF Untouched
  <2>2. CancelCall(t)
    BY <1>3, <2>1 DEF Start, StartCheck, StartCall, StartRecord, StartAbort, Cancel,
       CancelCheck, Wait, WaitCheck, RxCheckDead, RxTake, Recv, Goto, Return, Enter,
       AnswerTo, Fallthrough, TypeOK, CallType, TerminalStatus
  <2>3. h_cop # NoCop /\ UNCHANGED h_cop
    BY <2>2 DEF CancelCall, ContractInv, StartedFirst
  <2>4. driver' = CancelledBy(h_cop)
    BY <1>3, <2>2 DEF CancelCall, Return, TypeOK, CallType
  <2> QED
    BY <1>1, <2>3, <2>4, CancelEndsIt DEF ContractInv
<1> QED
  BY <1>2, <1>3

\* When the object is gone, and only one start got a primitive, the recorded one
\* is ending or the destructor is about to cancel it, or has failed to.
DropInv ==
  OneStart /\ dropped /\ h_cop # NoCop =>
    \/ destructor \in {"pending", "failed"}
    \/ driver[h_cop] \in {"Cancelling"} \cup TerminalStatus

\* A start panics only on finding another handle recorded.
PanicsComeSecond == \A t \in Threads : pc[t] = "panicked" => h_cop # NoCop

\* No future of a start was dropped: what runs in the driver is ending, or is
\* the recorded primitive, which the destructor is about to cancel or which the
\* driver refused to it.
LeaksAreEnding ==
  OneStart /\ dropped /\ (\A t \in Threads : pc[t] # "abandoned") =>
    \A h \in Handles :
      \/ driver[h] \in {"Free", "Cancelling"} \cup TerminalStatus
      \/ h = h_cop /\ destructor \in {"pending", "failed"}

\* Drop cancels what is not dead, and what is dead has ended.
LEMMA DropStep ==
  ASSUME TypeOK, ContractInv, DriverInv, OneStart', Drop, h_cop # NoCop
  PROVE  destructor' = "pending" \/ driver'[h_cop] \in TerminalStatus
<1> SUFFICES ASSUME dead PROVE driver'[h_cop] \in TerminalStatus
  BY DEF Drop, DropCancels
<1>1. ~dropped /\ UNCHANGED driver /\ h_cop \in Handles /\ driver[h_cop] # "Free"
  BY DEF Drop, driverVars, ContractInv, StartedFirst, TypeOK, CallType
<1>2. current \in TerminalStatus \/ HasTerminal(log)
  BY <1>1 DEF ContractInv, DeadTakesNothing, DriverInv, WhyStopped
<1>3. DriverOver
  BY <1>2 DEF DriverInv, EndWasEmitted, OverAfterTheEnd
<1> QED
  BY <1>1, <1>3 DEF DriverOver

LEMMA DropInvStep ==
  ASSUME TypeOK, ContractInv, DriverInv, DroppedIsQuiet, DropInv, [Next]_vars
  PROVE  DropInv'
<1> SUFFICES ASSUME OneStart', dropped', h_cop' # NoCop
             PROVE  \/ destructor' \in {"pending", "failed"}
                    \/ driver'[h_cop'] \in {"Cancelling"} \cup TerminalStatus
  BY DEF DropInv
<1>1. ASSUME NEW t \in Threads, Start(t) \/ Cancel(t) \/ Wait(t) PROVE ~dropped /\ ~dropped'
  BY <1>1 DEF DroppedIsQuiet, Start, StartCheck, StartCall, StartRecord, StartAbort,
     Cancel, CancelCheck, CancelCall, Wait, WaitCheck, RxCheckDead, RxTake, Recv,
     dropVars
<1>2. ASSUME NEW h \in Handles, Driver(h) PROVE UNCHANGED <<h_cop, dropped, destructor>>
  BY <1>2 DEF Driver, DriverStatus, DriverResult, DriverError, Raise, dropVars
<1>3. Listen \/ UNCHANGED vars => UNCHANGED <<h_cop, dropped, destructor>>
  BY DEF Listen, ListenTake, ListenPublish, ListenClosed, vars, dropVars
<1>4. CASE Drop
  BY <1>4, DropStep DEF Drop
<1>5. CASE ~Drop
  <2>1. dropped /\ h_cop' = h_cop
    BY <1>1, <1>2, <1>3, <1>5 DEF Next, Destruct
  <2>2. \/ destructor \in {"pending", "failed"}
        \/ driver[h_cop] \in {"Cancelling"} \cup TerminalStatus
    <3>1. OneStart
      BY MadeStaysMade DEF OneStart
    <3> QED
      BY <2>1, <3>1 DEF DropInv
  <2>3. h_cop \in Handles
    BY <2>1 DEF TypeOK, CallType
  <2>4. CASE Destruct
    BY <2>1, <2>4, CancelEndsIt DEF Destruct, ContractInv
  <2>5. CASE ~Destruct
    <3>1. UNCHANGED destructor
      BY <1>1, <1>2, <1>3, <1>5, <2>1, <2>5 DEF Next
    <3> QED
      BY <2>1, <2>2, <2>3, <3>1, EndingStays
  <2> QED
    BY <2>4, <2>5
<1> QED
  BY <1>4, <1>5

LEMMA PanicsStep ==
  ASSUME TypeOK, PanicsComeSecond, [Next]_vars
  PROVE  PanicsComeSecond'
<1> SUFFICES ASSUME NEW t \in Threads, pc'[t] = "panicked" PROVE h_cop' # NoCop
  BY DEF PanicsComeSecond
<1>1. h_cop # NoCop
  BY OthersUntouched DEF PanicsComeSecond, Untouched, Start, StartCheck, StartCall,
     StartRecord, StartAbort, Cancel, CancelCheck, CancelCall, Wait, WaitCheck,
     RxCheckDead, RxTake, Recv, Goto, Enter, Return, TypeOK, CallType
<1> QED
  BY <1>1, HandleStays

\* Every primitive the driver made is the recorded one.
LEMMA OneIsRecorded ==
  ASSUME TypeOK, CountInv, ContractInv, PanicsComeSecond, DroppedIsQuiet, OneStart,
         dropped, \A t \in Threads : pc[t] # "abandoned",
         NEW h \in Handles, driver[h] # "Free"
  PROVE  h = h_cop
<1>1. h_cop # NoCop
  <2> SUFFICES ASSUME h_cop = NoCop PROVE FALSE
    OBVIOUS
  <2>1. Unrecorded = {} /\ Recorded = {}
    BY PrimitiveAssumption DEF DroppedIsQuiet, PanicsComeSecond, Unrecorded, Recorded
  <2>2. Cardinality(Made) = 0 /\ IsFiniteSet(Made)
    BY <2>1, FS_EmptySet DEF CountInv
  <2> QED
    BY <2>2, FS_EmptySet DEF Made
<1> QED
  BY <1>1 DEF OneStart, ContractInv, StartedFirst, TypeOK, CallType

\* listen_events(), handle_event() and get_primitive_event_receiver() together:
\* when the driver has ended the primitive, a waiter with the first receiver has
\* something unread that makes it return, or the listener is about to broadcast
\* the end.  That the two are scheduled is liveness.
THEOREM FirstWaiterIsWoken == Spec => []FirstWaiterIsDue
<1>1. Init => FirstReads /\ DroppedIsQuiet /\ WaitingIsOpen
  BY InitMisses DEF WaiterInv
<1>2. TypeOK /\ (FirstReads /\ DroppedIsQuiet /\ WaitingIsOpen) /\ [Next]_vars
        => (FirstReads /\ DroppedIsQuiet /\ WaitingIsOpen)'
  BY FirstReadsStep, DroppedIsQuietStep, WaitingIsOpenStep
<1>3. TypeOK /\ EndInv /\ (FirstReads /\ DroppedIsQuiet /\ WaitingIsOpen)
        => FirstWaiterIsDue
  BY WaiterHasTheEnd
<1> QED
  BY <1>1, <1>2, <1>3, InitEnd, EndStep, TypeCorrect, PTL DEF Spec

\* cancel() and the listener together: after a cancellation the driver accepted,
\* the driver is ending the primitive, or the end is on its way to the flag, or
\* the flag is set, for ever; unless the listener panics or the object goes.
THEOREM CancelIsOnItsWay == Spec => []CancelIsDue
<1>1. Init => ContractInv /\ CancelledIsEnding
  BY InitContract DEF Init, CancelledIsEnding
<1>2. TypeOK /\ (ContractInv /\ CancelledIsEnding) /\ [Next]_vars
        => (ContractInv /\ CancelledIsEnding)'
  BY ContractInvStep, CancelledIsEndingStep
<1>3. TypeOK /\ IInv /\ EndInv /\ CancelledIsEnding => CancelIsDue
  <2> SUFFICES ASSUME TypeOK, IInv, EndInv, CancelledIsEnding, NEW t \in Threads,
                      res[t] = "Cancelled", ~dead, ~dropped, listener # "panicked",
                      driver[h_cop] # "Cancelling"
               PROVE  listener = "running" /\ HasTerminal(pdu_events)
    BY DEF CancelIsDue
  <2>1. HasTerminal(emitted)
    BY DEF CancelledIsEnding, EndInv, EndsAreReported
  <2>2. ~HasTerminal(log) /\ current \notin TerminalStatus
    BY DEF IInv, FlagsLeadEvents, HandLeads
  <2> QED
    BY <2>1, <2>2 DEF EndInv, EndIsComing, Underway
<1> QED
  BY <1>1, <1>2, <1>3, InitEnd, EndStep, TypeCorrect, Inductive, PTL DEF Spec

\* Drop and the destructor together: when only one start got a primitive, and its
\* future was not dropped, what still runs in the driver after the object is gone
\* is being cancelled, or is about to be, unless the destructor's own calls failed.
THEOREM DropsEndWhatRuns == Spec => []LeaksAreEnding
<1>1. Init => ContractInv /\ DriverInv /\ DroppedIsQuiet /\ PanicsComeSecond /\ DropInv
  BY InitContract, InitMisses DEF WaiterInv, Init, PanicsComeSecond, DropInv
<1> DEFINE DInv == (OneStart => DriverInv) /\ DropInv
<1>2. TypeOK /\ ContractInv /\ [Next]_vars => ContractInv'
  BY ContractInvStep
<1>3. TypeOK /\ (DroppedIsQuiet /\ PanicsComeSecond) /\ [Next]_vars
        => (DroppedIsQuiet /\ PanicsComeSecond)'
  BY DroppedIsQuietStep, PanicsStep
<1>4. TypeOK /\ IInv /\ ContractInv /\ DroppedIsQuiet /\ DInv /\ [Next]_vars => DInv'
  <2> SUFFICES ASSUME TypeOK, IInv, ContractInv, DroppedIsQuiet, DInv, [Next]_vars, OneStart'
               PROVE  DriverInv' /\ DropInv'
    BY DEF DropInv
  <2>1. OneStart
    BY MadeStaysMade DEF OneStart
  <2> QED
    BY <2>1, DriverInvStep, DropInvStep
<1>5. TypeOK /\ CountInv /\ ContractInv /\ DroppedIsQuiet /\ PanicsComeSecond /\ DInv
        => LeaksAreEnding
  <2> SUFFICES ASSUME TypeOK, CountInv, ContractInv, DroppedIsQuiet, PanicsComeSecond,
                      DropInv, OneStart, dropped, \A t \in Threads : pc[t] # "abandoned",
                      NEW h \in Handles, driver[h] # "Free",
                      destructor \notin {"pending", "failed"}
               PROVE  driver[h] \in {"Cancelling"} \cup TerminalStatus
    BY OneIsRecorded DEF LeaksAreEnding
  <2>1. h = h_cop /\ h_cop # NoCop
    BY OneIsRecorded, PrimitiveAssumption
  <2> QED
    BY <2>1 DEF DropInv
<1>6. Init => CountInv /\ DInv
  BY <1>1, InitCount
<1>7. TypeOK /\ CountInv /\ [Next]_vars => CountInv'
  BY NextCount
<1> HIDE DEF DInv
<1> QED
  BY <1>1, <1>2, <1>3, <1>4, <1>5, <1>6, <1>7, TypeCorrect, Inductive, PTL DEF Spec

=============================================================================
