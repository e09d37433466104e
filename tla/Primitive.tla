------------------------------ MODULE Primitive ------------------------------
(***************************************************************************)
(* One PduPrimitive (types/pdu_com_primitive.rs): the object the           *)
(* application threads share, the listener that turns the driver's events  *)
(* into primitive events, the broadcast channel the waiters read, and the  *)
(* vendor driver, which is external and known by how the code uses it.     *)
(*                                                                         *)
(* An event is named by what the code tells apart: a status of the         *)
(* primitive, a result, an error, or the start that failed.                *)
(***************************************************************************)
EXTENDS Naturals, Sequences, FiniteSets

CONSTANTS
  Threads,    \* application threads and tasks that hold the primitive
  Starters,   \* those of them that call start() or blocking_start()
  Aborters,   \* tasks whose start() future may be dropped at its await
  Handles,    \* ComPrimitive handles the driver can give out
  Capacity,   \* capacity of the broadcast channel of primitive events
  MaxEvents,  \* bound on the non-terminal events the driver raises
  MaxErrors,  \* bound on the error events among them
  MaxFails    \* bound on the starts the driver refuses

NoCop == "no_cop"
NoThread == "no_thread"
NoEvent == "no_event"

ASSUME PrimitiveAssumption ==
  /\ Starters \subseteq Threads
  /\ Aborters \subseteq Starters
  /\ NoThread \notin Threads
  /\ NoCop \notin Handles
  /\ Capacity \in Nat \ {0}
  /\ {MaxEvents, MaxErrors, MaxFails} \subseteq Nat

AliveStatus == {"Idle", "Executing", "Waiting"}
TerminalStatus == {"Finished", "Cancelled"}
Status == AliveStatus \cup TerminalStatus
PduEvent == Status \cup {"Result", "Error"}
PrimitiveEvent == PduEvent \cup {"StartFailed"}

VARIABLES
  driver,      \* the driver's ComPrimitives, by handle
  emitted,     \* history: the events the driver has raised, in order
  h_cop,       \* the OnceLock with the handle
  pdu_sync,    \* holder of the mutex around driver calls
  pc,          \* what each thread is about to do
  op,          \* the waiting call a thread is in
  started,     \* the handle a start got and has not stored yet
  res,         \* the outcome of a thread's last call
  pdu_events,  \* the queue of driver events the listener reads
  listener,    \* the listener's task
  current,     \* the event the listener has handled but not yet broadcast
  dead,        \* dead_flag
  error,       \* error_store holds an event
  status,      \* status_store
  log,         \* everything sent on the broadcast channel
  first_rx,    \* the receiver made with the channel is still stored
  via,         \* the receiver a thread's last waiting call used
  rx,          \* how much of log that receiver has read
  dropped,     \* the last Arc is gone
  destructor   \* the cancellation Drop asks for

driverVars   == <<driver, emitted>>
listenerVars == <<listener, current, dead, error, status>>
threadVars   == <<pc, op, started, res, first_rx, via, rx>>
dropVars     == <<dropped, destructor>>
vars == <<driverVars, h_cop, pdu_sync, threadVars, pdu_events, listenerVars,
          log, dropVars>>

Has(s, e) == \E i \in DOMAIN s : s[i] = e
HasTerminal(s) == \E i \in DOMAIN s : s[i] \in TerminalStatus
Count(s, e) == Cardinality({i \in DOMAIN s : s[i] = e})

LiveDriver == AliveStatus \cup {"Cancelling"}

-----------------------------------------------------------------------------
(***************************************************************************)
(* The driver.  Its event callback hands the events it raises to the       *)
(* primitive's queue, while the primitive is there to be looked up and its *)
(* listener keeps the queue open.                                          *)
(***************************************************************************)
Raise(e) ==
  /\ emitted' = Append(emitted, e)
  /\ pdu_events' = IF ~dropped /\ listener = "running"
                   THEN Append(pdu_events, e) ELSE pdu_events
  /\ UNCHANGED <<h_cop, pdu_sync, threadVars, listenerVars, log, dropVars>>

\* The driver moves a primitive to another status and reports it.
DriverStatus(h) ==
  \E s \in Status \ {"Idle"} :
    /\ \/ driver[h] \in AliveStatus /\ s # driver[h]
       \/ driver[h] = "Cancelling" /\ s \in TerminalStatus
    /\ s \in AliveStatus => Len(emitted) < MaxEvents
    /\ driver' = [driver EXCEPT ![h] = s]
    /\ Raise(s)

DriverResult(h) ==
  /\ driver[h] \in {"Executing", "Waiting"}
  /\ Len(emitted) < MaxEvents
  /\ Raise("Result")
  /\ UNCHANGED driver

DriverError(h) ==
  /\ driver[h] \in {"Executing", "Waiting"}
  /\ Len(emitted) < MaxEvents
  /\ Count(emitted, "Error") < MaxErrors
  /\ Raise("Error")
  /\ UNCHANGED driver

Driver(h) == DriverStatus(h) \/ DriverResult(h) \/ DriverError(h)

\* PDUCancelComPrimitive: the end is reported later, by a status event.
CancelledBy(h) ==
  IF driver[h] \in AliveStatus THEN [driver EXCEPT ![h] = "Cancelling"] ELSE driver

-----------------------------------------------------------------------------
(***************************************************************************)
(* The listener: listen_events() and handle_event().                       *)
(***************************************************************************)

\* A plausible slip (a mutation, used by no action): the cancelled primitive
\* is not taken for a dead one.
DeadAfterFinishOnly(e) == dead \/ e = "Finished"
DeadAfter(e) == dead \/ e \in TerminalStatus

\* Mutation: the error is sent but not stored.
ErrorNeverStored(e) == error
ErrorAfter(e) == error \/ e = "Error"

\* Mutation: the listener outlives a cancelled primitive.
StopsAtFinishOnly(e) == e = "Finished"
StopsAt(e) == e \in TerminalStatus

\* Takes the next event and sets the flag it stands for.  A second error
\* panics: error_store is a OnceLock and its set() is expected to succeed.
ListenTake ==
  /\ listener = "running" /\ current = NoEvent /\ pdu_events # <<>>
  /\ LET e == Head(pdu_events)
         panics == e = "Error" /\ error
     IN /\ listener' = IF panics THEN "panicked" ELSE listener
        /\ current' = IF panics THEN NoEvent ELSE e
        /\ pdu_events' = IF panics THEN <<>> ELSE Tail(pdu_events)
        /\ dead' = DeadAfter(e)
        /\ error' = ErrorAfter(e)
  /\ UNCHANGED <<driverVars, h_cop, pdu_sync, threadVars, status, log, dropVars>>

\* Stores the status and broadcasts the event; the end stops the listener.
ListenPublish ==
  /\ listener = "running" /\ current # NoEvent
  /\ log' = Append(log, current)
  /\ status' = IF current \in Status THEN current ELSE status
  /\ IF StopsAt(current)
     THEN listener' = "stopped" /\ pdu_events' = <<>>
     ELSE UNCHANGED <<listener, pdu_events>>
  /\ current' = NoEvent
  /\ UNCHANGED <<driverVars, h_cop, pdu_sync, threadVars, dead, error, dropVars>>

\* Drop closed the queue and it has been emptied.
ListenClosed ==
  /\ listener = "running" /\ current = NoEvent /\ pdu_events = <<>> /\ dropped
  /\ listener' = "stopped"
  /\ UNCHANGED <<driverVars, h_cop, pdu_sync, threadVars, pdu_events, current,
                 dead, error, status, log, dropVars>>

Listen == ListenTake \/ ListenPublish \/ ListenClosed

-----------------------------------------------------------------------------
(***************************************************************************)
(* start() and blocking_start().  assert_not_started() runs before the     *)
(* mutex is taken; the driver call and the store of its handle follow.     *)
(***************************************************************************)
Goto(t, l) == pc' = [pc EXCEPT ![t] = l]
Return(t, r) == Goto(t, "idle") /\ res' = [res EXCEPT ![t] = r]
Enter(t, l) == Goto(t, l) /\ res' = [res EXCEPT ![t] = "none"]

NotStarted == h_cop = NoCop

StartCheck(t) ==
  /\ pc[t] = "idle" /\ ~dropped /\ t \in Starters
  /\ \/ NotStarted /\ Enter(t, "start_call")
     \/ ~NotStarted /\ Return(t, "AlreadyStarted")
  /\ UNCHANGED <<driverVars, h_cop, pdu_sync, op, started, first_rx, via, rx,
                 pdu_events, listenerVars, log, dropVars>>

\* A task with a worker does not take the mutex (start(), 299-326); a thread
\* keeps it until the handle is stored.
StartCall(t) ==
  /\ pc[t] = "start_call"
  /\ t \notin Aborters => pdu_sync = NoThread
  /\ \/ /\ \E h \in Handles :
             /\ driver[h] = "Free"
             /\ driver' = [driver EXCEPT ![h] = "Idle"]
             /\ started' = [started EXCEPT ![t] = h]
        /\ Goto(t, "start_record")
        /\ pdu_sync' = IF t \in Aborters THEN pdu_sync ELSE t
        /\ UNCHANGED <<log, res>>
     \/ /\ Count(log, "StartFailed") < MaxFails
        /\ log' = Append(log, "StartFailed")
        /\ Return(t, "ApiError")
        /\ UNCHANGED <<driver, pdu_sync, started>>
  /\ UNCHANGED <<emitted, h_cop, op, first_rx, via, rx, pdu_events,
                 listenerVars, dropVars>>

\* Mutation: the result of h_cop.set() is ignored.
StartRecordIgnored(t) ==
  /\ pc[t] = "start_record"
  /\ h_cop' = IF h_cop = NoCop THEN started[t] ELSE h_cop
  /\ Return(t, "Started")
  /\ started' = [started EXCEPT ![t] = NoCop]
  /\ pdu_sync' = IF pdu_sync = t THEN NoThread ELSE pdu_sync
  /\ UNCHANGED <<driverVars, op, first_rx, via, rx, pdu_events, listenerVars,
                 log, dropVars>>

\* h_cop.set(..).expect(..): panics when another start stored its handle.
StartRecord(t) ==
  /\ pc[t] = "start_record"
  /\ IF h_cop = NoCop
     THEN h_cop' = started[t] /\ Return(t, "Started")
     ELSE Goto(t, "panicked") /\ UNCHANGED <<h_cop, res>>
  /\ started' = [started EXCEPT ![t] = NoCop]
  /\ pdu_sync' = IF pdu_sync = t THEN NoThread ELSE pdu_sync
  /\ UNCHANGED <<driverVars, op, first_rx, via, rx, pdu_events, listenerVars,
                 log, dropVars>>

\* The future of start() is dropped while the worker serves it, and the task
\* with it: nobody stores the handle.
StartAbort(t) ==
  /\ pc[t] = "start_record" /\ t \in Aborters
  /\ started' = [started EXCEPT ![t] = NoCop]
  /\ Goto(t, "abandoned") /\ UNCHANGED res
  /\ UNCHANGED <<driverVars, h_cop, pdu_sync, op, first_rx, via, rx, pdu_events,
                 listenerVars, log, dropVars>>

-----------------------------------------------------------------------------
(***************************************************************************)
(* cancel() and blocking_cancel().                                         *)
(***************************************************************************)
CancelCheck(t) ==
  /\ pc[t] = "idle" /\ ~dropped
  /\ \/ h_cop = NoCop /\ Return(t, "NotStarted")
     \/ h_cop # NoCop /\ dead /\ Return(t, "Destroyed")
     \/ h_cop # NoCop /\ ~dead /\ Enter(t, "cancel_call")
  /\ UNCHANGED <<driverVars, h_cop, pdu_sync, op, started, first_rx, via, rx,
                 pdu_events, listenerVars, log, dropVars>>

\* The driver takes the request or refuses it; a task with a worker does not
\* wait for the mutex (cancel(), 525-532).
CancelCall(t) ==
  /\ pc[t] = "cancel_call"
  /\ t \notin Aborters => pdu_sync = NoThread
  /\ \/ driver' = CancelledBy(h_cop) /\ Return(t, "Cancelled")
     \/ UNCHANGED driver /\ Return(t, "ApiError")
  /\ UNCHANGED <<emitted, h_cop, pdu_sync, op, started, first_rx, via, rx,
                 pdu_events, listenerVars, log, dropVars>>

-----------------------------------------------------------------------------
(***************************************************************************)
(* get_result() and wait_finish(), blocking or not, with                   *)
(* get_primitive_event_receiver(), which takes the receiver's mutex twice. *)
(***************************************************************************)
Waits == {"get_result", "wait_finish"}

\* assert_started() and assert_error().
WaitCheck(t) ==
  /\ pc[t] = "idle" /\ ~dropped
  /\ \E w \in Waits : op' = [op EXCEPT ![t] = w]
  /\ via' = [via EXCEPT ![t] = "none"]
  /\ \/ h_cop = NoCop /\ Return(t, "NotStarted")
     \/ h_cop # NoCop /\ error /\ Return(t, "Error")
     \/ h_cop # NoCop /\ ~error /\ Enter(t, "rx_dead")
  /\ UNCHANGED <<driverVars, h_cop, pdu_sync, started, first_rx, rx, pdu_events,
                 listenerVars, log, dropVars>>

\* assert_dead(), unless the first receiver has not been taken.
RxCheckDead(t) ==
  /\ pc[t] = "rx_dead"
  /\ IF ~first_rx /\ dead THEN Return(t, "Destroyed")
                          ELSE Goto(t, "rx_take") /\ UNCHANGED res
  /\ UNCHANGED <<driverVars, h_cop, pdu_sync, op, started, first_rx, via, rx,
                 pdu_events, listenerVars, log, dropVars>>

\* take() gives the receiver made with the channel, or a new subscription,
\* which sees what is sent from now on.
\* Mutation: the stored receiver is never used.
AlwaysSubscribe == Len(log)
FirstUnread == IF first_rx THEN 0 ELSE Len(log)

RxTake(t) ==
  /\ pc[t] = "rx_take"
  /\ rx' = [rx EXCEPT ![t] = FirstUnread]
  /\ via' = [via EXCEPT ![t] = IF first_rx THEN "first" ELSE "later"]
  /\ first_rx' = FALSE
  /\ Goto(t, "recv")
  /\ UNCHANGED <<driverVars, h_cop, pdu_sync, op, started, res, pdu_events,
                 listenerVars, log, dropVars>>

Lagged(t) == Len(log) - rx[t] > Capacity

\* What leaving the receive loop without a result or an error returns.
Fallthrough(t) == IF op[t] = "wait_finish" THEN "Ok" ELSE "RxTimeout"

\* Mutations: a waiting primitive is not taken for a live one; a cancelled one
\* is; any event at all is returned.
AnswerToWaiting(t, e) ==
  IF e = "Error" \/ (e = "Result" /\ op[t] = "get_result") THEN e
  ELSE IF e \in TerminalStatus \cup {"Waiting"} THEN Fallthrough(t) ELSE "none"
AnswerToFinishOnly(t, e) ==
  IF e = "Error" \/ (e = "Result" /\ op[t] = "get_result") THEN e
  ELSE IF e = "Finished" THEN Fallthrough(t) ELSE "none"
AnswerToAnything(t, e) == e

\* What an event makes the loop return; "none" for the events it passes over.
AnswerTo(t, e) ==
  IF e = "Error" \/ (e = "Result" /\ op[t] = "get_result") THEN e
  ELSE IF e \in TerminalStatus THEN Fallthrough(t) ELSE "none"

\* recv() fails with Lagged when the channel has overwritten unread events;
\* "while let Ok(..)" leaves the loop then, too.
Recv(t) ==
  /\ pc[t] = "recv" /\ rx[t] < Len(log)
  /\ LET a == IF Lagged(t) THEN Fallthrough(t) ELSE AnswerTo(t, log[rx[t] + 1])
     IN \/ a # "none" /\ Return(t, a) /\ UNCHANGED rx
        \/ a = "none" /\ rx' = [rx EXCEPT ![t] = @ + 1] /\ UNCHANGED <<pc, res>>
  /\ UNCHANGED <<driverVars, h_cop, pdu_sync, op, started, first_rx, via,
                 pdu_events, listenerVars, log, dropVars>>

-----------------------------------------------------------------------------
(***************************************************************************)
(* Drop.  The calls borrow the object, so none is in progress.             *)
(***************************************************************************)
\* Mutation: the test of the dead flag is inverted.
DropCancelsDead == h_cop # NoCop /\ dead
DropCancels == h_cop # NoCop /\ ~dead

Drop ==
  /\ ~dropped
  /\ \A t \in Threads : pc[t] \in {"idle", "panicked", "abandoned"}
  /\ dropped' = TRUE
  /\ destructor' = IF DropCancels THEN "pending" ELSE "none"
  /\ UNCHANGED <<driverVars, h_cop, pdu_sync, threadVars, pdu_events,
                 listenerVars, log>>

\* vt_cop_destructor, on the worker or on a thread of its own: it reads the
\* status and cancels what is alive.  It stops when the status cannot be read,
\* and the driver may refuse the cancellation; nobody asks again.
Destruct ==
  /\ destructor = "pending"
  /\ \/ driver' = CancelledBy(h_cop) /\ destructor' = "done"
     \/ UNCHANGED driver /\ destructor' = "failed"
  /\ UNCHANGED <<emitted, h_cop, pdu_sync, threadVars, pdu_events,
                 listenerVars, log, dropped>>

-----------------------------------------------------------------------------
Init ==
  /\ driver = [h \in Handles |-> "Free"]
  /\ emitted = <<>>
  /\ h_cop = NoCop
  /\ pdu_sync = NoThread
  /\ pc = [t \in Threads |-> "idle"]
  /\ op = [t \in Threads |-> "none"]
  /\ started = [t \in Threads |-> NoCop]
  /\ res = [t \in Threads |-> "none"]
  /\ pdu_events = <<>>
  /\ listener = "running"
  /\ current = NoEvent
  /\ dead = FALSE
  /\ error = FALSE
  /\ status = "Created"
  /\ log = <<>>
  /\ first_rx = TRUE
  /\ via = [t \in Threads |-> "none"]
  /\ rx = [t \in Threads |-> 0]
  /\ dropped = FALSE
  /\ destructor = "none"

Start(t)  == StartCheck(t) \/ StartCall(t) \/ StartRecord(t) \/ StartAbort(t)
Cancel(t) == CancelCheck(t) \/ CancelCall(t)
Wait(t)   == WaitCheck(t) \/ RxCheckDead(t) \/ RxTake(t) \/ Recv(t)

Next ==
  \/ \E h \in Handles : Driver(h)
  \/ Listen
  \/ \E t \in Threads : Start(t) \/ Cancel(t) \/ Wait(t)
  \/ Drop
  \/ Destruct

Spec == Init /\ [][Next]_vars

(***************************************************************************)
(* Fairness.  The listener runs on a thread or a runtime task of its own,  *)
(* a call that has begun is run to its end, the destructor's request is    *)
(* served, and the driver ends a primitive it was told to cancel.  No      *)
(* caller has to call anything and the driver need not end by itself.      *)
(***************************************************************************)
CancelEnds(h) == driver[h] = "Cancelling" /\ DriverStatus(h)
InCall(t) == \/ StartCall(t) \/ StartRecord(t) \/ CancelCall(t)
             \/ RxCheckDead(t) \/ RxTake(t) \/ Recv(t)

FairSpec ==
  /\ Spec
  /\ WF_vars(Listen)
  /\ WF_vars(Destruct)
  /\ \A h \in Handles : WF_vars(CancelEnds(h))
  /\ \A t \in Threads : WF_vars(InCall(t))

-----------------------------------------------------------------------------
(***************************************************************************)
(* Properties.                                                             *)
(***************************************************************************)
DriverState == LiveDriver \cup TerminalStatus \cup {"Free"}
Label == {"idle", "start_call", "start_record", "cancel_call", "rx_dead",
          "rx_take", "recv", "panicked", "abandoned"}
Answer == {"none", "Started", "AlreadyStarted", "ApiError",
           "NotStarted", "Destroyed", "Cancelled", "Error", "Result", "Ok",
           "RxTimeout"}

DriverType ==
  /\ driver \in [Handles -> DriverState]
  /\ emitted \in Seq(PduEvent)

CallType ==
  /\ h_cop \in Handles \cup {NoCop}
  /\ pdu_sync \in Threads \cup {NoThread}
  /\ pc \in [Threads -> Label]
  /\ op \in [Threads -> Waits \cup {"none"}]
  /\ started \in [Threads -> Handles \cup {NoCop}]
  /\ res \in [Threads -> Answer]

ReceiverType ==
  /\ first_rx \in BOOLEAN
  /\ via \in [Threads -> {"none", "first", "later"}]
  /\ rx \in [Threads -> Nat]

ListenerType ==
  /\ pdu_events \in Seq(PduEvent)
  /\ listener \in {"running", "stopped", "panicked"}
  /\ current \in PduEvent \cup {NoEvent}
  /\ dead \in BOOLEAN
  /\ error \in BOOLEAN
  /\ status \in Status \cup {"Created"}
  /\ log \in Seq(PrimitiveEvent)

DropType ==
  /\ dropped \in BOOLEAN
  /\ destructor \in {"none", "pending", "done", "failed"}

TypeOK == DriverType /\ CallType /\ ReceiverType /\ ListenerType /\ DropType

\* An event that reached the waiters is already visible in the flags: whoever
\* reads the end from the channel finds is_dead() true, whoever reads an error
\* finds get_error() set (handle_event() stores before it sends).
FlagsLeadEvents ==
  /\ HasTerminal(log) => dead
  /\ Has(log, "Error") => error

\* Nothing of the primitive's execution follows its end on the channel:
\* handle_event() makes the listener stop at the terminal status.
EndIsLast ==
  \A i \in DOMAIN log : log[i] \in TerminalStatus =>
    \A j \in DOMAIN log : j > i => log[j] = "StartFailed"

\* wait_finish() returns Ok, and get_result() gives up with RxTimeout, only
\* when the listener has seen the primitive's end.
WaitersLeaveAtTheEnd ==
  \A t \in Threads : res[t] \in {"Ok", "RxTimeout"} => dead

\* The waiter with the first receiver misses nothing: it does not report a
\* timeout for a primitive that had a result, nor Ok for one that had an error
\* (get_primitive_event_receiver() keeps the events sent before it is called).
FirstWaiterMissesNothing ==
  \A t \in Threads : via[t] = "first" =>
    /\ res[t] = "RxTimeout" => ~Has(emitted, "Result") /\ ~Has(emitted, "Error")
    /\ res[t] = "Ok" => ~Has(emitted, "Error")

\* No ComPrimitive is lost between threads that race to start: each one is
\* recorded, about to be recorded, or the loss of a start that panicked on
\* finding another one recorded or whose future was dropped.
EveryHandleAccounted ==
  Cardinality({h \in Handles : driver[h] # "Free"}) =
    Cardinality({h \in Handles : h_cop = h})
      + Cardinality({t \in Threads : pc[t] \in {"start_record", "panicked", "abandoned"}})

\* "primitive was reported as not started but already has primitive handle"
\* (the expect() of both starts).
NoStartPanic == \A t \in Threads : pc[t] # "panicked"

\* A waiter with the first receiver leaves recv() once the driver has ended
\* the primitive.
FirstWaiterReturns ==
  \A t \in Threads, h \in Handles :
    (pc[t] = "recv" /\ via[t] = "first" /\ driver[h] \in TerminalStatus)
      ~> pc[t] # "recv"

\* A waiter does not wait for an end that has been broadcast and that it cannot
\* read: it would wait for ever, and the documentation of wait_finish() says it
\* "returns when the primitive reaches a terminal state".
NobodyLeftBehind ==
  \A t \in Threads :
    pc[t] = "recv" /\ (\E i \in DOMAIN log : log[i] \in TerminalStatus) =>
      rx[t] < Len(log)

\* Either of the two holds.  Each is false alone; one behaviour, of two racing
\* starts and a waiter that comes late, refutes both.
StartsOrWaiters == NoStartPanic \/ NobodyLeftBehind

\* A cancel() the driver accepted ends the primitive, and the end is seen,
\* unless a second error event has made the listener panic (the expect() on
\* the error store): it takes no event after that.
CancelTakesEffect ==
  \A t \in Threads :
    res[t] = "Cancelled" ~> (dead \/ dropped \/ listener = "panicked")

\* Dropping the object leaves no ComPrimitive running in the driver: whatever
\* the listener had seen of its end, the primitive ends, unless the calls of
\* the destructor failed, which are not repeated.
NothingLeaks ==
  \A h \in Handles :
    (dropped /\ driver[h] # "Free")
      ~> (driver[h] \in TerminalStatus \/ destructor = "failed")

-----------------------------------------------------------------------------
(***************************************************************************)
(* What a caller is promised, whatever the listener and the channel do.    *)
(***************************************************************************)
phase ==
  IF dead THEN "Ended"
  ELSE IF \E h \in Handles : driver[h] # "Free" THEN "Started" ELSE "NotStarted"

Contract == INSTANCE PrimitiveContract WITH failed <- error

ContractSpec == Contract!Spec

=============================================================================
