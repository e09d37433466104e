---------------------------- MODULE EventDispatch ----------------------------
(***************************************************************************)
(* How an event of the driver reaches the object it is for.  The driver    *)
(* calls event_callback (event_callback/mod.rs), which drains the event    *)
(* queue of a ComLogicalLink into a local vector and then routes each event*)
(* by its tag through PduHandleManager (handle_manager/mod.rs), which      *)
(* knows every object by weak references and collects the entries of those *)
(* that are gone.  An object is a ComPrimitive of the link, or the link.   *)
(***************************************************************************)
EXTENDS Naturals, Sequences, FiniteSets

CONSTANTS
  Objects,     \* objects with a tag
  Callbacks,   \* threads of the driver that may run the callback
  DriverModes, \* whether the driver runs its callbacks one at a time
  MaxEvents,   \* bound on the events of each object
  MaxFailures  \* bound on failing calls of PDUGetEventItem

NoSender == "no_sender"

ASSUME DispatchAssumption ==
  /\ NoSender \notin Objects
  /\ DriverModes \subseteq BOOLEAN
  /\ MaxEvents \in [Objects -> Nat] /\ MaxFailures \in Nat

\* The n-th event of an object.
Event == UNION {[to : {o}, n : 1 .. MaxEvents[o]] : o \in Objects}

VARIABLES
  serial,    \* the driver runs one callback at a time
  queue,     \* the driver's event queue of the link
  emitted,   \* how many events the driver has made for each object
  lost,      \* history: items the driver failed to hand over
  failures,  \* failing calls so far
  object,    \* the life of each object
  registry,  \* its entry in the handle manager
  channel,   \* its event channel: what was sent
  open,      \* the receiver of its channel is alive
  where,     \* what each callback does next
  events,    \* its local vector
  sender     \* the object whose sender it has upgraded

driverVars == <<serial, queue, emitted, lost, failures>>
callbackVars == <<where, events, sender>>
vars == <<driverVars, object, registry, channel, open, callbackVars>>

\* Strong senders of the channel: the object's own, and upgraded ones.
HasSender(o) == object[o] = "alive" \/ \E k \in Callbacks : sender[k] = o

-----------------------------------------------------------------------------
(***************************************************************************)
(* The objects.                                                            *)
(***************************************************************************)

\* create_primitive(), create_logical_link(): the sender is registered before
\* the object exists, and its reference afterwards.
Create(o) ==
  /\ object[o] = "none"
  /\ object' = [object EXCEPT ![o] = "alive"]
  /\ registry' = [registry EXCEPT ![o] = "sender"]
  /\ UNCHANGED <<driverVars, channel, open, callbackVars>>

RegisterReference(o) ==
  /\ object[o] = "alive" /\ registry[o] = "sender"
  /\ registry' = [registry EXCEPT ![o] = "full"]
  /\ UNCHANGED <<driverVars, object, channel, open, callbackVars>>

\* The object is dropped, and its sender with it.
Drop(o) ==
  /\ object[o] = "alive"
  /\ object' = [object EXCEPT ![o] = "dropped"]
  /\ UNCHANGED <<driverVars, registry, channel, open, callbackVars>>

\* The listener returns: at the end of a primitive, or when every sender is
\* gone.
ListenerStops(o) ==
  /\ object[o] # "none" /\ open[o]
  /\ open' = [open EXCEPT ![o] = FALSE]
  /\ UNCHANGED <<driverVars, object, registry, channel, callbackVars>>

ListenerClosed(o) ==
  /\ object[o] = "dropped" /\ ~HasSender(o)
  /\ ListenerStops(o)

\* The collector keeps the entries whose sender can still be upgraded.
\* Mutation: it keeps those whose reference is registered.
KeepReferenced(o) == registry[o] = "full"
Keep(o) == HasSender(o)

Collect ==
  /\ registry' = [o \in Objects |-> IF Keep(o) THEN registry[o] ELSE "absent"]
  /\ registry' # registry
  /\ UNCHANGED <<driverVars, object, channel, open, callbackVars>>

-----------------------------------------------------------------------------
(***************************************************************************)
(* The driver.                                                             *)
(***************************************************************************)

\* An event for an object it has the tag of; the object may be gone by now.
Emit(o) ==
  /\ object[o] # "none" /\ emitted[o] < MaxEvents[o]
  /\ emitted' = [emitted EXCEPT ![o] = @ + 1]
  /\ queue' = Append(queue, [to |-> o, n |-> emitted[o] + 1])
  /\ UNCHANGED <<serial, lost, failures, object, registry, channel, open,
                 callbackVars>>

\* It calls the callback.
CallBack(k) ==
  /\ where[k] = "away" /\ queue # <<>>
  /\ serial => \A j \in Callbacks : where[j] = "away"
  /\ where' = [where EXCEPT ![k] = "drain"]
  /\ UNCHANGED <<driverVars, object, registry, channel, open, events, sender>>

-----------------------------------------------------------------------------
(***************************************************************************)
(* event_callback().                                                       *)
(***************************************************************************)

\* PDUGetEventItem and PDUDestroyItem.
Take(k) ==
  /\ queue # <<>>
  /\ queue' = Tail(queue)
  /\ events' = [events EXCEPT ![k] = Append(@, Head(queue))]
  /\ UNCHANGED <<lost, failures, where>>

\* The queue is empty, or the call fails: the drain loop ends.  An item that
\* was read and could not be destroyed is dropped.
TakeEnds(k) ==
  /\ \/ queue = <<>> /\ UNCHANGED <<queue, lost, failures>>
     \/ /\ failures < MaxFailures
        /\ failures' = failures + 1
        /\ \/ UNCHANGED <<queue, lost>>
           \/ /\ queue # <<>>
              /\ queue' = Tail(queue) /\ lost' = lost \cup {Head(queue)}
  /\ where' = [where EXCEPT ![k] = "route"]
  /\ UNCHANGED events

Drain(k) ==
  /\ where[k] = "drain"
  /\ Take(k) \/ TakeEnds(k)
  /\ UNCHANGED <<serial, emitted, object, registry, channel, open, sender>>

\* Which event of the vector is next, and the rest.
\* Mutation: the vector is emptied from its end, as Vec::pop would.
NextIsLast(s) == <<s[Len(s)], SubSeq(s, 1, Len(s) - 1)>>
NextIsFirst(s) == <<Head(s), Tail(s)>>
NextOf(s) == NextIsFirst(s)

\* lookup_cop_event_tx(), lookup_cll_event_tx(): upgrades the sender of the
\* object, if there is an entry and a strong sender; otherwise the event is
\* dropped.
Lookup(k) ==
  /\ where[k] = "route" /\ events[k] # <<>>
  /\ LET o == NextOf(events[k])[1].to IN
       IF registry[o] # "absent" /\ HasSender(o)
         THEN /\ sender' = [sender EXCEPT ![k] = o]
              /\ where' = [where EXCEPT ![k] = "send"]
              /\ UNCHANGED events
         ELSE /\ events' = [events EXCEPT ![k] = NextOf(@)[2]]
              /\ UNCHANGED <<where, sender>>
  /\ UNCHANGED <<driverVars, object, registry, channel, open>>

\* send(), which fails when the receiver is gone; the sender is dropped.
\* Mutation: the callback keeps the sender.
SenderKept(k) == UNCHANGED sender
SenderDropped(k) == sender' = [sender EXCEPT ![k] = NoSender]

Send(k) ==
  /\ where[k] = "send"
  /\ LET e == NextOf(events[k])[1] IN
       channel' = IF open[e.to]
                    THEN [channel EXCEPT ![e.to] = Append(@, e.n)] ELSE channel
  /\ events' = [events EXCEPT ![k] = NextOf(@)[2]]
  /\ where' = [where EXCEPT ![k] = "route"]
  /\ SenderDropped(k)
  /\ UNCHANGED <<driverVars, object, registry, open>>

Return(k) ==
  /\ where[k] = "route" /\ events[k] = <<>>
  /\ where' = [where EXCEPT ![k] = "away"]
  /\ UNCHANGED <<driverVars, object, registry, channel, open, events, sender>>

Callback(k) == Drain(k) \/ Lookup(k) \/ Send(k) \/ Return(k)

-----------------------------------------------------------------------------
Init ==
  /\ serial \in DriverModes
  /\ queue = <<>>
  /\ emitted = [o \in Objects |-> 0]
  /\ lost = {}
  /\ failures = 0
  /\ object = [o \in Objects |-> "none"]
  /\ registry = [o \in Objects |-> "absent"]
  /\ channel = [o \in Objects |-> <<>>]
  /\ open = [o \in Objects |-> TRUE]
  /\ where = [k \in Callbacks |-> "away"]
  /\ events = [k \in Callbacks |-> <<>>]
  /\ sender = [k \in Callbacks |-> NoSender]

Next ==
  \/ \E o \in Objects : \/ Create(o) \/ RegisterReference(o) \/ Drop(o)
                        \/ ListenerStops(o) \/ Emit(o)
  \/ Collect
  \/ \E k \in Callbacks : CallBack(k) \/ Callback(k)

Spec == Init /\ [][Next]_vars

\* A callback that has begun runs to its end, a listener notices that its
\* channel is closed, and the collector comes round every ten seconds.
FairSpec ==
  /\ Spec
  /\ \A k \in Callbacks : WF_vars(Callback(k))
  /\ \A o \in Objects : WF_vars(ListenerClosed(o))
  /\ WF_vars(Collect)

-----------------------------------------------------------------------------
TypeOK ==
  /\ serial \in BOOLEAN
  /\ queue \in Seq(Event) /\ lost \subseteq Event
  /\ emitted \in [Objects -> Nat]
  /\ failures \in 0 .. MaxFailures
  /\ object \in [Objects -> {"none", "alive", "dropped"}]
  /\ registry \in [Objects -> {"absent", "sender", "full"}]
  /\ channel \in [Objects -> Seq(Nat)]
  /\ open \in [Objects -> BOOLEAN]
  /\ where \in [Callbacks -> {"away", "drain", "route", "send"}]
  /\ events \in [Callbacks -> Seq(Event)]
  /\ sender \in [Callbacks -> Objects \cup {NoSender}]
  /\ \A k \in Callbacks :
       /\ where[k] = "away" => events[k] = <<>>
       /\ where[k] = "send" <=> sender[k] # NoSender

\* The events of an object by where they are.
For(o, s) == {s[i].n : i \in {j \in DOMAIN s : s[j].to = o}}

Waiting(o) == For(o, queue) \cup UNION {For(o, events[k]) : k \in Callbacks}
Arrived(o) == {channel[o][i] : i \in DOMAIN channel[o]}
Failed(o) == {e.n : e \in {x \in lost : x.to = o}}

(***************************************************************************)
(* NothingLost: while an object and its listener live, an event the driver *)
(* made for it has arrived, is under way, or was one the driver failed to  *)
(* hand over, even if it came before the object's reference was registered *)
(* and while the collector ran.                                            *)
(***************************************************************************)
NothingLost ==
  \A o \in Objects : (object[o] = "alive" /\ open[o]) =>
    1 .. emitted[o] = Arrived(o) \cup Waiting(o) \cup Failed(o)

(***************************************************************************)
(* ArrivesInOrder: an object gets no event twice, though two callbacks may *)
(* drain the queue at once, and gets its events in the order the driver    *)
(* made them when it runs one callback at a time.  The listener of a       *)
(* primitive relies on it: it stops at the end.                            *)
(***************************************************************************)
ArrivesInOrder ==
  \A o \in Objects : \A i, j \in DOMAIN channel[o] : i < j =>
    /\ channel[o][i] # channel[o][j]
    /\ serial => channel[o][i] < channel[o][j]

(***************************************************************************)
(* DroppedForgotten: after an object is dropped its channel closes, so that*)
(* its listener stops, and its entry is collected.                         *)
(***************************************************************************)
DroppedForgotten ==
  \A o \in Objects : object[o] = "dropped" ~> (~open[o] /\ registry[o] = "absent")

=============================================================================
