--------------------------- MODULE DispatchProofs ---------------------------
(***************************************************************************)
(* Proofs about EventDispatch: its types, that no event of a living object *)
(* is lost, and that none arrives twice or, with serial callbacks, out of  *)
(* order.                                                                  *)
(***************************************************************************)
EXTENDS EventDispatch, SequenceTheorems, TLAPS

-----------------------------------------------------------------------------
(***************************************************************************)
(* Types.                                                                  *)
(***************************************************************************)

\* An event has an object and a number.
LEMMA EventFields ==
  /\ \A e \in Event : e.to \in Objects /\ e.n \in 1 .. MaxEvents[e.to]
  /\ \A o \in Objects : \A n \in 1 .. MaxEvents[o] : [to |-> o, n |-> n] \in Event
BY DEF Event

LEMMA InitType == Init => TypeOK
BY DispatchAssumption DEF Init, TypeOK

\* The objects and the driver keep the types.
LEMMA ObjectsType ==
  ASSUME TypeOK, NEW o \in Objects,
         Create(o) \/ RegisterReference(o) \/ Drop(o) \/ ListenerStops(o)
  PROVE  TypeOK'
<1> USE DEF TypeOK, driverVars, callbackVars
<1>1. CASE Create(o)
  BY <1>1 DEF Create
<1>2. CASE RegisterReference(o)
  BY <1>2 DEF RegisterReference
<1>3. CASE Drop(o)
  BY <1>3 DEF Drop
<1>4. CASE ListenerStops(o)
  BY <1>4 DEF ListenerStops
<1> QED
  BY <1>1, <1>2, <1>3, <1>4

LEMMA EmitType ==
  ASSUME TypeOK, NEW o \in Objects, Emit(o)
  PROVE  TypeOK'
<1>1. emitted[o] + 1 \in 1 .. MaxEvents[o]
  <2>1. emitted[o] \in Nat /\ MaxEvents[o] \in Nat
    BY DispatchAssumption DEF TypeOK
  <2> QED
    BY <2>1 DEF Emit
<1>2. [to |-> o, n |-> emitted[o] + 1] \in Event
  BY <1>1, EventFields
<1>3. queue' \in Seq(Event)
  BY <1>2 DEF TypeOK, Emit
<1>4. emitted' \in [Objects -> Nat]
  BY DEF TypeOK, Emit
<1> QED
  BY <1>3, <1>4 DEF TypeOK, Emit, callbackVars

LEMMA CollectType == TypeOK /\ Collect => TypeOK'
BY DEF TypeOK, Collect, driverVars, callbackVars

LEMMA CallBackType ==
  ASSUME TypeOK, NEW k \in Callbacks, CallBack(k)
  PROVE  TypeOK'
BY DEF TypeOK, CallBack, driverVars

\* So does each step of a callback.
LEMMA DrainType ==
  ASSUME TypeOK, NEW k \in Callbacks, Drain(k)
  PROVE  TypeOK'
<1>1. CASE Take(k)
  <2>1. Head(queue) \in Event /\ Tail(queue) \in Seq(Event)
    BY <1>1 DEF TypeOK, Take
  <2>2. events' \in [Callbacks -> Seq(Event)] /\ queue' \in Seq(Event)
    BY <1>1, <2>1 DEF TypeOK, Take
  <2> QED
    BY <1>1, <2>2 DEF TypeOK, Drain, Take
<1>2. CASE TakeEnds(k)
  <2>1. queue # <<>> => Head(queue) \in Event /\ Tail(queue) \in Seq(Event)
    BY DEF TypeOK
  <2>2. queue' \in Seq(Event) /\ lost' \subseteq Event
    BY <1>2, <2>1 DEF TypeOK, TakeEnds
  <2>3. failures' \in 0 .. MaxFailures
    <3>1. failures \in 0 .. MaxFailures /\ MaxFailures \in Nat
      BY DispatchAssumption DEF TypeOK
    <3>2. \/ failures' = failures
          \/ failures < MaxFailures /\ failures' = failures + 1
      BY <1>2 DEF TakeEnds
    <3> QED
      BY <3>1, <3>2
  <2> QED
    BY <1>2, <2>2, <2>3 DEF TypeOK, Drain, TakeEnds
<1> QED
  BY <1>1, <1>2 DEF Drain

\* What a callback with events routes next, and what it leaves.
LEMMA NextEvent ==
  ASSUME TypeOK, NEW k \in Callbacks, events[k] # <<>>
  PROVE  /\ NextOf(events[k])[1] = Head(events[k])
         /\ NextOf(events[k])[2] = Tail(events[k])
         /\ Head(events[k]) \in Event /\ Tail(events[k]) \in Seq(Event)
         /\ Head(events[k]).to \in Objects /\ Head(events[k]).to # NoSender
         /\ Head(events[k]).n \in Nat
<1>1. events[k] \in Seq(Event)
  BY DEF TypeOK
<1>2. Head(events[k]) \in Event /\ Tail(events[k]) \in Seq(Event)
  BY <1>1
<1>3. /\ Head(events[k]).to \in Objects
      /\ Head(events[k]).n \in 1 .. MaxEvents[Head(events[k]).to]
  BY <1>2, EventFields
<1>4. Head(events[k]).n \in Nat
  BY <1>3, DispatchAssumption
<1>5. /\ NextOf(events[k])[1] = Head(events[k])
      /\ NextOf(events[k])[2] = Tail(events[k])
  BY DEF NextOf, NextIsFirst
<1> QED
  BY <1>2, <1>3, <1>4, <1>5, DispatchAssumption

LEMMA LookupType ==
  ASSUME TypeOK, NEW k \in Callbacks, Lookup(k)
  PROVE  TypeOK'
<1> DEFINE o == Head(events[k]).to
<1>1. /\ o \in Objects /\ o # NoSender /\ Tail(events[k]) \in Seq(Event)
      /\ NextOf(events[k])[1].to = o /\ NextOf(events[k])[2] = Tail(events[k])
  BY NextEvent DEF Lookup
<1>2. \/ /\ sender' = [sender EXCEPT ![k] = o]
         /\ where' = [where EXCEPT ![k] = "send"]
         /\ UNCHANGED events
      \/ /\ events' = [events EXCEPT ![k] = Tail(events[k])]
         /\ UNCHANGED <<where, sender>>
  BY <1>1 DEF Lookup
<1>3. /\ where \in [Callbacks -> {"away", "drain", "route", "send"}]
      /\ where[k] = "route" /\ sender \in [Callbacks -> Objects \cup {NoSender}]
      /\ events \in [Callbacks -> Seq(Event)]
  BY DEF TypeOK, Lookup
<1>4. /\ where' \in [Callbacks -> {"away", "drain", "route", "send"}]
      /\ events' \in [Callbacks -> Seq(Event)]
      /\ sender' \in [Callbacks -> Objects \cup {NoSender}]
  BY <1>1, <1>2, <1>3
<1>5. \A j \in Callbacks :
        /\ where'[j] = "away" => events'[j] = <<>>
        /\ where'[j] = "send" <=> sender'[j] # NoSender
  BY <1>1, <1>2, <1>3 DEF TypeOK
<1> QED
  BY <1>4, <1>5 DEF TypeOK, Lookup, driverVars

\* A callback that sends has an event.
SendHasEvent == \A k \in Callbacks : where[k] = "send" => events[k] # <<>>

LEMMA SendType ==
  ASSUME TypeOK, SendHasEvent, NEW k \in Callbacks, Send(k)
  PROVE  TypeOK'
<1> DEFINE e == Head(events[k])
<1>1. events[k] # <<>>
  BY DEF Send, SendHasEvent
<1>2. /\ e.to \in Objects /\ e.n \in Nat /\ Tail(events[k]) \in Seq(Event)
      /\ NextOf(events[k])[1] = e /\ NextOf(events[k])[2] = Tail(events[k])
  BY <1>1, NextEvent
<1>3. channel' \in [Objects -> Seq(Nat)]
  BY <1>2 DEF TypeOK, Send
<1> QED
  BY <1>2, <1>3 DEF TypeOK, Send, SenderDropped, driverVars

LEMMA ReturnType ==
  ASSUME TypeOK, NEW k \in Callbacks, Return(k)
  PROVE  TypeOK'
BY DEF TypeOK, Return, driverVars

-----------------------------------------------------------------------------
(***************************************************************************)
(* The inductive invariant.  An event is in one place at a time: in the    *)
(* driver's queue, in the vector of one callback, or in its channel.  What *)
(* a callback has taken is older than what is in the queue, and when the   *)
(* callbacks are serial what has arrived is older than what one has taken. *)
(***************************************************************************)

\* Callbacks are serial if the driver says so.
OneRuns ==
  serial => \A j, k \in Callbacks : where[j] # "away" /\ where[k] # "away" => j = k

\* A living object is registered; one that is not yet made has no events.
Registered ==
  \A o \in Objects :
    /\ object[o] = "alive" => registry[o] # "absent"
    /\ object[o] = "none" => emitted[o] = 0

\* No event was made that the driver has not counted.
Counted ==
  /\ \A i \in DOMAIN queue : queue[i].n <= emitted[queue[i].to]
  /\ \A k \in Callbacks : \A i \in DOMAIN events[k] :
       events[k][i].n <= emitted[events[k][i].to]
  /\ \A o \in Objects : \A i \in DOMAIN channel[o] :
       channel[o][i] \in 1 .. emitted[o]
  /\ \A e \in lost : e.n <= emitted[e.to]

\* The queue and each vector are in order.
QueueOrdered ==
  \A i, j \in DOMAIN queue :
    i < j /\ queue[i].to = queue[j].to => queue[i].n < queue[j].n

EventsOrdered ==
  \A k \in Callbacks : \A i, j \in DOMAIN events[k] :
    i < j /\ events[k][i].to = events[k][j].to => events[k][i].n < events[k][j].n

\* What was taken is older than what is queued.
TakenOlder ==
  \A k \in Callbacks : \A i \in DOMAIN events[k], j \in DOMAIN queue :
    events[k][i].to = queue[j].to => events[k][i].n < queue[j].n

\* No two callbacks hold the same event.
TakenApart ==
  \A k, l \in Callbacks : k # l =>
    \A i \in DOMAIN events[k], j \in DOMAIN events[l] :
      events[k][i].to = events[l][j].to => events[k][i].n # events[l][j].n

\* What has arrived is older than what is queued, and none of what is taken.
ArrivedOlder ==
  \A o \in Objects : \A i \in DOMAIN channel[o], j \in DOMAIN queue :
    queue[j].to = o => channel[o][i] < queue[j].n

ArrivedApart ==
  \A o \in Objects, k \in Callbacks :
    \A i \in DOMAIN channel[o], j \in DOMAIN events[k] :
      events[k][j].to = o =>
        /\ channel[o][i] # events[k][j].n
        /\ serial => channel[o][i] < events[k][j].n

OrderInv ==
  /\ OneRuns /\ QueueOrdered /\ EventsOrdered /\ TakenOlder /\ TakenApart
  /\ ArrivedOlder /\ ArrivedApart /\ ArrivesInOrder

IInv == TypeOK /\ SendHasEvent /\ Registered /\ Counted /\ OrderInv

LEMMA InitIInv == Init => IInv
<1> SUFFICES ASSUME Init PROVE IInv
  OBVIOUS
<1>1. TypeOK
  BY InitType
<1>2. SendHasEvent /\ Registered /\ Counted
  BY DEF Init, SendHasEvent, Registered, Counted
<1>3. OrderInv
  BY DEF Init, OrderInv, OneRuns, QueueOrdered, EventsOrdered, TakenOlder,
     TakenApart, ArrivedOlder, ArrivedApart, ArrivesInOrder
<1> QED
  BY <1>1, <1>2, <1>3 DEF IInv

\* A sequence with an element more, and with its first one less.
LEMMA AppendParts ==
  ASSUME NEW S, NEW s \in Seq(S), NEW e \in S
  PROVE  /\ DOMAIN s \subseteq Nat
         /\ DOMAIN Append(s, e) = DOMAIN s \cup {Len(s) + 1}
         /\ Append(s, e)[Len(s) + 1] = e /\ Len(s) + 1 \in Nat
         /\ \A i \in DOMAIN s : i < Len(s) + 1 /\ Append(s, e)[i] = s[i]
OBVIOUS

LEMMA TailParts ==
  ASSUME NEW S, NEW s \in Seq(S), s # <<>>
  PROVE  /\ 1 \in DOMAIN s /\ Head(s) = s[1]
         /\ \A i \in DOMAIN Tail(s) :
              i \in Nat /\ i + 1 \in DOMAIN s /\ 1 < i + 1 /\ Tail(s)[i] = s[i + 1]
OBVIOUS

\* What is queued, taken and has arrived has an object and a number.
LEMMA Elements ==
  ASSUME TypeOK
  PROVE  /\ \A i \in DOMAIN queue : queue[i].to \in Objects /\ queue[i].n \in Nat
         /\ \A k \in Callbacks : \A i \in DOMAIN events[k] :
              events[k][i].to \in Objects /\ events[k][i].n \in Nat
         /\ \A o \in Objects : \A i \in DOMAIN channel[o] : channel[o][i] \in Nat
         /\ \A e \in lost : e.to \in Objects /\ e.n \in Nat
         /\ \A o \in Objects : emitted[o] \in Nat
<1>1. \A e \in Event : e.to \in Objects /\ e.n \in Nat
  <2> SUFFICES ASSUME NEW e \in Event PROVE e.to \in Objects /\ e.n \in Nat
    OBVIOUS
  <2>1. e.to \in Objects /\ e.n \in 1 .. MaxEvents[e.to]
    BY EventFields
  <2> QED
    BY <2>1, DispatchAssumption
<1>2. \A i \in DOMAIN queue : queue[i] \in Event
  BY DEF TypeOK
<1>3. \A k \in Callbacks : \A i \in DOMAIN events[k] : events[k][i] \in Event
  BY DEF TypeOK
<1>4. \A o \in Objects : \A i \in DOMAIN channel[o] : channel[o][i] \in Nat
  BY DEF TypeOK
<1>5. lost \subseteq Event /\ \A o \in Objects : emitted[o] \in Nat
  BY DEF TypeOK
<1> QED
  BY <1>1, <1>2, <1>3, <1>4, <1>5

-----------------------------------------------------------------------------
(***************************************************************************)
(* The steps that move events.                                             *)
(***************************************************************************)

\* The driver makes an event: it is younger than all others of its object.
LEMMA EmitOrder ==
  ASSUME TypeOK, Counted, OrderInv, NEW o \in Objects, Emit(o)
  PROVE  Counted' /\ OrderInv'
<1> DEFINE e == [to |-> o, n |-> emitted[o] + 1]
           last == Len(queue) + 1
<1>1. e \in Event /\ e.to = o /\ e.n = emitted[o] + 1
  <2>1. emitted[o] \in Nat /\ MaxEvents[o] \in Nat /\ emitted[o] < MaxEvents[o]
    BY DispatchAssumption DEF TypeOK, Emit
  <2>2. emitted[o] + 1 \in 1 .. MaxEvents[o]
    BY <2>1
  <2> QED
    BY <2>2, EventFields
<1>2. /\ DOMAIN queue \subseteq Nat /\ last \in Nat
      /\ DOMAIN queue' = DOMAIN queue \cup {last} /\ queue'[last] = e
      /\ \A i \in DOMAIN queue : i < last /\ queue'[i] = queue[i]
  <2>1. queue \in Seq(Event) /\ queue' = Append(queue, e)
    BY DEF TypeOK, Emit
  <2> QED
    BY <1>1, <2>1, AppendParts
<1>3. /\ emitted'[o] = emitted[o] + 1
      /\ \A x \in Objects : x # o => emitted'[x] = emitted[x]
  BY DEF Emit, TypeOK
<1>4. UNCHANGED <<serial, lost, channel, where, events>>
  BY DEF Emit, callbackVars
<1> HIDE DEF e, last
<1>5. Counted'
  BY <1>1, <1>2, <1>3, <1>4, Elements DEF Counted
<1>6. OneRuns' /\ EventsOrdered' /\ TakenApart' /\ ArrivedApart' /\ ArrivesInOrder'
  BY <1>4 DEF OrderInv, OneRuns, EventsOrdered, TakenApart, ArrivedApart,
     ArrivesInOrder
<1>7. QueueOrdered'
  BY <1>1, <1>2, Elements DEF OrderInv, QueueOrdered, Counted
<1>8. TakenOlder'
  BY <1>1, <1>2, <1>4, Elements DEF OrderInv, TakenOlder, Counted
<1>9. ArrivedOlder'
  BY <1>1, <1>2, <1>4, Elements DEF OrderInv, ArrivedOlder, Counted
<1> QED
  BY <1>5, <1>6, <1>7, <1>8, <1>9 DEF OrderInv

\* A callback takes the first event of the queue: it is younger than what the
\* callback has, and older than what remains.
LEMMA TakeOrder ==
  ASSUME TypeOK, Counted, OrderInv, NEW k \in Callbacks, Drain(k), Take(k)
  PROVE  Counted' /\ OrderInv'
<1> DEFINE e == queue[1]
           last == Len(events[k]) + 1
<1>1. /\ 1 \in DOMAIN queue /\ Head(queue) = e
      /\ \A i \in DOMAIN queue' :
           i \in Nat /\ i + 1 \in DOMAIN queue /\ 1 < i + 1 /\ queue'[i] = queue[i + 1]
  <2>1. queue \in Seq(Event) /\ queue # <<>> /\ queue' = Tail(queue)
    BY DEF TypeOK, Take
  <2> QED
    BY <2>1, TailParts
<1>2. /\ DOMAIN events[k] \subseteq Nat /\ last \in Nat
      /\ DOMAIN events'[k] = DOMAIN events[k] \cup {last} /\ events'[k][last] = e
      /\ \A i \in DOMAIN events[k] : i < last /\ events'[k][i] = events[k][i]
  <2>1. events[k] \in Seq(Event) /\ events'[k] = Append(events[k], e) /\ e \in Event
    BY <1>1 DEF TypeOK, Take
  <2> QED
    BY <2>1, AppendParts
<1>3. \A l \in Callbacks : l # k => events'[l] = events[l]
  BY DEF Take, TypeOK
<1>4. UNCHANGED <<serial, emitted, lost, channel, where>>
  BY DEF Drain, Take
<1>5. where[k] # "away"
  BY DEF Drain
<1> HIDE DEF e, last
<1>6. e.to \in Objects /\ e.n \in Nat /\ e.n <= emitted[e.to]
  BY <1>1, Elements DEF e, Counted
<1>7. \A i \in DOMAIN events[k] : events[k][i].to = e.to => events[k][i].n < e.n
  BY <1>1 DEF e, OrderInv, TakenOlder
<1>8. \A j \in DOMAIN queue' : queue'[j].to = e.to => e.n < queue'[j].n
  BY <1>1 DEF e, OrderInv, QueueOrdered
<1>9. Counted'
  BY <1>1, <1>2, <1>3, <1>4, <1>6 DEF Counted
<1>10. OneRuns' /\ ArrivesInOrder'
  BY <1>4 DEF OrderInv, OneRuns, ArrivesInOrder
<1>11. QueueOrdered'
  BY <1>1 DEF OrderInv, QueueOrdered
<1>12. EventsOrdered'
  BY <1>2, <1>3, <1>7 DEF OrderInv, EventsOrdered
<1>13. TakenOlder'
  BY <1>1, <1>2, <1>3, <1>8 DEF OrderInv, TakenOlder
<1>14. TakenApart'
  <2>1. \A l \in Callbacks : \A i \in DOMAIN events[l] :
          events[l][i].to = e.to => events[l][i].n < e.n
    BY <1>1 DEF e, OrderInv, TakenOlder
  <2> QED
    BY <1>2, <1>3, <1>6, <2>1, Elements DEF OrderInv, TakenApart
<1>15. ArrivedOlder'
  BY <1>1, <1>4 DEF OrderInv, ArrivedOlder
<1>16. ArrivedApart'
  <2>1. \A o \in Objects : \A i \in DOMAIN channel[o] : e.to = o => channel[o][i] < e.n
    BY <1>1 DEF e, OrderInv, ArrivedOlder
  <2> QED
    BY <1>2, <1>3, <1>4, <1>6, <2>1, Elements DEF OrderInv, ArrivedApart
<1> QED
  BY <1>9, <1>10, <1>11, <1>12, <1>13, <1>14, <1>15, <1>16 DEF OrderInv

\* It ends its loop, and an event it could not keep is lost.
LEMMA TakeEndsOrder ==
  ASSUME TypeOK, Counted, OrderInv, NEW k \in Callbacks, Drain(k), TakeEnds(k)
  PROVE  Counted' /\ OrderInv'
<1>1. UNCHANGED <<serial, emitted, channel, events>>
  BY DEF Drain, TakeEnds
<1>2. where[k] # "away" /\ \A j \in Callbacks : j # k => where'[j] = where[j]
  BY DEF Drain, TakeEnds, TypeOK
<1>3. OneRuns' /\ EventsOrdered' /\ TakenApart' /\ ArrivedApart' /\ ArrivesInOrder'
  BY <1>1, <1>2 DEF OrderInv, OneRuns, EventsOrdered, TakenApart, ArrivedApart,
     ArrivesInOrder
<1>4. CASE UNCHANGED <<queue, lost>>
  BY <1>1, <1>3, <1>4 DEF Counted, OrderInv, QueueOrdered, TakenOlder, ArrivedOlder
<1>5. CASE queue # <<>> /\ queue' = Tail(queue) /\ lost' = lost \cup {Head(queue)}
  <2>1. /\ 1 \in DOMAIN queue /\ Head(queue) = queue[1]
        /\ \A i \in DOMAIN queue' :
             i \in Nat /\ i + 1 \in DOMAIN queue /\ 1 < i + 1 /\ queue'[i] = queue[i + 1]
    BY <1>5, TailParts DEF TypeOK
  <2>2. Counted'
    BY <1>1, <1>5, <2>1 DEF Counted
  <2>3. QueueOrdered' /\ TakenOlder' /\ ArrivedOlder'
    BY <1>1, <2>1 DEF OrderInv, QueueOrdered, TakenOlder, ArrivedOlder
  <2> QED
    BY <1>3, <2>2, <2>3 DEF OrderInv
<1> QED
  BY <1>4, <1>5 DEF TakeEnds

\* It passes over an event nobody is there for.
LEMMA LookupOrder ==
  ASSUME TypeOK, Counted, OrderInv, NEW k \in Callbacks, Lookup(k)
  PROVE  Counted' /\ OrderInv'
<1>1. UNCHANGED <<serial, emitted, lost, queue, channel>>
  BY DEF Lookup, driverVars
<1>2. where[k] # "away" /\ \A j \in Callbacks : j # k => where'[j] = where[j]
  BY DEF Lookup, TypeOK
<1>3. OneRuns' /\ QueueOrdered' /\ ArrivedOlder' /\ ArrivesInOrder'
  BY <1>1, <1>2 DEF OrderInv, OneRuns, QueueOrdered, ArrivedOlder, ArrivesInOrder
<1>4. CASE UNCHANGED events
  BY <1>1, <1>3, <1>4 DEF Counted, OrderInv, EventsOrdered, TakenOlder, TakenApart,
     ArrivedApart
<1>5. CASE events' = [events EXCEPT ![k] = NextOf(@)[2]]
  <2>1. /\ \A i \in DOMAIN events'[k] :
             i \in Nat /\ i + 1 \in DOMAIN events[k] /\ events'[k][i] = events[k][i + 1]
        /\ \A l \in Callbacks : l # k => events'[l] = events[l]
    <3>1. events[k] # <<>> /\ events[k] \in Seq(Event)
      BY DEF Lookup, TypeOK
    <3>2. /\ events'[k] = Tail(events[k])
          /\ \A l \in Callbacks : l # k => events'[l] = events[l]
      BY <1>5, <3>1, NextEvent DEF TypeOK
    <3> QED
      BY <3>1, <3>2, TailParts
  <2>2. Counted'
    BY <1>1, <2>1 DEF Counted
  <2>3. EventsOrdered' /\ TakenOlder'
    BY <1>1, <2>1 DEF OrderInv, EventsOrdered, TakenOlder
  <2>4. TakenApart' /\ ArrivedApart'
    BY <1>1, <2>1 DEF OrderInv, TakenApart, ArrivedApart
  <2> QED
    BY <1>3, <2>2, <2>3, <2>4 DEF OrderInv
<1> QED
  BY <1>4, <1>5 DEF Lookup

\* It hands an event over: what it still has is younger, and with serial
\* callbacks nobody else has any.
LEMMA SendOrder ==
  ASSUME TypeOK, SendHasEvent, Counted, OrderInv, NEW k \in Callbacks, Send(k)
  PROVE  Counted' /\ OrderInv'
<1>1. events[k] # <<>> /\ events[k] \in Seq(Event)
  BY DEF Send, SendHasEvent, TypeOK
<1>2. PICK e : e = events[k][1]
  OBVIOUS
<1>3. 1 \in DOMAIN events[k] /\ NextOf(events[k])[1] = e /\ e \in Event
  BY <1>1, <1>2, NextEvent, TailParts
<1>4. /\ \A i \in DOMAIN events'[k] :
           /\ i \in Nat /\ i + 1 \in DOMAIN events[k] /\ 1 < i + 1
           /\ events'[k][i] = events[k][i + 1]
      /\ \A l \in Callbacks : l # k => events'[l] = events[l]
  <2>1. /\ events'[k] = Tail(events[k])
        /\ \A l \in Callbacks : l # k => events'[l] = events[l]
    BY <1>1, NextEvent DEF Send, TypeOK
  <2> QED
    BY <1>1, <2>1, TailParts
<1>5. UNCHANGED <<serial, emitted, lost, queue, open>>
  BY DEF Send, driverVars
<1>6. where[k] # "away" /\ \A j \in Callbacks : j # k => where'[j] = where[j]
  BY DEF Send, TypeOK
<1>7. e.to \in Objects /\ e.n \in Nat /\ e.n \in 1 .. emitted[e.to]
  <2>1. e.to \in Objects /\ e.n \in 1 .. MaxEvents[e.to]
    BY <1>3, EventFields
  <2>2. e.n <= emitted[e.to] /\ emitted[e.to] \in Nat /\ MaxEvents[e.to] \in Nat
    BY <1>2, <1>3, <2>1, DispatchAssumption DEF Counted, TypeOK
  <2> QED
    BY <2>1, <2>2
<1>8. PICK last : last = Len(channel[e.to]) + 1
  OBVIOUS
<1>9. /\ \A o \in Objects : o # e.to => channel'[o] = channel[o]
      /\ \/ channel'[e.to] = channel[e.to]
         \/ /\ DOMAIN channel[e.to] \subseteq Nat /\ last \in Nat
            /\ DOMAIN channel'[e.to] = DOMAIN channel[e.to] \cup {last}
            /\ channel'[e.to][last] = e.n
            /\ \A i \in DOMAIN channel[e.to] :
                 i < last /\ channel'[e.to][i] = channel[e.to][i]
  <2>1. \/ channel' = channel
        \/ channel' = [channel EXCEPT ![e.to] = Append(channel[e.to], e.n)]
    BY <1>3 DEF Send
  <2>2. channel[e.to] \in Seq(Nat) /\ channel \in [Objects -> Seq(Nat)]
    BY <1>7 DEF TypeOK
  <2>3. CASE channel' = channel
    BY <2>3
  <2>4. CASE channel' = [channel EXCEPT ![e.to] = Append(channel[e.to], e.n)]
    <3>1. /\ channel'[e.to] = Append(channel[e.to], e.n)
          /\ \A o \in Objects : o # e.to => channel'[o] = channel[o]
      BY <1>7, <2>2, <2>4
    <3> QED
      BY <1>7, <1>8, <2>2, <3>1, AppendParts
  <2> QED
    BY <2>1, <2>3, <2>4
<1>10. Counted'
  <2>1. \A o \in Objects : \A i \in DOMAIN channel'[o] : channel'[o][i] \in 1 .. emitted[o]
    <3> SUFFICES ASSUME NEW o \in Objects, NEW i \in DOMAIN channel'[o]
                 PROVE  channel'[o][i] \in 1 .. emitted[o]
      OBVIOUS
    <3>1. \A j \in DOMAIN channel[o] : channel[o][j] \in 1 .. emitted[o]
      BY DEF Counted
    <3>2. CASE o # e.to
      BY <1>9, <3>1, <3>2
    <3>3. CASE o = e.to
      BY <1>7, <1>9, <3>1, <3>3
    <3> QED
      BY <3>2, <3>3
  <2>2. \A l \in Callbacks : \A i \in DOMAIN events'[l] :
          events'[l][i].n <= emitted[events'[l][i].to]
    BY <1>3, <1>4 DEF Counted
  <2> QED
    BY <1>5, <2>1, <2>2 DEF Counted
<1>11. OneRuns' /\ QueueOrdered'
  BY <1>5, <1>6 DEF OrderInv, OneRuns, QueueOrdered
<1>12. EventsOrdered'
  BY <1>3, <1>4 DEF OrderInv, EventsOrdered
<1>13. TakenOlder'
  BY <1>3, <1>4, <1>5 DEF OrderInv, TakenOlder
<1>14. TakenApart'
  BY <1>3, <1>4 DEF OrderInv, TakenApart
<1>15. ArrivedOlder'
  <2>1. \A j \in DOMAIN queue : queue[j].to = e.to => e.n < queue[j].n
    BY <1>2, <1>3 DEF OrderInv, TakenOlder
  <2> QED
    BY <1>5, <1>9, <2>1 DEF OrderInv, ArrivedOlder
<1>16. ArrivedApart'
  <2>1. \A j \in DOMAIN events'[k] : events'[k][j].to = e.to => e.n < events'[k][j].n
    BY <1>2, <1>3, <1>4 DEF OrderInv, EventsOrdered
  <2>2. \A l \in Callbacks : l # k =>
          /\ \A j \in DOMAIN events'[l] :
               events'[l][j].to = e.to => e.n # events'[l][j].n
          /\ serial => events'[l] = <<>>
    <3>1. serial => \A l \in Callbacks : l # k => events[l] = <<>>
      BY <1>6 DEF OrderInv, OneRuns, TypeOK
    <3> QED
      BY <1>2, <1>3, <1>4, <3>1 DEF OrderInv, TakenApart
  <2>3. \A j \in DOMAIN events'[k] : events'[k][j].n \in Nat
    BY <1>4, Elements
  <2>4. \A l \in Callbacks : \A j \in DOMAIN events'[l] : events'[l][j].to = e.to =>
          e.n # events'[l][j].n /\ (serial => e.n < events'[l][j].n)
    BY <1>7, <2>1, <2>2, <2>3
  <2>5. \A o \in Objects, l \in Callbacks :
          \A i \in DOMAIN channel[o], j \in DOMAIN events'[l] : events'[l][j].to = o =>
            /\ channel[o][i] # events'[l][j].n
            /\ serial => channel[o][i] < events'[l][j].n
    BY <1>3, <1>4 DEF OrderInv, ArrivedApart
  <2> QED
    BY <1>5, <1>9, <2>4, <2>5 DEF ArrivedApart
<1>17. ArrivesInOrder'
  <2>1. \A i \in DOMAIN channel[e.to] : /\ channel[e.to][i] # e.n
                                        /\ serial => channel[e.to][i] < e.n
    BY <1>2, <1>3, <1>7 DEF OrderInv, ArrivedApart
  <2> SUFFICES ASSUME NEW o \in Objects,
                      NEW i \in DOMAIN channel'[o], NEW j \in DOMAIN channel'[o], i < j
               PROVE  /\ channel'[o][i] # channel'[o][j]
                      /\ serial => channel'[o][i] < channel'[o][j]
    BY <1>5 DEF ArrivesInOrder
  <2>2. \A x, y \in DOMAIN channel[o] : x < y =>
          /\ channel[o][x] # channel[o][y]
          /\ serial => channel[o][x] < channel[o][y]
    BY DEF OrderInv, ArrivesInOrder
  <2>3. CASE channel'[o] = channel[o]
    BY <2>2, <2>3
  <2>4. CASE o = e.to /\ channel'[o] # channel[o]
    BY <1>9, <2>1, <2>2, <2>4
  <2> QED
    BY <1>9, <2>3, <2>4
<1> QED
  BY <1>10, <1>11, <1>12, <1>13, <1>14, <1>15, <1>16, <1>17 DEF OrderInv

\* The other steps move no event; the driver calls back serially.
LEMMA OthersOrder ==
  ASSUME TypeOK, Counted, OrderInv,
         UNCHANGED <<serial, queue, emitted, lost, channel, events>>,
         \/ UNCHANGED where
         \/ \E k \in Callbacks : CallBack(k) \/ Return(k)
  PROVE  Counted' /\ OrderInv'
<1>1. Counted'
  BY DEF Counted
<1>2. /\ QueueOrdered' /\ EventsOrdered' /\ TakenOlder' /\ TakenApart'
      /\ ArrivedOlder' /\ ArrivedApart' /\ ArrivesInOrder'
  BY DEF OrderInv, QueueOrdered, EventsOrdered, TakenOlder, TakenApart,
     ArrivedOlder, ArrivedApart, ArrivesInOrder
<1>3. OneRuns'
  BY DEF OrderInv, OneRuns, CallBack, Return, TypeOK
<1> QED
  BY <1>1, <1>2, <1>3 DEF OrderInv

-----------------------------------------------------------------------------
(***************************************************************************)
(* Every step keeps the invariant.                                         *)
(***************************************************************************)

\* A callback sends only the event it has looked up.
LEMMA SendHasEventStep ==
  ASSUME TypeOK, SendHasEvent, Next
  PROVE  SendHasEvent'
<1> USE DEF TypeOK, SendHasEvent, callbackVars
<1>1. CASE UNCHANGED <<where, events>>
  BY <1>1
<1>2. ASSUME NEW k \in Callbacks, CallBack(k) PROVE SendHasEvent'
  BY <1>2 DEF CallBack
<1>3. ASSUME NEW k \in Callbacks, Drain(k) PROVE SendHasEvent'
  BY <1>3 DEF Drain, Take, TakeEnds
<1>4. ASSUME NEW k \in Callbacks, Lookup(k) PROVE SendHasEvent'
  BY <1>4 DEF Lookup
<1>5. ASSUME NEW k \in Callbacks, Send(k) PROVE SendHasEvent'
  BY <1>5 DEF Send
<1>6. ASSUME NEW k \in Callbacks, Return(k) PROVE SendHasEvent'
  BY <1>6 DEF Return
<1> QED
  BY <1>1, <1>2, <1>3, <1>4, <1>5, <1>6 DEF Next, Callback, Create,
     RegisterReference, Drop, ListenerStops, Emit, Collect

\* The collector keeps what is alive, and events need an object.
LEMMA RegisteredStep ==
  ASSUME TypeOK, Registered, Next
  PROVE  Registered'
<1> USE DEF TypeOK, Registered, driverVars
<1>1. CASE UNCHANGED <<object, registry, emitted>>
  BY <1>1
<1>2. ASSUME NEW o \in Objects,
             Create(o) \/ RegisterReference(o) \/ Drop(o) \/ Emit(o)
      PROVE  Registered'
  BY <1>2 DEF Create, RegisterReference, Drop, Emit
<1>3. CASE Collect
  BY <1>3 DEF Collect, Keep, HasSender
<1> QED
  BY <1>1, <1>2, <1>3 DEF Next, Callback, ListenerStops, CallBack, Drain, Lookup,
     Send, Return

LEMMA NextIInv == IInv /\ [Next]_vars => IInv'
<1> SUFFICES ASSUME IInv, [Next]_vars PROVE IInv'
  OBVIOUS
<1> USE DEF IInv
<1>1. CASE UNCHANGED vars
  <2>1. TypeOK' /\ SendHasEvent' /\ Registered'
    BY <1>1 DEF vars, driverVars, callbackVars, TypeOK, SendHasEvent, Registered
  <2>2. Counted' /\ OrderInv'
    BY <1>1, OthersOrder DEF vars, driverVars, callbackVars
  <2> QED
    BY <2>1, <2>2
<1>2. CASE Next
  <2>1. SendHasEvent' /\ Registered'
    BY <1>2, SendHasEventStep, RegisteredStep
  <2>2. ASSUME NEW o \in Objects, Emit(o) PROVE IInv'
    BY <2>1, <2>2, EmitType, EmitOrder
  <2>3. ASSUME NEW o \in Objects,
               Create(o) \/ RegisterReference(o) \/ Drop(o) \/ ListenerStops(o)
        PROVE  IInv'
    <3>1. UNCHANGED <<serial, queue, emitted, lost, channel, events, where>>
      BY <2>3 DEF Create, RegisterReference, Drop, ListenerStops, driverVars,
         callbackVars
    <3> QED
      BY <2>1, <2>3, <3>1, ObjectsType, OthersOrder
  <2>4. CASE Collect
    <3>1. UNCHANGED <<serial, queue, emitted, lost, channel, events, where>>
      BY <2>4 DEF Collect, driverVars, callbackVars
    <3> QED
      BY <2>1, <2>4, <3>1, CollectType, OthersOrder
  <2>5. ASSUME NEW k \in Callbacks, CallBack(k) \/ Return(k) PROVE IInv'
    <3>1. UNCHANGED <<serial, queue, emitted, lost, channel, events>>
      BY <2>5 DEF CallBack, Return, driverVars
    <3>2. Counted' /\ OrderInv'
      BY <2>5, <3>1, OthersOrder
    <3> QED
      BY <2>1, <2>5, <3>2, CallBackType, ReturnType
  <2>6. ASSUME NEW k \in Callbacks, Drain(k) PROVE IInv'
    <3>1. Counted' /\ OrderInv'
      BY <2>6, TakeOrder, TakeEndsOrder DEF Drain
    <3> QED
      BY <2>1, <2>6, <3>1, DrainType
  <2>7. ASSUME NEW k \in Callbacks, Lookup(k) PROVE IInv'
    BY <2>1, <2>7, LookupType, LookupOrder
  <2>8. ASSUME NEW k \in Callbacks, Send(k) PROVE IInv'
    BY <2>1, <2>8, SendType, SendOrder
  <2> QED
    BY <1>2, <2>2, <2>3, <2>4, <2>5, <2>6, <2>7, <2>8 DEF Next, Callback
<1> QED
  BY <1>1, <1>2

LEMMA SpecIInv == Spec => []IInv
<1> QED
  BY InitIInv, NextIInv, PTL DEF Spec

\* In every reachable state the variables have their types, a callback sends
\* exactly when it holds a sender, and has no events when it is away.
THEOREM TypeCorrect == Spec => []TypeOK
<1>1. IInv => TypeOK
  BY DEF IInv
<1> QED
  BY <1>1, SpecIInv, PTL

\* No event arrives twice, whatever the callbacks do at once; and with serial
\* callbacks each object gets its events in the order the driver made them.
THEOREM ArrivesOrdered == Spec => []ArrivesInOrder
<1>1. IInv => ArrivesInOrder
  BY DEF IInv, OrderInv
<1> QED
  BY <1>1, SpecIInv, PTL

-----------------------------------------------------------------------------
(***************************************************************************)
(* No event of a living object is lost: each step moves it from one place  *)
(* to the next.                                                            *)
(***************************************************************************)

\* The number of an event, if it is for the object.
Number(o, e) == IF e.to = o THEN {e.n} ELSE {}

LEMMA ForAppend ==
  ASSUME NEW S, NEW s \in Seq(S), NEW e \in S, NEW o
  PROVE  For(o, Append(s, e)) = For(o, s) \cup Number(o, e)
BY AppendParts DEF For, Number

LEMMA ForTail ==
  ASSUME NEW S, NEW s \in Seq(S), s # <<>>, NEW o
  PROVE  For(o, s) = Number(o, Head(s)) \cup For(o, Tail(s))
<1>1. \A i \in DOMAIN s : i = 1 \/ (i - 1 \in DOMAIN Tail(s) /\ Tail(s)[i - 1] = s[i])
  <2>1. /\ Len(Tail(s)) = Len(s) - 1 /\ Tail(s) \in Seq(S)
        /\ \A j \in 1 .. Len(Tail(s)) : Tail(s)[j] = s[j + 1]
    BY HeadTailProperties, Zenon
  <2>2. /\ Len(s) \in Nat /\ DOMAIN s = 1 .. Len(s)
        /\ DOMAIN Tail(s) = 1 .. Len(Tail(s))
    BY <2>1
  <2> SUFFICES ASSUME NEW i \in DOMAIN s, i # 1
               PROVE  i - 1 \in DOMAIN Tail(s) /\ Tail(s)[i - 1] = s[i]
    OBVIOUS
  <2>3. i - 1 \in 1 .. Len(Tail(s)) /\ (i - 1) + 1 = i
    BY <2>1, <2>2
  <2> QED
    BY <2>1, <2>2, <2>3, Zenon
<1>2. /\ 1 \in DOMAIN s /\ Head(s) = s[1]
      /\ \A i \in DOMAIN Tail(s) :
           i \in Nat /\ i + 1 \in DOMAIN s /\ 1 < i + 1 /\ Tail(s)[i] = s[i + 1]
  BY TailParts
<1>3. PICK t : t = Tail(s)
  OBVIOUS
<1>4. ASSUME NEW n PROVE n \in For(o, s) => n \in Number(o, s[1]) \cup For(o, t)
  <2> SUFFICES ASSUME NEW i \in DOMAIN s, s[i].to = o, s[i].n = n
               PROVE  n \in Number(o, s[1]) \cup For(o, t)
    BY DEF For
  <2>1. CASE i = 1
    BY <2>1 DEF Number
  <2>2. CASE i # 1
    <3>1. i - 1 \in DOMAIN t /\ t[i - 1] = s[i]
      BY <1>1, <1>3, <2>2
    <3> QED
      BY <3>1 DEF For
  <2> QED
    BY <2>1, <2>2
<1>5. ASSUME NEW n PROVE n \in Number(o, s[1]) \cup For(o, t) => n \in For(o, s)
  BY <1>2, <1>3 DEF For, Number
<1> QED
  BY <1>2, <1>3, <1>4, <1>5

\* The places of the events of an object.
Places(o) == Arrived(o) \cup Waiting(o) \cup Failed(o)

\* A callback moves events, or drops those of the dropped and those whose
\* listener is gone.
LEMMA TakePlaces ==
  ASSUME TypeOK, NEW k \in Callbacks, Drain(k), Take(k), NEW o
  PROVE  Places(o)' = Places(o)
<1>1. queue \in Seq(Event) /\ queue # <<>> /\ events[k] \in Seq(Event)
  BY DEF TypeOK, Take
<1>2. PICK e : e = Head(queue) /\ e \in Event
  BY <1>1
<1>3. For(o, queue) = Number(o, e) \cup For(o, queue')
  BY <1>1, <1>2, ForTail DEF Take
<1>4. For(o, events'[k]) = For(o, events[k]) \cup Number(o, e)
  <2>1. events'[k] = Append(events[k], e)
    BY <1>2 DEF Take, TypeOK
  <2> QED
    BY <1>1, <1>2, <2>1, ForAppend
<1>5. \A l \in Callbacks : l # k => For(o, events'[l]) = For(o, events[l])
  BY DEF Take, TypeOK
<1>6. Waiting(o)' = Waiting(o)
  BY <1>3, <1>4, <1>5 DEF Waiting
<1>7. Arrived(o)' = Arrived(o) /\ Failed(o)' = Failed(o)
  BY DEF Arrived, Failed, Drain, Take
<1> QED
  BY <1>6, <1>7 DEF Places

LEMMA TakeEndsPlaces ==
  ASSUME TypeOK, NEW k \in Callbacks, Drain(k), TakeEnds(k), NEW o
  PROVE  Places(o)' = Places(o)
<1>1. UNCHANGED <<events, channel>>
  BY DEF Drain, TakeEnds
<1>2. CASE UNCHANGED <<queue, lost>>
  BY <1>1, <1>2 DEF Places, Arrived, Waiting, Failed
<1>3. CASE queue # <<>> /\ queue' = Tail(queue) /\ lost' = lost \cup {Head(queue)}
  <2>1. For(o, queue) = Number(o, Head(queue)) \cup For(o, queue')
    BY <1>3, ForTail DEF TypeOK
  <2>2. Failed(o)' = Failed(o) \cup Number(o, Head(queue))
    BY <1>3 DEF Failed, Number
  <2>3. Arrived(o)' = Arrived(o)
    BY <1>1 DEF Arrived
  <2>4. Waiting(o) = For(o, queue) \cup UNION {For(o, events[l]) : l \in Callbacks}
    BY DEF Waiting
  <2>5. Waiting(o)' = For(o, queue') \cup UNION {For(o, events[l]) : l \in Callbacks}
    BY <1>1 DEF Waiting
  <2> QED
    BY <2>1, <2>2, <2>3, <2>4, <2>5 DEF Places
<1> QED
  BY <1>2, <1>3 DEF TakeEnds

LEMMA LookupPlaces ==
  ASSUME TypeOK, Registered, NEW k \in Callbacks, Lookup(k),
         NEW o \in Objects, object[o] = "alive"
  PROVE  Places(o)' = Places(o)
<1>1. UNCHANGED <<queue, lost, channel>>
  BY DEF Lookup, driverVars
<1>2. CASE UNCHANGED events
  BY <1>1, <1>2 DEF Places, Arrived, Waiting, Failed
<1>3. CASE ~ UNCHANGED events
  <2>1. events[k] # <<>> /\ events[k] \in Seq(Event)
    BY DEF Lookup, TypeOK
  <2>2. PICK e : e = Head(events[k]) /\ e \in Event
    BY <2>1
  <2>3. NextOf(events[k])[1] = e /\ NextOf(events[k])[2] = Tail(events[k])
    BY <2>1, <2>2, NextEvent
  <2>4. e.to # o /\ events' = [events EXCEPT ![k] = Tail(events[k])]
    BY <1>3, <2>3 DEF Lookup, Registered, HasSender
  <2>5. For(o, events'[k]) = For(o, events[k])
    <3>1. events'[k] = Tail(events[k]) /\ Number(o, e) = {}
      BY <2>4 DEF TypeOK, Number
    <3> QED
      BY <2>1, <2>2, <3>1, ForTail
  <2>6. \A l \in Callbacks : For(o, events'[l]) = For(o, events[l])
    BY <2>4, <2>5 DEF TypeOK
  <2>7. Waiting(o)' = Waiting(o)
    BY <1>1, <2>6 DEF Waiting
  <2> QED
    BY <1>1, <2>7 DEF Places, Arrived, Failed
<1> QED
  BY <1>2, <1>3

LEMMA SendPlaces ==
  ASSUME TypeOK, SendHasEvent, NEW k \in Callbacks, Send(k),
         NEW o \in Objects, open[o]
  PROVE  Places(o)' = Places(o)
<1>1. events[k] # <<>> /\ events[k] \in Seq(Event)
  BY DEF Send, SendHasEvent, TypeOK
<1>2. PICK e : e = Head(events[k]) /\ e \in Event
  BY <1>1
<1>3. /\ NextOf(events[k])[1] = e /\ NextOf(events[k])[2] = Tail(events[k])
      /\ e.to \in Objects /\ e.n \in Nat
  BY <1>1, <1>2, NextEvent
<1>4. For(o, events[k]) = Number(o, e) \cup For(o, events'[k])
  <2>1. events'[k] = Tail(events[k])
    BY <1>3 DEF Send, TypeOK
  <2> QED
    BY <1>1, <1>2, <2>1, ForTail
<1>5. \A l \in Callbacks : l # k => For(o, events'[l]) = For(o, events[l])
  BY <1>3 DEF Send, TypeOK
<1>6. Arrived(o)' = Arrived(o) \cup Number(o, e)
  <2>1. channel \in [Objects -> Seq(Nat)] /\ channel[o] \in Seq(Nat)
    BY DEF TypeOK
  <2>2. CASE e.to = o
    <3>1. channel'[o] = Append(channel[o], e.n)
      BY <1>3, <2>1, <2>2 DEF Send
    <3>2. Number(o, e) = {e.n}
      BY <2>2 DEF Number
    <3> QED
      BY <1>3, <2>1, <3>1, <3>2, AppendParts DEF Arrived
  <2>3. CASE e.to # o
    <3>1. channel'[o] = channel[o]
      BY <1>3, <2>1, <2>3 DEF Send
    <3>2. Number(o, e) = {}
      BY <2>3 DEF Number
    <3> QED
      BY <3>1, <3>2 DEF Arrived
  <2> QED
    BY <2>2, <2>3
<1>7. Waiting(o) = Waiting(o)' \cup Number(o, e)
  <2>1. For(o, queue') = For(o, queue)
    BY DEF Send, driverVars
  <2> QED
    BY <1>4, <1>5, <2>1 DEF Waiting
<1>8. Failed(o)' = Failed(o)
  BY DEF Failed, Send, driverVars
<1> QED
  BY <1>6, <1>7, <1>8 DEF Places

\* The driver's new event is in its queue.
LEMMA EmitPlaces ==
  ASSUME TypeOK, NEW o \in Objects, Emit(o), NEW x \in Objects, NothingLost,
         object[x] = "alive", open[x]
  PROVE  1 .. emitted'[x] = Places(x)'
<1>1. PICK e : e = [to |-> o, n |-> emitted[o] + 1]
  OBVIOUS
<1>2. e.to = o /\ e.n = emitted[o] + 1 /\ e \in Event
  <2>1. emitted[o] \in Nat /\ MaxEvents[o] \in Nat /\ emitted[o] < MaxEvents[o]
    BY DispatchAssumption DEF TypeOK, Emit
  <2>2. emitted[o] + 1 \in 1 .. MaxEvents[o]
    BY <2>1
  <2> QED
    BY <1>1, <2>2, EventFields
<1>3. For(x, queue') = For(x, queue) \cup Number(x, e)
  <2>1. queue \in Seq(Event) /\ queue' = Append(queue, e)
    BY <1>1 DEF TypeOK, Emit
  <2> QED
    BY <1>2, <2>1, ForAppend
<1>4. Places(x)' = Places(x) \cup Number(x, e)
  <2>1. Waiting(x)' = Waiting(x) \cup Number(x, e)
    BY <1>3 DEF Waiting, Emit, callbackVars
  <2> QED
    BY <2>1 DEF Places, Arrived, Failed, Emit
<1>5. 1 .. emitted[x] = Places(x)
  BY DEF NothingLost, Places
<1>6. 1 .. emitted'[x] = 1 .. emitted[x] \cup Number(x, e)
  <2>1. emitted[x] \in Nat /\ emitted \in [Objects -> Nat]
    BY DEF TypeOK
  <2>2. CASE x = o
    <3>1. emitted'[x] = emitted[x] + 1 /\ Number(x, e) = {emitted[x] + 1}
      BY <1>2, <2>1, <2>2 DEF Emit, Number
    <3>2. 1 .. (emitted[x] + 1) = 1 .. emitted[x] \cup {emitted[x] + 1}
      BY <2>1
    <3> QED
      BY <3>1, <3>2
  <2>3. CASE x # o
    BY <1>2, <2>1, <2>3 DEF Emit, Number
  <2> QED
    BY <2>2, <2>3
<1> QED
  BY <1>4, <1>5, <1>6

\* An object that is made has no event anywhere.
LEMMA CreatePlaces ==
  ASSUME TypeOK, Registered, Counted, NEW o \in Objects, object[o] = "none"
  PROVE  1 .. emitted[o] = Places(o)
<1>1. emitted[o] = 0
  BY DEF Registered
<1>2. \A e \in Event : e.to = o => ~ (e.n <= emitted[o])
  <2>1. \A e \in Event : e.to \in Objects /\ e.n \in 1 .. MaxEvents[e.to]
    BY EventFields
  <2>2. MaxEvents[o] \in Nat
    BY DispatchAssumption
  <2> QED
    BY <1>1, <2>1, <2>2
<1>3. For(o, queue) = {}
  <2>1. \A i \in DOMAIN queue : queue[i] \in Event
    BY DEF TypeOK
  <2> QED
    BY <1>2, <2>1 DEF For, Counted
<1>4. \A k \in Callbacks : For(o, events[k]) = {}
  <2>1. \A k \in Callbacks : \A i \in DOMAIN events[k] : events[k][i] \in Event
    BY DEF TypeOK
  <2> QED
    BY <1>2, <2>1 DEF For, Counted
<1>5. Failed(o) = {}
  BY <1>2 DEF Failed, Counted, TypeOK
<1>6. Arrived(o) = {}
  BY <1>1 DEF Arrived, Counted
<1> QED
  BY <1>1, <1>3, <1>4, <1>5, <1>6 DEF Places, Waiting

\* An object that is alive with its listener was so before, unless it has
\* just been made.
LEMMA AliveBefore ==
  ASSUME TypeOK, [Next]_vars, NEW o \in Objects, object[o] # "none",
         object'[o] = "alive", open'[o]
  PROVE  object[o] = "alive" /\ open[o]
<1> USE DEF TypeOK
<1>1. CASE UNCHANGED <<object, open>>
  BY <1>1
<1>2. ASSUME NEW x \in Objects, Create(x) PROVE object[o] = "alive" /\ open[o]
  BY <1>2 DEF Create
<1>3. ASSUME NEW x \in Objects, Drop(x) PROVE object[o] = "alive" /\ open[o]
  BY <1>3 DEF Drop
<1>4. ASSUME NEW x \in Objects, ListenerStops(x)
      PROVE  object[o] = "alive" /\ open[o]
  BY <1>4 DEF ListenerStops
<1>5. ASSUME NEW x \in Objects, RegisterReference(x) \/ Emit(x)
      PROVE  UNCHANGED <<object, open>>
  BY <1>5 DEF RegisterReference, Emit
<1>6. ASSUME NEW k \in Callbacks, CallBack(k) \/ Callback(k)
      PROVE  UNCHANGED <<object, open>>
  BY <1>6 DEF CallBack, Callback, Drain, Lookup, Send, Return
<1>7. Collect \/ UNCHANGED vars => UNCHANGED <<object, open>>
  BY DEF Collect, vars
<1> QED
  BY <1>1, <1>2, <1>3, <1>4, <1>5, <1>6, <1>7 DEF Next

LEMMA NothingLostStep ==
  ASSUME IInv, NothingLost, [Next]_vars
  PROVE  NothingLost'
<1> SUFFICES ASSUME NEW o \in Objects, object'[o] = "alive", open'[o]
             PROVE  1 .. emitted'[o] = Places(o)'
  BY DEF NothingLost, Places
<1> USE DEF IInv
<1>1. ASSUME object[o] = "alive", open[o], emitted'[o] = emitted[o],
             Places(o)' = Places(o)
      PROVE  1 .. emitted'[o] = Places(o)'
  BY <1>1 DEF NothingLost, Places
<1>2. CASE UNCHANGED <<queue, emitted, lost, channel, events>>
  <2>1. Places(o)' = Places(o)
    BY <1>2 DEF Places, Arrived, Waiting, Failed
  <2>2. emitted'[o] = emitted[o]
    BY <1>2
  <2>3. CASE object[o] = "none"
    BY <2>1, <2>2, <2>3, CreatePlaces
  <2>4. CASE object[o] # "none"
    <3>1. object[o] = "alive" /\ open[o]
      BY <2>4, AliveBefore
    <3> QED
      BY <1>1, <2>1, <2>2, <3>1
  <2> QED
    BY <2>3, <2>4
<1>3. ASSUME NEW x \in Objects, Emit(x) PROVE 1 .. emitted'[o] = Places(o)'
  BY <1>3, EmitPlaces DEF Emit
<1>4. ASSUME NEW k \in Callbacks, Drain(k) PROVE 1 .. emitted'[o] = Places(o)'
  BY <1>1, <1>4, TakePlaces, TakeEndsPlaces DEF Drain
<1>5. ASSUME NEW k \in Callbacks, Lookup(k) PROVE 1 .. emitted'[o] = Places(o)'
  <2>1. object[o] = "alive" /\ open[o] /\ emitted'[o] = emitted[o]
    BY <1>5 DEF Lookup, driverVars
  <2> QED
    BY <1>1, <1>5, <2>1, LookupPlaces
<1>6. ASSUME NEW k \in Callbacks, Send(k) PROVE 1 .. emitted'[o] = Places(o)'
  <2>1. object[o] = "alive" /\ open[o] /\ emitted'[o] = emitted[o]
    BY <1>6 DEF Send, driverVars
  <2> QED
    BY <1>1, <1>6, <2>1, SendPlaces
<1> QED
  BY <1>2, <1>3, <1>4, <1>5, <1>6 DEF vars, driverVars, callbackVars, Next, Create,
     RegisterReference, Drop, ListenerStops, Collect, CallBack, Callback, Return

\* While an object and its listener live, each event the driver made for it has
\* arrived, is under way, or was one the driver failed to hand over.
THEOREM NothingIsLost == Spec => []NothingLost
<1>1. Init => NothingLost
  BY DEF Init, NothingLost
<1>2. IInv /\ NothingLost /\ [Next]_vars => NothingLost'
  BY NothingLostStep
<1> QED
  BY <1>1, <1>2, SpecIInv, PTL DEF Spec

=============================================================================
