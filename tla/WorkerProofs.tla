---------------------------- MODULE WorkerProofs ----------------------------
(***************************************************************************)
(* Theorems about Worker, for every set of clients and every bound: its    *)
(* types, that the driver outlives the objects made with it, that it is    *)
(* destructed once, that the worker is a serial executor, and that answers *)
(* and the teardown are due.                                               *)
(***************************************************************************)
EXTENDS Worker, TLAPS

-----------------------------------------------------------------------------
(***************************************************************************)
(* Types.                                                                  *)
(***************************************************************************)

\* A query the thread can take is not "no query".
LEMMA Queries ==
  /\ Construct \in Query /\ NoQuery \notin Query
  /\ \A c \in Clients : /\ Destructor(c) \in Query
                        /\ [from |-> c, kind |-> "call"] \in Query
BY DEF Construct, NoQuery, Query, Destructor

LEMMA InitType == Init => TypeOK
<1> SUFFICES ASSUME Init PROVE TypeOK
  OBVIOUS
<1>1. queue \in Seq(Query) /\ calls \in Seq(Query) /\ cur = NoQuery
  BY Queries DEF Init
<1> QED
  BY <1>1 DEF Init, TypeOK

LEMMA PutType ==
  ASSUME queue \in Seq(Query), NEW q \in Query, Put(q)
  PROVE  queue' \in Seq(Query)
BY DEF Put

LEMMA ClientType ==
  ASSUME TypeOK, NEW c \in Clients, Client(c)
  PROVE  TypeOK'
<1> USE DEF TypeOK, threadVars, arcVars, clientVars
<1>1. CASE Await(c)
  <2>1. queue' \in Seq(Query)
    <3>1. [from |-> c, kind |-> "call"] \in Query
      BY Queries
    <3> QED
      BY <1>1, <3>1, PutType DEF Await
  <2>2. UNCHANGED <<calls, destructs, thread, cur, panics>>
    BY <1>1 DEF Await
  <2>3. /\ client' \in [Clients -> {"holding", "awaiting", "abandoned",
                                     "releasing", "released"}]
        /\ asked' \in [Clients -> Nat]
    BY <1>1 DEF Await
  <2> QED
    BY <1>1, <2>1, <2>2, <2>3 DEF Await
<1>2. CASE Abandon(c)
  BY <1>2 DEF Abandon
<1>3. CASE DropObject(c)
  <2>1. queue' \in Seq(Query)
    BY <1>3, Queries, PutType DEF DropObject
  <2> QED
    BY <1>3, <2>1 DEF DropObject
<1>4. CASE Release(c)
  BY <1>4 DEF Release, DropWorker
<1>5. CASE Copy(c)
  BY <1>5 DEF Copy
<1>6. CASE SetDestructOnDrop(c)
  BY <1>6 DEF SetDestructOnDrop
<1> QED
  BY <1>1, <1>2, <1>3, <1>4, <1>5, <1>6 DEF Client

LEMMA DropCopyType == TypeOK /\ DropCopy => TypeOK'
BY DEF TypeOK, DropCopy, DropWorker, threadVars, clientVars

LEMMA ThreadType ==
  ASSUME TypeOK, CommandThread
  PROVE  TypeOK'
<1> USE Queries DEF TypeOK, arcVars, clientVars
<1>1. CASE CheckFlag \/ CheckEmpty \/ Restart \/ Shutdown
  BY <1>1 DEF CheckFlag, CheckEmpty, Restart, Shutdown
<1>2. CASE Receive
  <2>1. queue # <<>> => Head(queue) \in Query /\ Tail(queue) \in Seq(Query)
    OBVIOUS
  <2> QED
    BY <1>2, <2>1 DEF Receive
<1>3. CASE Execute
  BY <1>3 DEF Execute
<1>4. CASE Reply
  BY <1>4 DEF Reply, Answered
<1>5. CASE Panic
  <2>1. calls' \in Seq(Query) /\ cur' = NoQuery /\ panics' \in Nat
    BY <1>5 DEF Panic
  <2>2. client' \in [Clients -> {"holding", "awaiting", "abandoned",
                                 "releasing", "released"}]
    BY <1>5 DEF Panic
  <2> QED
    BY <1>5, <2>1, <2>2 DEF Panic
<1> QED
  BY <1>1, <1>2, <1>3, <1>4, <1>5 DEF CommandThread

-----------------------------------------------------------------------------
(***************************************************************************)
(* Shutdown.  The flag is set when the last holder lets go, the thread     *)
(* leaves its loop with the flag set and the queue empty, and nobody is    *)
(* left to put a query: unless there are copies.                           *)
(***************************************************************************)
CopiesCounted == copies <= copied

FlagMeansNobody == copied = 0 /\ dropped => Holders = {}

LeavesWithFlag == thread \in {"empty", "shutdown", "done"} => dropped

LeavesEmpty == copied = 0 /\ thread \in {"shutdown", "done"} => queue = <<>>

DestructsAtEnd == /\ thread # "done" => destructs = 0
                  /\ destructs <= 1

ShutdownInv ==
  /\ CopiesCounted /\ FlagMeansNobody /\ LeavesWithFlag /\ LeavesEmpty
  /\ DestructsAtEnd
  /\ drop_panicked => copied > 0

LEMMA InitShutdown == Init => ShutdownInv
BY DEF Init, ShutdownInv, CopiesCounted, FlagMeansNobody, LeavesWithFlag,
   LeavesEmpty, DestructsAtEnd

LEMMA ClientShutdown ==
  ASSUME TypeOK, ShutdownInv, NEW c \in Clients, Client(c)
  PROVE  ShutdownInv'
<1> USE DEF TypeOK, ShutdownInv, CopiesCounted, FlagMeansNobody, LeavesWithFlag,
        LeavesEmpty, DestructsAtEnd, Holders, threadVars, arcVars, clientVars
<1>1. CASE Await(c)
  BY <1>1 DEF Await, Put
<1>2. CASE Abandon(c)
  BY <1>2 DEF Abandon
<1>3. CASE DropObject(c)
  BY <1>3 DEF DropObject, Put
<1>4. CASE Release(c)
  BY <1>4 DEF Release, DropWorker
<1>5. CASE Copy(c)
  BY <1>5 DEF Copy
<1>6. CASE SetDestructOnDrop(c)
  BY <1>6 DEF SetDestructOnDrop
<1> QED
  BY <1>1, <1>2, <1>3, <1>4, <1>5, <1>6 DEF Client

LEMMA DropCopyShutdown ==
  ASSUME TypeOK, ShutdownInv, DropCopy
  PROVE  ShutdownInv'
BY DEF TypeOK, ShutdownInv, CopiesCounted, FlagMeansNobody, LeavesWithFlag,
   LeavesEmpty, DestructsAtEnd, Holders, threadVars, clientVars, DropCopy, DropWorker

LEMMA ThreadShutdown ==
  ASSUME TypeOK, ShutdownInv, CommandThread
  PROVE  ShutdownInv'
<1>1. /\ UNCHANGED <<copies, copied, dropped, drop_panicked>>
      /\ \A c \in Clients : client[c] = "released" => client'[c] = "released"
  BY DEF TypeOK, CommandThread, CheckFlag, CheckEmpty, Receive, Execute, Reply,
     Answered, Panic, Restart, Shutdown, arcVars, clientVars
<1>2. CopiesCounted' /\ FlagMeansNobody' /\ (drop_panicked => copied > 0)'
  BY <1>1 DEF ShutdownInv, CopiesCounted, FlagMeansNobody, Holders
<1>3. LeavesWithFlag' /\ LeavesEmpty' /\ DestructsAtEnd'
  BY DEF TypeOK, ShutdownInv, LeavesWithFlag, LeavesEmpty, DestructsAtEnd, arcVars,
     CommandThread, CheckFlag, CheckEmpty, Receive, Execute, Reply, Panic, Restart,
     Shutdown
<1> QED
  BY <1>2, <1>3 DEF ShutdownInv

-----------------------------------------------------------------------------
(***************************************************************************)
(* The destructor of an object is in one place from the moment the object  *)
(* is dropped: in the queue, in the command thread's hand, or among the    *)
(* calls.                                                                  *)
(***************************************************************************)
Has(s, c) == \E i \in DOMAIN s : s[i] = Destructor(c)
Once(s, c) ==
  \A i, j \in DOMAIN s : s[i] = Destructor(c) /\ s[j] = Destructor(c) => i = j
Held(c) == thread = "exec" /\ cur = Destructor(c)

Apart(c) ==
  /\ Once(queue, c) /\ Once(calls, c)
  /\ ~ (Has(queue, c) /\ Has(calls, c))
  /\ ~ (Has(queue, c) /\ Held(c))
  /\ ~ (Has(calls, c) /\ Held(c))

Placed(c) ==
  IF client[c] \in {"releasing", "released"}
    THEN copied = 0 => Has(queue, c) \/ Held(c) \/ Has(calls, c)
    ELSE ~ Has(queue, c) /\ ~ Held(c) /\ ~ Has(calls, c)

DestructorsInv == \A c \in Owners : Apart(c) /\ Placed(c)

IInv == TypeOK /\ ShutdownInv /\ DestructorsInv

\* Destructors of two objects differ, and from the other queries.
LEMMA DestructorsDiffer ==
  \A c, d : /\ Destructor(c) = Destructor(d) => c = d
            /\ Destructor(c) # [from |-> d, kind |-> "call"]
            /\ Destructor(c) # Construct /\ Destructor(c) # NoQuery
BY DEF Destructor, Construct, NoQuery

\* What a queue or a history holds after a query is put, and after the first
\* is taken.
LEMMA AppendHas ==
  ASSUME NEW s \in Seq(Query), NEW q \in Query, NEW c
  PROVE  /\ Has(Append(s, q), c) <=> Has(s, c) \/ q = Destructor(c)
         /\ Once(s, c) /\ ~ (Has(s, c) /\ q = Destructor(c)) => Once(Append(s, q), c)
<1>1. /\ DOMAIN Append(s, q) = DOMAIN s \cup {Len(s) + 1}
      /\ Append(s, q)[Len(s) + 1] = q
      /\ \A i \in DOMAIN s : Append(s, q)[i] = s[i]
  OBVIOUS
<1> QED
  BY <1>1 DEF Has, Once

LEMMA TailHas ==
  ASSUME NEW s \in Seq(Query), s # <<>>, NEW c
  PROVE  /\ Has(s, c) <=> Head(s) = Destructor(c) \/ Has(Tail(s), c)
         /\ Once(s, c) =>
              Once(Tail(s), c) /\ ~ (Head(s) = Destructor(c) /\ Has(Tail(s), c))
<1>1. /\ 1 \in DOMAIN s /\ Head(s) = s[1]
      /\ \A i \in DOMAIN Tail(s) :
           i \in Nat /\ i + 1 \in DOMAIN s /\ i + 1 # 1 /\ Tail(s)[i] = s[i + 1]
      /\ \A i \in DOMAIN s :
           i = 1 \/ (i - 1 \in DOMAIN Tail(s) /\ Tail(s)[i - 1] = s[i])
  OBVIOUS
<1>2. PICK t : t = Tail(s)
  OBVIOUS
<1>3. Has(s, c) => s[1] = Destructor(c) \/ Has(t, c)
  BY <1>1, <1>2 DEF Has
<1>4. s[1] = Destructor(c) \/ Has(t, c) => Has(s, c)
  BY <1>1, <1>2 DEF Has
<1>5. Once(s, c) => Once(t, c) /\ ~ (s[1] = Destructor(c) /\ Has(t, c))
  BY <1>1, <1>2 DEF Once, Has
<1> QED
  BY <1>1, <1>2, <1>3, <1>4, <1>5

LEMMA InitIInv == Init => IInv
<1> SUFFICES ASSUME Init PROVE IInv
  OBVIOUS
<1>1. DestructorsInv
  <2> SUFFICES ASSUME NEW c \in Owners PROVE Apart(c) /\ Placed(c)
    BY DEF DestructorsInv
  <2>1. ~ Has(queue, c) /\ ~ Has(calls, c) /\ ~ Held(c)
    BY DestructorsDiffer DEF Init, Has, Held
  <2>2. client[c] = "holding"
    BY WorkerAssumption DEF Init
  <2> QED
    BY <2>1, <2>2 DEF Apart, Placed, Has, Once
<1> QED
  BY <1>1, InitType, InitShutdown DEF IInv

\* A client that puts a query, drops its object or lets go of its Arc.
LEMMA ClientDestructors ==
  ASSUME IInv, NEW x \in Clients, Client(x)
  PROVE  DestructorsInv'
<1> SUFFICES ASSUME NEW c \in Owners PROVE Apart(c)' /\ Placed(c)'
  BY DEF DestructorsInv
<1>1. c \in Clients /\ TypeOK /\ ShutdownInv /\ Apart(c) /\ Placed(c)
  BY WorkerAssumption DEF IInv, DestructorsInv
<1>2. UNCHANGED <<calls, thread, cur>> /\ Held(c)' = Held(c)
  BY DEF Client, Await, Abandon, DropObject, Release, Copy, SetDestructOnDrop,
     threadVars, Held
<1>3. CASE UNCHANGED queue
  <2>1. Apart(c)'
    BY <1>1, <1>2, <1>3 DEF Apart
  <2>2. CASE /\ client'[c] \in {"releasing", "released"} <=>
                  client[c] \in {"releasing", "released"}
             /\ copied' = 0 => copied = 0
    BY <1>1, <1>2, <1>3, <2>1, <2>2 DEF Placed
  <2>3. CASE DropObject(x) /\ x = c
    <3>1. thread = "done"
      <4>1. queue' = Append(queue, Destructor(c)) \/ thread = "done"
        BY <2>3 DEF DropObject, Put
      <4>2. Append(queue, Destructor(c)) # queue
        BY <1>1, Queries DEF TypeOK
      <4> QED
        BY <1>3, <4>1, <4>2
    <3>2. copied # 0
      BY <1>1, <2>3, <3>1 DEF ShutdownInv, FlagMeansNobody, LeavesWithFlag, Holders,
         DropObject
    <3>3. copied' # 0 /\ client'[c] = "releasing"
      BY <1>1, <2>3, <3>2 DEF DropObject, arcVars, TypeOK
    <3> QED
      BY <2>1, <3>3 DEF Placed
  <2> QED
    BY <1>1, <2>2, <2>3 DEF Client, Await, Abandon, DropObject, Release, Copy,
       SetDestructOnDrop, TypeOK, arcVars, clientVars
<1>4. CASE ~ UNCHANGED queue
  <2>1. PICK q \in Query :
          /\ queue' = Append(queue, q)
          /\ q = Destructor(c) => x = c
          /\ \/ Await(x) /\ q # Destructor(c)
             \/ DropObject(x) /\ q = Destructor(x)
    <3>1. CASE Await(x)
      BY <1>4, <3>1, Queries, DestructorsDiffer DEF Await, Put
    <3>2. CASE DropObject(x)
      BY <1>4, <3>2, Queries, DestructorsDiffer DEF DropObject, Put
    <3> QED
      BY <1>4, <3>1, <3>2 DEF Client, Abandon, Release, Copy, SetDestructOnDrop
  <2>2. /\ Has(queue', c) <=> Has(queue, c) \/ q = Destructor(c)
        /\ Once(queue, c) /\ ~ (Has(queue, c) /\ q = Destructor(c)) => Once(queue', c)
    BY <1>1, <2>1, AppendHas DEF TypeOK
  <2>3. CASE q = Destructor(c)
    <3>1. x = c /\ DropObject(c) /\ client'[c] = "releasing"
      BY <1>1, <2>1, <2>3 DEF DropObject, TypeOK
    <3>2. ~ Has(queue, c) /\ ~ Held(c) /\ ~ Has(calls, c)
      BY <1>1, <3>1 DEF Placed, DropObject
    <3> QED
      BY <1>1, <1>2, <2>2, <2>3, <3>1, <3>2 DEF Apart, Placed
  <2>4. CASE q # Destructor(c)
    <3>1. /\ client'[c] \in {"releasing", "released"} <=>
               client[c] \in {"releasing", "released"}
          /\ copied' = copied
      BY <1>1, <2>1, <2>4 DEF Await, DropObject, TypeOK, arcVars
    <3> QED
      BY <1>1, <1>2, <2>2, <2>4, <3>1 DEF Apart, Placed
  <2> QED
    BY <2>3, <2>4
<1> QED
  BY <1>3, <1>4

\* The command thread moves a query from the queue to its hand and from there
\* to the calls.
LEMMA ThreadDestructors ==
  ASSUME IInv, CommandThread
  PROVE  DestructorsInv'
<1> SUFFICES ASSUME NEW c \in Owners PROVE Apart(c)' /\ Placed(c)'
  BY DEF DestructorsInv
<1>1. c \in Clients /\ TypeOK /\ Apart(c) /\ Placed(c)
  BY WorkerAssumption DEF IInv, DestructorsInv
<1>2. /\ client'[c] \in {"releasing", "released"} <=>
           client[c] \in {"releasing", "released"}
      /\ copied' = copied
  BY <1>1 DEF CommandThread, CheckFlag, CheckEmpty, Receive, Execute, Reply, Answered,
     Panic, Restart, Shutdown, TypeOK, arcVars, clientVars
<1>3. CASE Receive /\ queue # <<>>
  <2>1. queue' = Tail(queue) /\ UNCHANGED calls /\ thread = "recv" /\ thread' = "exec"
    BY <1>3 DEF Receive
  <2>2. ~ Held(c) /\ (Held(c)' <=> Head(queue) = Destructor(c))
    BY <1>3, <2>1 DEF Held, Receive
  <2>3. /\ Has(queue, c) <=> Held(c)' \/ Has(queue', c)
        /\ Once(queue, c) => Once(queue', c) /\ ~ (Held(c)' /\ Has(queue', c))
    BY <1>1, <1>3, <2>1, <2>2, TailHas DEF TypeOK
  <2> QED
    BY <1>1, <1>2, <2>1, <2>2, <2>3 DEF Apart, Placed
<1>4. CASE Execute \/ Panic
  <2>1. /\ calls' = Append(calls, cur) /\ UNCHANGED queue
        /\ thread = "exec" /\ thread' # "exec"
    BY <1>4 DEF Execute, Panic
  <2>2. cur \in Query /\ calls \in Seq(Query)
    BY <1>1, <2>1 DEF TypeOK
  <2>3. ~ Held(c)' /\ (Held(c) <=> cur = Destructor(c))
    BY <2>1 DEF Held
  <2>4. /\ Has(calls', c) <=> Has(calls, c) \/ Held(c)
        /\ Once(calls, c) /\ ~ (Has(calls, c) /\ Held(c)) => Once(calls', c)
    BY <2>1, <2>2, <2>3, AppendHas
  <2> QED
    BY <1>1, <1>2, <2>1, <2>3, <2>4 DEF Apart, Placed
<1>5. CASE \/ CheckFlag \/ CheckEmpty \/ Reply \/ Restart \/ Shutdown
           \/ Receive /\ queue = <<>>
  <2>1. UNCHANGED <<queue, calls>> /\ thread # "exec" /\ thread' # "exec"
    BY <1>5 DEF CheckFlag, CheckEmpty, Reply, Restart, Shutdown, Receive
  <2>2. ~ Held(c) /\ ~ Held(c)'
    BY <2>1 DEF Held
  <2> QED
    BY <1>1, <1>2, <2>1, <2>2 DEF Apart, Placed
<1> QED
  BY <1>3, <1>4, <1>5 DEF CommandThread

LEMMA NextIInv == IInv /\ [Next]_vars => IInv'
<1> SUFFICES ASSUME IInv, [Next]_vars PROVE IInv'
  OBVIOUS
<1>1. TypeOK /\ ShutdownInv /\ DestructorsInv
  BY DEF IInv
<1>2. CASE CommandThread
  BY <1>1, <1>2, ThreadType, ThreadShutdown, ThreadDestructors DEF IInv
<1>3. CASE DropCopy
  <2>1. DestructorsInv'
    BY <1>1, <1>3 DEF DropCopy, DestructorsInv, Apart, Placed, Held, threadVars,
       clientVars
  <2> QED
    BY <1>1, <1>3, <2>1, DropCopyType, DropCopyShutdown DEF IInv
<1>4. ASSUME NEW c \in Clients, Client(c) PROVE IInv'
  BY <1>1, <1>4, ClientType, ClientShutdown, ClientDestructors DEF IInv
<1>5. CASE UNCHANGED vars
  <2>1. TypeOK' /\ ShutdownInv'
    BY <1>1, <1>5 DEF vars, threadVars, clientVars, arcVars, TypeOK, ShutdownInv,
       CopiesCounted, FlagMeansNobody, LeavesWithFlag, LeavesEmpty, DestructsAtEnd,
       Holders
  <2>2. DestructorsInv'
    BY <1>1, <1>5 DEF vars, threadVars, clientVars, arcVars, DestructorsInv, Apart,
       Placed, Held
  <2> QED
    BY <2>1, <2>2 DEF IInv
<1> QED
  BY <1>2, <1>3, <1>4, <1>5 DEF Next

LEMMA SpecIInv == Spec => []IInv
<1> QED
  BY InitIInv, NextIInv, PTL DEF Spec

\* In every reachable state the variables have their types, and the command
\* thread has a query in its hand exactly while it makes or answers it.
THEOREM TypeCorrect == Spec => []TypeOK
<1>1. IInv => TypeOK
  BY DEF IInv
<1> QED
  BY <1>1, SpecIInv, PTL

\* PDUDestruct is called at most once; and where the worker is not copied no
\* Drop of it finds the shutdown flag set, as the comment in it has it.
THEOREM DestructsOnce ==
  Spec => [](DestructOnce /\ (copied = 0 => FlagSetOnce))
<1>1. IInv => DestructOnce /\ (copied = 0 => FlagSetOnce)
  BY DEF IInv, TypeOK, ShutdownInv, DestructsAtEnd, DestructOnce, FlagSetOnce
<1> QED
  BY <1>1, SpecIInv, PTL

\* When the worker stops, the destructor of every object has been called, once,
\* and nobody holds the worker, unless there was a copy.
THEOREM ObjectsGoFirst == Spec => []ObjectsBeforeDriver
<1>1. IInv => ObjectsBeforeDriver
  <2> SUFFICES ASSUME IInv, copied = 0, thread = "done" \/ destructs > 0
               PROVE  /\ Holders = {}
                      /\ \A c \in Owners : \E i \in DOMAIN calls :
                           /\ calls[i] = Destructor(c)
                           /\ \A j \in DOMAIN calls : calls[j] = Destructor(c) => j = i
    BY DEF ObjectsBeforeDriver
  <2>1. thread = "done"
    BY DEF IInv, TypeOK, ShutdownInv, DestructsAtEnd
  <2>2. Holders = {} /\ queue = <<>>
    BY <2>1 DEF IInv, ShutdownInv, FlagMeansNobody, LeavesWithFlag, LeavesEmpty
  <2>3. ASSUME NEW c \in Owners PROVE Has(calls, c) /\ Once(calls, c)
    <3>1. client[c] = "released" /\ ~ Has(queue, c) /\ ~ Held(c)
      BY <2>1, <2>2, WorkerAssumption DEF Holders, Has, Held
    <3> QED
      BY <3>1 DEF IInv, DestructorsInv, Apart, Placed
  <2> QED
    BY <2>2, <2>3 DEF Has, Once
<1> QED
  BY <1>1, SpecIInv, PTL

-----------------------------------------------------------------------------
(***************************************************************************)
(* What AwaitReturns and TeardownHappens promise, but for the time it      *)
(* takes.  A client awaits a query that is in the queue or in the thread's *)
(* hand, so that its oneshot lives; and the flag the loop looks at is set  *)
(* as soon as nobody holds the worker.                                     *)
(***************************************************************************)
CallOf(c) == [from |-> c, kind |-> "call"]
Queued(c) == \E i \in DOMAIN queue : queue[i] = CallOf(c)
Taken(c) == thread \in {"exec", "reply"} /\ cur = CallOf(c)

AwaitsAQuery == \A c \in Clients : client[c] = "awaiting" => Queued(c) \/ Taken(c)

\* Without copies the thread does not stop under it either.
AnswerIsDue ==
  \A c \in Clients : client[c] = "awaiting" =>
    /\ Queued(c) \/ Taken(c)
    /\ copied = 0 => thread \notin {"shutdown", "done"}

TeardownIsDue ==
  /\ Holders = {} => dropped
  /\ thread = "done" /\ copied = 0 => destructs = IF destruct_on_drop THEN 1 ELSE 0

LEMMA InitDue == Init => AwaitsAQuery /\ TeardownIsDue
BY WorkerAssumption DEF Init, AwaitsAQuery, TeardownIsDue, Holders

\* Putting a query keeps those that are in the queue.
LEMMA PutKeeps ==
  ASSUME queue \in Seq(Query), NEW q \in Query, Put(q), NEW c, Queued(c)
  PROVE  Queued(c)'
<1>1. PICK i \in DOMAIN queue : queue[i] = CallOf(c)
  BY DEF Queued
<1>2. i \in DOMAIN queue' /\ queue'[i] = queue[i]
  BY DEF Put
<1> QED
  BY <1>1, <1>2 DEF Queued, CallOf

LEMMA ClientAwaits ==
  ASSUME IInv, AwaitsAQuery, NEW x \in Clients, Client(x)
  PROVE  AwaitsAQuery'
<1> SUFFICES ASSUME NEW c \in Clients, client'[c] = "awaiting"
             PROVE  Queued(c)' \/ Taken(c)'
  BY DEF AwaitsAQuery
<1>1. /\ TypeOK /\ queue \in Seq(Query) /\ UNCHANGED <<thread, cur>>
      /\ client \in [Clients -> {"holding", "awaiting", "abandoned",
                                 "releasing", "released"}]
  BY DEF IInv, TypeOK, Client, Await, Abandon, DropObject, Release, Copy,
     SetDestructOnDrop, threadVars
<1>2. CASE client[c] = "awaiting"
  <2>1. Queued(c) \/ Taken(c)
    BY <1>2 DEF AwaitsAQuery
  <2>2. Taken(c) => Taken(c)'
    BY <1>1 DEF Taken, CallOf
  <2>3. UNCHANGED queue \/ \E q \in Query : Put(q)
    BY Queries DEF Client, Await, Abandon, DropObject, Release, Copy, SetDestructOnDrop
  <2>4. Queued(c) => Queued(c)'
    BY <1>1, <2>3, PutKeeps DEF Queued, CallOf
  <2> QED
    BY <2>1, <2>2, <2>4
<1>3. CASE client[c] # "awaiting"
  <2>1. Await(x) /\ x = c /\ thread # "done"
    BY <1>1, <1>3 DEF Client, Await, Abandon, DropObject, Release, Copy,
       SetDestructOnDrop, clientVars
  <2>2. queue' = Append(queue, CallOf(c)) /\ CallOf(c) \in Query
    BY <2>1, Queries DEF Await, Put, CallOf
  <2>3. Len(queue) + 1 \in DOMAIN queue' /\ queue'[Len(queue) + 1] = CallOf(c)
    BY <1>1, <2>2
  <2> QED
    BY <2>3 DEF Queued, CallOf
<1> QED
  BY <1>2, <1>3

LEMMA ThreadAwaits ==
  ASSUME IInv, AwaitsAQuery, CommandThread
  PROVE  AwaitsAQuery'
<1> SUFFICES ASSUME NEW c \in Clients, client'[c] = "awaiting"
             PROVE  Queued(c)' \/ Taken(c)'
  BY DEF AwaitsAQuery
<1>1. /\ TypeOK /\ queue \in Seq(Query)
      /\ client \in [Clients -> {"holding", "awaiting", "abandoned",
                                 "releasing", "released"}]
  BY DEF IInv, TypeOK
<1>2. client[c] = "awaiting" /\ (thread \in {"exec", "reply"} => Execute \/ cur # CallOf(c))
  <2>1. CASE Reply \/ Panic
    <3>1. \/ UNCHANGED client
          \/ cur.from \in Clients /\ client' = [client EXCEPT ![cur.from] = "holding"]
      <4>1. cur \in Query
        BY <1>1, <2>1 DEF Reply, Panic, TypeOK
      <4>2. cur.from # NoClient => cur.from \in Clients
        BY <4>1 DEF Query, Construct
      <4> QED
        BY <2>1, <4>2 DEF Reply, Panic, Answered
    <3>2. /\ CallOf(c).from = c /\ CallOf(c).kind # "destructor" /\ c # NoClient
          /\ [client EXCEPT ![c] = "holding"][c] = "holding"
      BY <1>1, WorkerAssumption DEF CallOf
    <3>3. cur # CallOf(c)
      <4>1. cur = CallOf(c) => client' = Answered(c)
        BY <2>1, <3>2 DEF Reply, Panic, Answered
      <4> QED
        BY <3>2, <4>1 DEF Answered
    <3>4. client[c] = "awaiting"
      <4>1. \A x \in Clients : [client EXCEPT ![x] = "holding"][c] \in {"holding", client[c]}
        BY <1>1
      <4> QED
        BY <3>1, <4>1
    <3> QED
      BY <3>3, <3>4
  <2>2. CASE ~ (Reply \/ Panic)
    BY <2>2 DEF CommandThread, CheckFlag, CheckEmpty, Receive, Execute, Restart,
       Shutdown, clientVars
  <2> QED
    BY <2>1, <2>2
<1>3. Queued(c) \/ Taken(c)
  BY <1>2 DEF AwaitsAQuery
<1>4. CASE Taken(c)
  <2>1. Execute
    BY <1>2, <1>4 DEF Taken
  <2> QED
    BY <1>4, <2>1 DEF Taken, Execute, CallOf
<1>5. CASE Queued(c) /\ Receive /\ queue # <<>>
  <2>1. PICK i \in DOMAIN queue : queue[i] = CallOf(c)
    BY <1>5 DEF Queued
  <2>2. queue' = Tail(queue) /\ cur' = Head(queue) /\ thread' = "exec"
    BY <1>5 DEF Receive
  <2>3. CASE i = 1
    <3>1. cur' = CallOf(c)
      BY <1>1, <1>5, <2>1, <2>2, <2>3
    <3> QED
      BY <2>2, <3>1 DEF Taken, CallOf
  <2>4. CASE i # 1
    <3>1. i - 1 \in DOMAIN queue' /\ queue'[i - 1] = queue[i]
      BY <1>1, <1>5, <2>1, <2>2, <2>4
    <3> QED
      BY <2>1, <3>1 DEF Queued, CallOf
  <2> QED
    BY <2>3, <2>4
<1>6. CASE Queued(c) /\ ~ (Receive /\ queue # <<>>)
  <2>1. UNCHANGED queue
    BY <1>6 DEF CommandThread, CheckFlag, CheckEmpty, Receive, Execute, Reply, Panic,
       Restart, Shutdown
  <2> QED
    BY <1>6, <2>1 DEF Queued, CallOf
<1> QED
  BY <1>3, <1>4, <1>5, <1>6

LEMMA NextTeardown ==
  ASSUME IInv, TeardownIsDue, [Next]_vars
  PROVE  TeardownIsDue'
<1>1. /\ TypeOK /\ ShutdownInv /\ DestructsAtEnd /\ FlagMeansNobody /\ LeavesWithFlag
      /\ client \in [Clients -> {"holding", "awaiting", "abandoned",
                                 "releasing", "released"}]
      /\ copied \in Nat
  BY DEF IInv, ShutdownInv, TypeOK
<1>2. ASSUME NEW c \in Clients, Client(c)
      PROVE  TeardownIsDue'
  <2>1. UNCHANGED <<thread, destructs>> /\ (copied' = 0 => copied = 0)
    BY <1>1, <1>2 DEF Client, Await, Abandon, DropObject, Release, Copy,
       SetDestructOnDrop, threadVars, arcVars
  <2>2. (Holders = {} => dropped)'
    <3>1. CASE Release(c)
      <4>1. Holders' = Holders \ {c} /\ c \in Holders
        BY <1>1, <3>1 DEF Holders, Release
      <4> QED
        BY <3>1, <4>1 DEF Release, DropWorker, TeardownIsDue
    <3>2. CASE ~ Release(c)
      <4>1. Holders' = Holders /\ UNCHANGED dropped
        BY <1>1, <1>2, <3>2 DEF Holders, Client, Await, Abandon, DropObject, Copy,
           SetDestructOnDrop, arcVars, clientVars
      <4> QED
        BY <4>1 DEF TeardownIsDue
    <3> QED
      BY <3>1, <3>2
  <2>3. thread = "done" /\ copied = 0 => UNCHANGED destruct_on_drop
    <3>1. thread = "done" /\ copied = 0 => client[c] = "released"
      BY <1>1 DEF FlagMeansNobody, LeavesWithFlag, Holders
    <3> QED
      BY <1>2, <3>1 DEF Client, Await, Abandon, DropObject, Release, Copy,
         SetDestructOnDrop
  <2> QED
    BY <2>1, <2>2, <2>3 DEF TeardownIsDue
<1>3. CASE CommandThread
  <2>1. /\ UNCHANGED <<copied, dropped, destruct_on_drop>>
        /\ \A c \in Clients : client[c] # "released" => client'[c] # "released"
    BY <1>1, <1>3 DEF CommandThread, CheckFlag, CheckEmpty, Receive, Execute, Reply,
       Answered, Panic, Restart, Shutdown, arcVars, clientVars
  <2>2. (Holders = {} => dropped)'
    BY <2>1 DEF Holders, TeardownIsDue
  <2>3. CASE Shutdown
    BY <1>1, <2>1, <2>2, <2>3 DEF Shutdown, TeardownIsDue, DestructsAtEnd
  <2>4. CASE ~ Shutdown
    <3>1. UNCHANGED destructs /\ thread' # "done"
      BY <1>3, <2>4 DEF CommandThread, CheckFlag, CheckEmpty, Receive, Execute, Reply,
         Panic, Restart
    <3> QED
      BY <2>2, <3>1 DEF TeardownIsDue
  <2> QED
    BY <2>3, <2>4
<1>4. CASE DropCopy
  BY <1>4 DEF DropCopy, DropWorker, TeardownIsDue, Holders, threadVars, clientVars
<1>5. CASE UNCHANGED vars
  BY <1>5 DEF vars, TeardownIsDue, Holders, threadVars, clientVars, arcVars
<1> QED
  BY <1>2, <1>3, <1>4, <1>5 DEF Next

\* request(), the queue, recv_timeout() and the supervisor together: the query
\* a client awaits is not lost, whatever panics and whoever gives up, and
\* without copies of the worker the thread does not leave it in the queue.
\* That the thread gets to it is liveness.
THEOREM AnswersAreDue == Spec => []AnswerIsDue
<1>1. (IInv /\ AwaitsAQuery) /\ [Next]_vars => AwaitsAQuery'
  <2>1. DropCopy \/ UNCHANGED vars =>
          UNCHANGED <<queue, thread, cur, client>>
    BY DEF DropCopy, vars, threadVars, clientVars
  <2>2. AwaitsAQuery /\ UNCHANGED <<queue, thread, cur, client>> => AwaitsAQuery'
    BY DEF AwaitsAQuery, Queued, Taken, CallOf
  <2> QED
    BY <2>1, <2>2, ClientAwaits, ThreadAwaits DEF Next
<1>2. IInv /\ AwaitsAQuery => AnswerIsDue
  BY DEF IInv, ShutdownInv, FlagMeansNobody, LeavesWithFlag, Holders, AwaitsAQuery,
     AnswerIsDue
<1> QED
  BY <1>1, <1>2, InitDue, SpecIInv, PTL DEF Spec

\* Drop of the worker, the loop's check of the flag and PDUDestruct together:
\* the last Arc sets the flag, and a worker that has stopped has called
\* PDUDestruct exactly if the application did not opt out.
THEOREM TeardownsAreDue == Spec => []TeardownIsDue
<1> QED
  BY InitDue, NextTeardown, SpecIInv, PTL DEF Spec

-----------------------------------------------------------------------------
(***************************************************************************)
(* The worker implements the serial executor.                              *)
(***************************************************************************)
Pending == InHand \o queue

\* What is pending when the thread's hand is empty, and when it is not.
LEMMA PendingParts ==
  ASSUME TypeOK
  PROVE  /\ thread # "exec" => Pending = queue
         /\ thread = "exec" => /\ Pending # <<>> /\ Head(Pending) = cur
                               /\ Tail(Pending) = queue
         /\ \A q \in Query : Append(Pending, q) = InHand \o Append(queue, q)
<1>1. queue \in Seq(Query) /\ (thread = "exec" => cur \in Query)
  BY DEF TypeOK
<1>2. CASE thread # "exec"
  BY <1>1, <1>2 DEF Pending, InHand
<1>3. CASE thread = "exec"
  <2>1. Pending = <<cur>> \o queue
    BY <1>3 DEF Pending, InHand
  <2>2. \A q \in Query : Append(<<cur>> \o queue, q) = <<cur>> \o Append(queue, q)
    BY <1>1, <1>3
  <2>3. /\ <<cur>> \o queue # <<>> /\ Head(<<cur>> \o queue) = cur
        /\ Tail(<<cur>> \o queue) = queue
    BY <1>1, <1>3
  <2> QED
    BY <1>3, <2>1, <2>2, <2>3 DEF InHand
<1> QED
  BY <1>2, <1>3

LEMMA InitSerial == Init => Serial!Init
BY Queries DEF Init, Serial!Init, InHand

\* A step of a client puts a query, makes a copy, or changes nothing the
\* executor sees.
LEMMA ClientSerial ==
  ASSUME IInv, NEW c \in Clients, Client(c)
  PROVE  [Serial!Next]_Serial!vars
<1>1. UNCHANGED <<calls, thread, cur>> /\ InHand' = InHand
  BY DEF Client, Await, Abandon, DropObject, Release, Copy, SetDestructOnDrop,
     threadVars, InHand
<1>2. CASE UNCHANGED <<queue, copied>>
  BY <1>1, <1>2 DEF Serial!vars
<1>3. CASE ~ UNCHANGED queue
  <2>1. PICK q \in Query : queue' = Append(queue, q)
    BY <1>3, Queries DEF Client, Await, Abandon, DropObject, Release, Copy,
       SetDestructOnDrop, Put
  <2>2. thread # "done" /\ UNCHANGED copied
    BY <1>3 DEF Client, Await, Abandon, DropObject, Release, Copy,
       SetDestructOnDrop, Put, arcVars
  <2>3. (InHand \o queue)' = Append(InHand \o queue, q)
    BY <1>1, <2>1, PendingParts DEF IInv, Pending
  <2>4. Serial!Put(q)
    BY <1>1, <2>2, <2>3 DEF Serial!Put
  <2> QED
    BY <2>4 DEF Serial!Next
<1>4. CASE UNCHANGED queue /\ ~ UNCHANGED copied
  <2>1. Copy(c)
    BY <1>4 DEF Client, Await, Abandon, DropObject, Release, SetDestructOnDrop, arcVars
  <2>2. copied' > 0
    BY <2>1 DEF Copy, IInv, TypeOK
  <2>3. Serial!Force
    BY <1>1, <1>4, <2>2 DEF Serial!Force
  <2> QED
    BY <2>3 DEF Serial!Next
<1> QED
  BY <1>2, <1>3, <1>4

\* A step of the command thread makes the oldest pending query, closes, or is
\* not seen.
LEMMA ThreadSerial ==
  ASSUME IInv, CommandThread
  PROVE  [Serial!Next]_Serial!vars
<1>1. UNCHANGED copied /\ TypeOK /\ TypeOK'
  BY ThreadType DEF IInv, CommandThread, CheckFlag, CheckEmpty, Receive, Execute,
     Reply, Panic, Restart, Shutdown, arcVars
<1>2. CASE Execute \/ Panic
  <2>1. /\ thread = "exec" /\ thread' \notin {"exec", "done"}
        /\ calls' = Append(calls, cur) /\ UNCHANGED queue
    BY <1>2 DEF Execute, Panic
  <2>2. /\ Pending # <<>> /\ Head(Pending) = cur /\ Tail(Pending) = queue
        /\ InHand' \o queue' = queue
    BY <1>1, <2>1, PendingParts DEF InHand, TypeOK
  <2>3. Serial!Make
    BY <1>1, <2>1, <2>2 DEF Serial!Make, Pending
  <2> QED
    BY <2>3 DEF Serial!Next
<1>3. CASE Shutdown
  <2>1. /\ thread = "shutdown" /\ thread' = "done" /\ UNCHANGED <<queue, calls>>
        /\ InHand = <<>> /\ InHand' = <<>>
    BY <1>3 DEF Shutdown, InHand
  <2>2. queue = <<>> \/ copied > 0
    BY <1>1, <2>1 DEF IInv, ShutdownInv, LeavesEmpty, TypeOK
  <2>3. InHand \o queue = queue /\ (InHand \o queue)' = queue
    BY <1>1, <2>1 DEF TypeOK
  <2>4. Serial!Close
    BY <1>1, <2>1, <2>2, <2>3 DEF Serial!Close
  <2> QED
    BY <2>4 DEF Serial!Next
<1>4. CASE Receive /\ queue # <<>>
  <2>1. /\ queue' = Tail(queue) /\ cur' = Head(queue) /\ UNCHANGED calls
        /\ thread = "recv" /\ thread' = "exec"
    BY <1>4 DEF Receive
  <2>2. InHand \o queue = queue
    BY <1>1, <2>1, PendingParts DEF Pending
  <2>3. (InHand \o queue)' = queue
    <3>1. <<Head(queue)>> \o Tail(queue) = queue
      BY <1>1, <1>4 DEF TypeOK
    <3> QED
      BY <2>1, <3>1 DEF InHand
  <2> QED
    BY <1>1, <2>1, <2>2, <2>3 DEF Serial!vars
<1>5. CASE \/ CheckFlag \/ CheckEmpty \/ Reply \/ Restart
           \/ Receive /\ queue = <<>>
  <2>1. /\ UNCHANGED <<queue, calls>>
        /\ thread \notin {"exec", "done"} /\ thread' \notin {"exec", "done"}
    BY <1>5 DEF CheckFlag, CheckEmpty, Reply, Restart, Receive
  <2>2. InHand' = InHand
    BY <2>1 DEF InHand
  <2> QED
    BY <1>1, <2>1, <2>2 DEF Serial!vars
<1> QED
  BY <1>2, <1>3, <1>4, <1>5 DEF CommandThread

\* The worker implements a serial executor of the queries put to it: each is
\* made once and in order, and none outlives it unless a copy stopped it.
THEOREM ImplementsSerial == Spec => Serial!Spec
<1>1. IInv /\ [Next]_vars => [Serial!Next]_Serial!vars
  <2> SUFFICES ASSUME IInv, [Next]_vars PROVE [Serial!Next]_Serial!vars
    OBVIOUS
  <2>1. CASE UNCHANGED vars
    BY <2>1 DEF vars, threadVars, arcVars, Serial!vars, InHand
  <2>2. CASE DropCopy
    BY <2>2 DEF DropCopy, threadVars, Serial!vars, InHand
  <2> QED
    BY <2>1, <2>2, ClientSerial, ThreadSerial DEF Next
<1> QED
  BY <1>1, InitSerial, SpecIInv, PTL DEF Spec, Serial!Spec

=============================================================================
