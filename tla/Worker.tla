------------------------------- MODULE Worker -------------------------------
(***************************************************************************)
(* PduAsyncWorker (worker/mod.rs): the unbounded queue of queries, the     *)
(* command thread that turns them into driver calls, the supervisor that   *)
(* restarts it after a panic, and the shutdown when the last Arc is        *)
(* dropped.  Clients are the tasks and objects that hold an Arc; those in  *)
(* Owners also own a driver object, whose Drop queues its destructor.      *)
(***************************************************************************)
EXTENDS Naturals, Sequences, FiniteSets

CONSTANTS
  Clients,    \* holders of an Arc<PduAsyncWorker>
  Owners,     \* those that are a PduVci, PduLogicalLink or PduPrimitive
  MaxCalls,   \* bound on the queries each client awaits
  MaxPanics,  \* bound on the calls that panic in the command thread
  MaxCopies   \* bound on copies made with the derived Clone

NoClient == "no_client"

\* PduAsyncWorker::new() hands the first Arc to somebody.
ASSUME WorkerAssumption ==
  /\ Clients # {} /\ Owners \subseteq Clients /\ NoClient \notin Clients
  /\ {MaxCalls, MaxPanics, MaxCopies} \subseteq Nat

\* A query is told apart by who put it and what it asks; nobody awaits the
\* first PDUConstruct or a destructor.
Construct == [from |-> NoClient, kind |-> "construct"]
Destructor(c) == [from |-> c, kind |-> "destructor"]
Query == {Construct} \cup [from : Clients, kind : {"call", "destructor"}]
NoQuery == [from |-> NoClient, kind |-> "none"]

VARIABLES
  queue,             \* the flume channel
  calls,             \* history: the queries made as driver calls, in order
  destructs,         \* how often PDUDestruct has been called at shutdown
  thread,            \* what the command thread does next
  cur,               \* the query it has taken
  panics,            \* how often it has panicked
  client,            \* what each client is doing
  asked,             \* how many queries each client has put and awaited
  copies,            \* copies of the worker made with Clone and still alive
  copied,            \* copies made so far
  dropped,           \* the flag Drop sets
  drop_panicked,     \* Drop found the flag set
  destruct_on_drop

threadVars == <<destructs, thread, cur, panics>>
clientVars == <<client, asked>>
arcVars    == <<copies, copied, dropped, drop_panicked>>
vars == <<queue, calls, threadVars, clientVars, arcVars, destruct_on_drop>>

\* Clients that still hold their Arc.
Holders == {c \in Clients : client[c] # "released"}

-----------------------------------------------------------------------------
(***************************************************************************)
(* The clients.                                                            *)
(***************************************************************************)

\* request(): the channel is open as long as the supervisor runs.
Put(q) == IF thread = "done" THEN UNCHANGED queue ELSE queue' = Append(queue, q)

\* A generated RPC method: puts the query with a oneshot and awaits the answer.
Await(c) ==
  /\ client[c] = "holding" /\ asked[c] < MaxCalls
  /\ Put([from |-> c, kind |-> "call"])
  /\ client' = [client EXCEPT ![c] =
       IF thread = "done" THEN "holding" ELSE "awaiting"]
  /\ asked' = [asked EXCEPT ![c] = @ + 1]
  /\ UNCHANGED <<calls, threadVars, arcVars, destruct_on_drop>>

\* The future of the RPC is dropped; the query stays in the queue.
Abandon(c) ==
  /\ client[c] = "awaiting"
  /\ client' = [client EXCEPT ![c] = "abandoned"]
  /\ UNCHANGED <<queue, calls, threadVars, asked, arcVars, destruct_on_drop>>

\* Drop of an object queues its destructor before it lets go of its Arc.
DropObject(c) ==
  /\ client[c] \in {"holding", "abandoned"}
  /\ IF c \in Owners THEN Put(Destructor(c)) ELSE UNCHANGED queue
  /\ client' = [client EXCEPT ![c] = "releasing"]
  /\ UNCHANGED <<calls, threadVars, asked, arcVars, destruct_on_drop>>

\* Drop of the worker: sets the flag, and panics if it is set.
\* Mutation: the flag is not set.
DropForgotten == UNCHANGED <<dropped, drop_panicked>>
DropWorker ==
  /\ dropped' = TRUE
  /\ drop_panicked' = (drop_panicked \/ dropped)

Release(c) ==
  /\ client[c] = "releasing"
  /\ client' = [client EXCEPT ![c] = "released"]
  /\ IF Holders = {c} THEN DropWorker ELSE UNCHANGED <<dropped, drop_panicked>>
  /\ UNCHANGED <<queue, calls, threadVars, asked, copies, copied, destruct_on_drop>>

\* PduAsyncWorker derives Clone: a copy of the struct is a worker of its own
\* for Drop, and shares the flag.
Copy(c) ==
  /\ client[c] = "holding" /\ copied < MaxCopies
  /\ copies' = copies + 1 /\ copied' = copied + 1
  /\ UNCHANGED <<queue, calls, threadVars, clientVars, dropped, drop_panicked,
                 destruct_on_drop>>

DropCopy ==
  /\ copies > 0
  /\ copies' = copies - 1
  /\ DropWorker
  /\ UNCHANGED <<queue, calls, threadVars, clientVars, copied, destruct_on_drop>>

SetDestructOnDrop(c) ==
  /\ client[c] = "holding"
  /\ destruct_on_drop' \in BOOLEAN
  /\ UNCHANGED <<queue, calls, threadVars, clientVars, arcVars>>

Client(c) ==
  \/ Await(c) \/ Abandon(c) \/ DropObject(c) \/ Release(c) \/ Copy(c)
  \/ SetDestructOnDrop(c)

-----------------------------------------------------------------------------
(***************************************************************************)
(* The command thread and its supervisor.                                  *)
(***************************************************************************)

\* need_shutdown is read before the queue is found empty.
\* Mutation: the queue is not drained first.
CheckFlagOnly ==
  /\ thread = "top"
  /\ thread' = IF dropped THEN "shutdown" ELSE "recv"
  /\ UNCHANGED <<queue, calls, destructs, cur, panics, clientVars, arcVars,
                 destruct_on_drop>>

CheckFlag ==
  /\ thread = "top"
  /\ thread' = IF dropped THEN "empty" ELSE "recv"
  /\ UNCHANGED <<queue, calls, destructs, cur, panics, clientVars, arcVars,
                 destruct_on_drop>>

CheckEmpty ==
  /\ thread = "empty"
  /\ thread' = IF queue = <<>> THEN "shutdown" ELSE "recv"
  /\ UNCHANGED <<queue, calls, destructs, cur, panics, clientVars, arcVars,
                 destruct_on_drop>>

\* recv_timeout(): a query, or back to the top of the loop after 50 ms.
Receive ==
  /\ thread = "recv"
  /\ \/ /\ queue # <<>>
        /\ cur' = Head(queue) /\ queue' = Tail(queue)
        /\ thread' = "exec"
     \/ queue = <<>> /\ thread' = "top" /\ UNCHANGED <<queue, cur>>
  /\ UNCHANGED <<calls, destructs, panics, clientVars, arcVars, destruct_on_drop>>

\* The caller gets its answer, if it still waits for it.
Answered(c) == IF client[c] = "awaiting" THEN [client EXCEPT ![c] = "holding"] ELSE client

Execute ==
  /\ thread = "exec"
  /\ calls' = Append(calls, cur)
  /\ thread' = "reply"
  /\ UNCHANGED <<queue, destructs, cur, panics, clientVars, arcVars, destruct_on_drop>>

\* Mutation: the query is forgotten only when the next one is taken.
ReplyKeeps ==
  /\ thread = "reply"
  /\ client' = IF cur.from = NoClient \/ cur.kind = "destructor" THEN client
               ELSE Answered(cur.from)
  /\ thread' = "top"
  /\ UNCHANGED <<queue, calls, destructs, cur, panics, asked, arcVars,
                 destruct_on_drop>>

Reply ==
  /\ thread = "reply"
  /\ client' = IF cur.from = NoClient \/ cur.kind = "destructor" THEN client
               ELSE Answered(cur.from)
  /\ cur' = NoQuery /\ thread' = "top"
  /\ UNCHANGED <<queue, calls, destructs, panics, asked, arcVars, destruct_on_drop>>

\* Mutation: the query of a call that panicked is put back and made again.
PanicRequeues ==
  /\ thread = "exec" /\ panics < MaxPanics
  /\ panics' = panics + 1
  /\ calls' = Append(calls, cur)
  /\ queue' = <<cur>> \o queue
  /\ cur' = NoQuery /\ thread' = "panicked"
  /\ UNCHANGED <<destructs, client, asked, arcVars, destruct_on_drop>>

\* The call panics: the query and its oneshot are lost, and the caller gets a
\* channel error.
Panic ==
  /\ thread = "exec" /\ panics < MaxPanics
  /\ panics' = panics + 1
  /\ calls' = Append(calls, cur)
  /\ client' = IF cur.from # NoClient /\ cur.kind # "destructor" /\
                  client[cur.from] = "awaiting"
               THEN [client EXCEPT ![cur.from] = "holding"] ELSE client
  /\ cur' = NoQuery /\ thread' = "panicked"
  /\ UNCHANGED <<queue, destructs, asked, arcVars, destruct_on_drop>>

\* The supervisor starts another command thread on the same queue.
\* Mutation: it takes a panic for the normal end.
RestartNever ==
  /\ thread = "panicked"
  /\ thread' = "done"
  /\ UNCHANGED <<queue, calls, destructs, cur, panics, clientVars, arcVars,
                 destruct_on_drop>>
Restart ==
  /\ thread = "panicked"
  /\ thread' = "top"
  /\ UNCHANGED <<queue, calls, destructs, cur, panics, clientVars, arcVars,
                 destruct_on_drop>>

\* Mutation: the loop is not left.
ShutdownLoops ==
  /\ thread = "shutdown"
  /\ destructs' = IF destruct_on_drop THEN destructs + 1 ELSE destructs
  /\ thread' = "top"
  /\ UNCHANGED <<queue, calls, cur, panics, clientVars, arcVars, destruct_on_drop>>
Shutdown ==
  /\ thread = "shutdown"
  /\ destructs' = IF destruct_on_drop THEN destructs + 1 ELSE destructs
  /\ thread' = "done"
  /\ UNCHANGED <<queue, calls, cur, panics, clientVars, arcVars, destruct_on_drop>>

CommandThread ==
  \/ CheckFlag \/ CheckEmpty \/ Receive \/ Execute \/ Reply \/ Panic \/ Restart
  \/ Shutdown

-----------------------------------------------------------------------------
Init ==
  /\ queue = <<Construct>>
  /\ calls = <<>>
  /\ destructs = 0
  /\ thread = "top"
  /\ cur = NoQuery
  /\ panics = 0
  /\ client = [c \in Clients |-> "holding"]
  /\ asked = [c \in Clients |-> 0]
  /\ copies = 0
  /\ copied = 0
  /\ dropped = FALSE
  /\ drop_panicked = FALSE
  /\ destruct_on_drop = TRUE

Next == CommandThread \/ DropCopy \/ \E c \in Clients : Client(c)

Spec == Init /\ [][Next]_vars

(***************************************************************************)
(* Fairness.  The command thread and its supervisor are threads of their   *)
(* own that never wait for a client, and a Drop that has begun runs to its *)
(* end.  Nothing forces a client to ask or to let go.                      *)
(***************************************************************************)
FairSpec ==
  /\ Spec
  /\ WF_vars(CommandThread)
  /\ \A c \in Clients : WF_vars(Release(c))

-----------------------------------------------------------------------------
(***************************************************************************)
(* Properties.                                                             *)
(***************************************************************************)

\* Types; and the command thread has a query in its hand exactly while it
\* makes its call or answers it, whatever panics in between.
TypeOK ==
  /\ queue \in Seq(Query)
  /\ calls \in Seq(Query)
  /\ destructs \in Nat
  /\ thread \in {"top", "empty", "recv", "exec", "reply", "panicked",
                 "shutdown", "done"}
  /\ cur \in Query \cup {NoQuery}
  /\ thread \in {"exec", "reply"} <=> cur # NoQuery
  /\ panics \in Nat
  /\ client \in [Clients -> {"holding", "awaiting", "abandoned",
                             "releasing", "released"}]
  /\ asked \in [Clients -> Nat]
  /\ copies \in Nat /\ copied \in Nat
  /\ dropped \in BOOLEAN /\ drop_panicked \in BOOLEAN
  /\ destruct_on_drop \in BOOLEAN

\* The driver outlives the objects made with it: when the worker stops, and
\* so before PDUDestruct, the destructor of every object has been made once
\* and no client is left (each Drop queues its destructor before it lets the
\* Arc go, and the queue is drained after the flag is seen).  A copy of the
\* worker breaks that.
ObjectsBeforeDriver ==
  copied = 0 /\ (thread = "done" \/ destructs > 0) =>
    /\ Holders = {}
    /\ \A c \in Owners : \E i \in DOMAIN calls :
         /\ calls[i] = Destructor(c)
         /\ \A j \in DOMAIN calls : calls[j] = Destructor(c) => j = i

\* PDUDestruct is called at most once at shutdown, even when copies of the
\* worker are dropped while others go on using it, or after it has stopped.
DestructOnce == destructs <= 1

\* "shutdown flag was already set": the expect() in Drop for PduAsyncWorker,
\* which the comment behind it calls infallible.
FlagSetOnce == ~drop_panicked

\* A task that awaits an answer gets one, or an error, in the end.  A copy of
\* the worker that is dropped stops it under a task that still asks: the query
\* put after the queue was found empty is never answered, and the task's own
\* Arc keeps the channel it lies in.
AwaitReturns ==
  \A c \in Clients : client[c] = "awaiting" ~> client[c] # "awaiting" \/ copied > 0

\* When the last Arc is gone the command thread stops, and has called
\* PDUDestruct unless the application opted out; a copy can have stopped it
\* before the application opted in again.
TeardownHappens ==
  Holders = {} ~> /\ thread = "done"
                  /\ destruct_on_drop /\ copied = 0 => destructs = 1

-----------------------------------------------------------------------------
(***************************************************************************)
(* The worker is a serial executor of the queries put to it.               *)
(***************************************************************************)
InHand == IF thread = "exec" THEN <<cur>> ELSE <<>>

Serial == INSTANCE SerialExecutor
            WITH pending <- InHand \o queue, made <- calls,
                 closed <- thread = "done", forced <- copied > 0

SerialFairSpec == Serial!FairSpec

=============================================================================
