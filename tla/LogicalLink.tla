----------------------------- MODULE LogicalLink -----------------------------
(***************************************************************************)
(* PduLogicalLink (types/pdu_com_logical_link.rs): the driver's            *)
(* ComLogicalLink, the wrapper's copies of its working and active buffers  *)
(* of communication parameters, and the mutexes around them.  Threads call *)
(* connect, disconnect and the setters on the link, or start an            *)
(* UpdateParam or RestoreParam primitive of it, which copies a buffer      *)
(* (PduPrimitive::on_start_primitive).  A call to the driver is one step;  *)
(* what the code does after it has returned is another.                    *)
(***************************************************************************)
EXTENDS Naturals

CONSTANTS
  Threads,     \* threads and tasks that call
  Owners,      \* those that hold an Arc<PduLogicalLink> at the start
  Nobody,      \* the holder of a free mutex
  Setters,     \* the owners that set parameters
  Params,      \* communication parameters
  Known,       \* those the MDF names, which the buffers hold
  Unique,      \* those of class UniqueId, set through the table
  Values,      \* values of a parameter
  Default,     \* the value each has when the link is created
  Calls,       \* the calls made in this instance
  WorkerModes, \* whether the link has a worker: FALSE, TRUE or either
  MayAbandon,  \* the future of an async call may be dropped at an await
  MaxCalls     \* bound on the calls of each thread

LinkCalls == {"connect", "disconnect", "set", "table"}
PrimitiveCalls == {"update", "restore"}

ASSUME LinkAssumption ==
  /\ Setters \subseteq Owners /\ Owners \subseteq Threads /\ Owners # {}
  /\ Nobody \notin Threads
  /\ Unique \subseteq Known /\ Known \subseteq Params
  /\ Default \in Values
  /\ Calls \subseteq LinkCalls \cup PrimitiveCalls
  /\ WorkerModes \subseteq BOOLEAN /\ MayAbandon \in BOOLEAN
  /\ MaxCalls \in Nat

Mutexes == {"working", "active"}
Pcs == {"idle", "status", "call", "set", "table", "start", "upgrade",
        "copy_from", "copy_to"}

VARIABLES
  cll,        \* the driver's status of the link
  driver,     \* the driver's two buffers
  accepted,   \* history: the values the driver has had for each parameter
  working,    \* working_buffer
  active,     \* active_buffer
  mutex,      \* who holds the mutex of each of the two
  sync,       \* who holds the mutex sync
  worker,     \* whether the link has a worker; async calls then go through it
  holders,    \* owners that still have their Arc of the link
  upgraded,   \* starts of a primitive that have upgraded their Weak
  call,       \* the method each thread called
  blocking,   \* whether it called the blocking variant
  op,         \* the method that runs for it
  pc,         \* what it does next
  todo,       \* the parameters it has still to set, with their values
  unnoted,    \* those of them to be written to working_buffer next
  made        \* how many calls it has made

bufferVars == <<working, active>>
driverVars == <<cll, driver, accepted>>
callVars == <<call, blocking, op, made>>
setVars == <<todo, unnoted>>
threadVars == <<callVars, pc, setVars>>
arcVars == <<worker, holders, upgraded>>
vars == <<driverVars, bufferVars, mutex, sync, arcVars, threadVars>>

Nothing == [p \in {} |-> Default]
Targets(S) == UNION {[P -> Values] : P \in (SUBSET S) \ {{}}}

\* The driver takes new values into its working buffer.
DriverTakes(new) ==
  /\ driver' = [driver EXCEPT !.working =
       [p \in Params |-> IF p \in DOMAIN new THEN new[p] ELSE @[p]]]
  /\ accepted' = [p \in Params |->
       accepted[p] \cup (IF p \in DOMAIN new THEN {new[p]} ELSE {})]

-----------------------------------------------------------------------------
(***************************************************************************)
(* A call begins and ends.                                                 *)
(***************************************************************************)

\* Without a worker disconnect() runs blocking_connect() in a thread
\* (pdu_com_logical_link.rs:207).
Body(c, direct) ==
  IF c = "disconnect" /\ ~direct /\ ~worker THEN "connect" ELSE c

FirstPc(o) ==
  CASE o \in {"connect", "disconnect"} -> "status"
    [] o \in {"set", "table"}          -> o
    [] OTHER                           -> "start"

\* set_unique_com_params_table() writes the buffer before it calls the driver;
\* with a worker it does not write a table of built ComParams at all.
NotedFirst(o, direct, new) ==
  (IF o = "table" THEN {DOMAIN new} ELSE {{}})
    \cup (IF worker /\ ~direct THEN {{}} ELSE {})

NewValues(o) ==
  CASE o = "set"   -> Targets(Params \ Unique)
    [] o = "table" -> Targets(Unique)
    [] OTHER       -> {Nothing}

Begin(t, c, direct) ==
  /\ pc[t] = "idle" /\ made[t] < MaxCalls
  /\ direct \/ worker \/ c = "disconnect" \* otherwise both variants are one
  /\ c \in LinkCalls => t \in holders
  /\ c \in {"set", "table"} => t \in Setters
  /\ call' = [call EXCEPT ![t] = c]
  /\ blocking' = [blocking EXCEPT ![t] = direct]
  /\ op' = [op EXCEPT ![t] = Body(c, direct)]
  /\ pc' = [pc EXCEPT ![t] = FirstPc(Body(c, direct))]
  /\ made' = [made EXCEPT ![t] = @ + 1]
  /\ \E new \in NewValues(c) :
       /\ todo' = [todo EXCEPT ![t] = new]
       /\ \E S \in NotedFirst(c, direct, new) :
            unnoted' = [unnoted EXCEPT ![t] = S]
  /\ UNCHANGED <<driverVars, bufferVars, mutex, sync, arcVars>>

Goto(t, where) == pc' = [pc EXCEPT ![t] = where]

\* Without a worker an async call is a blocking one in a thread of its own.
Blocks(t) == blocking[t] \/ ~worker

\* The future of an async call may be dropped while it awaits the worker,
\* which makes the call to the driver all the same.
Abandonable(t) == MayAbandon /\ ~Blocks(t)

\* Where a thread goes on after a call to the driver.
After(t, where) == {where} \cup (IF Abandonable(t) THEN {"idle"} ELSE {})

EndCall(t) ==
  /\ pc' = [pc EXCEPT ![t] = "idle"]
  /\ todo' = [todo EXCEPT ![t] = Nothing]
  /\ unnoted' = [unnoted EXCEPT ![t] = {}]

-----------------------------------------------------------------------------
(***************************************************************************)
(* connect() and disconnect().                                             *)
(***************************************************************************)

\* Every blocking call of the link takes sync around its driver call.
SyncFree(t) == Blocks(t) => sync = Nobody

\* blocking_get_status() / get_status().  The call goes on when the status
\* asks for it and returns Ok(false) otherwise, or the error.
GetStatus(t) ==
  /\ pc[t] = "status" /\ SyncFree(t)
  /\ \/ /\ op[t] = "connect" <=> cll = "offline"
        /\ \E w \in After(t, "call") : Goto(t, w)
     \/ Goto(t, "idle")
  /\ UNCHANGED <<driverVars, bufferVars, mutex, sync, arcVars, callVars, setVars>>

\* PDUConnect: the driver makes its working buffer the active one.
Connect(t) ==
  /\ pc[t] = "call" /\ op[t] = "connect" /\ SyncFree(t)
  /\ \/ /\ cll = "offline"
        /\ cll' = "online"
        /\ driver' = [driver EXCEPT !.active = driver.working]
        /\ \E w \in After(t, "copy_from") : Goto(t, w)
        /\ sync' = IF Blocks(t) THEN t ELSE sync
     \/ Goto(t, "idle") /\ UNCHANGED <<cll, driver, sync>>
  /\ UNCHANGED <<accepted, bufferVars, mutex, arcVars, callVars, setVars>>

Disconnect(t) ==
  /\ pc[t] = "call" /\ op[t] = "disconnect" /\ SyncFree(t)
  /\ \/ cll = "online" /\ cll' = "offline"
     \/ UNCHANGED cll
  /\ Goto(t, "idle")
  /\ UNCHANGED <<driver, accepted, bufferVars, mutex, sync, arcVars, callVars,
                 setVars>>

-----------------------------------------------------------------------------
(***************************************************************************)
(* set_com_params() and set_unique_com_params_table().  Neither takes sync.*)
(***************************************************************************)

Without(new, p) == [x \in DOMAIN new \ {p} |-> new[x]]
Only(new, p) == [x \in {p} |-> new[x]]

\* The next parameter, in any order, is taken, or not supported and skipped,
\* or refused, which ends the call and leaves the rest unset.
Takes(t, p) ==
  /\ DriverTakes(Only(todo[t], p))
  /\ \/ unnoted' = [unnoted EXCEPT ![t] = {p}] /\ UNCHANGED <<todo, pc>>
     \/ Abandonable(t) /\ EndCall(t)
\* Mutation: a parameter that is not supported is noted in the buffer.
SkipNoted(t, p) ==
  /\ unnoted' = [unnoted EXCEPT ![t] = {p}]
  /\ UNCHANGED <<driver, accepted, todo, pc>>
Skips(t, p) ==
  /\ todo' = [todo EXCEPT ![t] = Without(@, p)]
  /\ UNCHANGED <<driver, accepted, unnoted, pc>>

SetOne(t, p) ==
  /\ pc[t] = "set" /\ unnoted[t] = {}
  /\ \/ Takes(t, p)
     \/ Skips(t, p)
     \/ EndCall(t) /\ UNCHANGED <<driver, accepted>>
  /\ UNCHANGED <<cll, bufferVars, mutex, sync, arcVars, callVars>>

SetEnd(t) ==
  /\ pc[t] = "set" /\ todo[t] = Nothing
  /\ EndCall(t)
  /\ UNCHANGED <<driverVars, bufferVars, mutex, sync, arcVars, callVars>>

\* update_buffer_set_param(), update_buffer_table_param(): working_buffer is
\* locked for one write; a parameter it does not hold is not added.
\* Mutation: it is not written.
NoteForgotten(t, p) == UNCHANGED working
\* Mutation: a parameter it does not hold is added.
NoteAdds(t, p) ==
  working' = [x \in Known \cup {p} |-> IF x = p THEN todo[t][p] ELSE working[x]]
NoteIn(t, p) ==
  working' = IF p \in Known THEN [working EXCEPT ![p] = todo[t][p]] ELSE working
Note(t, p) ==
  /\ mutex["working"] = Nobody
  /\ NoteIn(t, p)
  /\ unnoted' = [unnoted EXCEPT ![t] = @ \ {p}]
  /\ todo' = [todo EXCEPT ![t] = IF op[t] = "set" THEN Without(@, p) ELSE @]
  /\ UNCHANGED <<driverVars, active, mutex, sync, arcVars, callVars, pc>>

\* PDUSetUniqueRespIdTable, once the whole table is built and noted.  A
\* parameter may fail to be built, and the driver may refuse the table.
SetTable(t) ==
  /\ pc[t] = "table"
  /\ \/ unnoted[t] = {} /\ DriverTakes(todo[t])
     \/ UNCHANGED <<driver, accepted>>
  /\ EndCall(t)
  /\ UNCHANGED <<cll, bufferVars, mutex, sync, arcVars, callVars>>

-----------------------------------------------------------------------------
(***************************************************************************)
(* An UpdateParam or RestoreParam primitive starts.  It knows the link by a*)
(* Weak reference, which it upgrades for the copy.                         *)
(***************************************************************************)

\* PDUStartComPrimitive: the driver refuses a link that is not connected.
StartPrimitive(t) ==
  /\ pc[t] = "start"
  /\ \/ /\ cll = "online"
        /\ IF op[t] = "restore"
             THEN DriverTakes(driver.active)
             ELSE /\ driver' = [driver EXCEPT !.active = driver.working]
                  /\ UNCHANGED accepted
        /\ \E w \in After(t, "upgrade") : Goto(t, w)
     \/ Goto(t, "idle") /\ UNCHANGED <<driver, accepted>>
  /\ UNCHANGED <<cll, bufferVars, mutex, sync, arcVars, callVars, setVars>>

\* Some Arc of the link is alive.
Alive == holders \cup upgraded # {}

\* logical_link.upgrade(), which fails once the last Arc is gone.
\* Mutation: the link is used without an Arc of one's own.
UpgradeUncounted(t) == UNCHANGED upgraded
TakeArc(t) == upgraded' = upgraded \cup {t}

Upgrade(t) ==
  /\ pc[t] = "upgrade"
  /\ \/ Alive /\ Goto(t, "copy_from") /\ TakeArc(t)
     \/ ~Alive /\ Goto(t, "idle") /\ UNCHANGED upgraded
  /\ UNCHANGED <<driverVars, bufferVars, mutex, sync, worker, holders,
                 callVars, setVars>>

-----------------------------------------------------------------------------
(***************************************************************************)
(* "*to.lock() = from.lock().clone()": the right side is evaluated first,  *)
(* and both mutexes are held until the end of the statement.               *)
(***************************************************************************)

From(t) == IF op[t] = "restore" THEN "active" ELSE "working"
To(t)   == IF op[t] = "restore" THEN "working" ELSE "active"

CopyFrom(t) ==
  /\ pc[t] = "copy_from" /\ mutex[From(t)] = Nobody
  /\ mutex' = [mutex EXCEPT ![From(t)] = t]
  /\ Goto(t, "copy_to")
  /\ UNCHANGED <<driverVars, bufferVars, sync, arcVars, callVars, setVars>>

\* Mutation: the guard of the buffer that is read is never dropped.
KeepsGuard(t) == UNCHANGED mutex
ReleaseGuards(t) == mutex' = [mutex EXCEPT ![From(t)] = Nobody]

CopyTo(t) ==
  /\ pc[t] = "copy_to" /\ mutex[To(t)] = Nobody
  /\ IF op[t] = "restore"
       THEN working' = active /\ UNCHANGED active
       ELSE active' = working /\ UNCHANGED working
  /\ ReleaseGuards(t)
  /\ sync' = IF sync = t THEN Nobody ELSE sync
  /\ upgraded' = upgraded \ {t}
  /\ Goto(t, "idle")
  /\ UNCHANGED <<driverVars, worker, holders, callVars, setVars>>

-----------------------------------------------------------------------------
(***************************************************************************)
(* The link is dropped.                                                    *)
(***************************************************************************)

DropArc(t) ==
  /\ pc[t] = "idle" /\ t \in holders
  /\ holders' = holders \ {t}
  /\ UNCHANGED <<driverVars, bufferVars, mutex, sync, worker, upgraded, threadVars>>

\* Drop of the last Arc starts vt_cll_destructor: disconnects the link if it is
\* connected and destroys it.
Destruct ==
  /\ ~Alive /\ cll # "destroyed"
  /\ cll' = "destroyed"
  /\ UNCHANGED <<driver, accepted, bufferVars, mutex, sync, arcVars, threadVars>>

-----------------------------------------------------------------------------
Init ==
  /\ cll = "offline"
  /\ driver = [working |-> [p \in Params |-> Default],
               active  |-> [p \in Params |-> Default]]
  /\ accepted = [p \in Params |-> {Default}]
  /\ working = [p \in Known |-> Default]
  /\ active = [p \in Known |-> Default]
  /\ mutex = [m \in Mutexes |-> Nobody]
  /\ sync = Nobody
  /\ worker \in WorkerModes
  /\ holders = Owners
  /\ upgraded = {}
  /\ call = [t \in Threads |-> "connect"]
  /\ blocking = [t \in Threads |-> TRUE]
  /\ op = [t \in Threads |-> "connect"]
  /\ pc = [t \in Threads |-> "idle"]
  /\ todo = [t \in Threads |-> Nothing]
  /\ unnoted = [t \in Threads |-> {}]
  /\ made = [t \in Threads |-> 0]

\* The steps of a call once it has begun.
Step(t) ==
  \/ GetStatus(t) \/ Connect(t) \/ Disconnect(t)
  \/ \E p \in DOMAIN todo[t] : SetOne(t, p)
  \/ SetEnd(t)
  \/ \E p \in unnoted[t] : Note(t, p)
  \/ SetTable(t)
  \/ StartPrimitive(t) \/ Upgrade(t)
  \/ CopyFrom(t) \/ CopyTo(t)

Next ==
  \/ \E t \in Threads :
       \/ \E c \in Calls, direct \in BOOLEAN : Begin(t, c, direct)
       \/ Step(t)
       \/ DropArc(t)
  \/ Destruct

Spec == Init /\ [][Next]_vars

\* Running threads run on, and so does the thread of the destructor; nobody
\* has to call, or to drop the link.
FairSpec == Spec /\ (\A t \in Threads : WF_vars(Step(t))) /\ WF_vars(Destruct)

-----------------------------------------------------------------------------
Buffer == [Known -> Values]
Assignments == UNION {[P -> Values] : P \in SUBSET Params}

DriverType ==
  /\ cll \in {"offline", "online", "destroyed"}
  /\ driver \in [working : [Params -> Values], active : [Params -> Values]]
  /\ accepted \in [Params -> SUBSET Values]

BufferType == working \in Buffer /\ active \in Buffer

LockType ==
  /\ mutex \in [Mutexes -> Threads \cup {Nobody}]
  /\ sync \in Threads \cup {Nobody}
  /\ worker \in BOOLEAN
  /\ holders \subseteq Threads /\ upgraded \subseteq Threads

CallType ==
  /\ call \in [Threads -> LinkCalls \cup PrimitiveCalls]
  /\ blocking \in [Threads -> BOOLEAN]
  /\ op \in [Threads -> LinkCalls \cup PrimitiveCalls]
  /\ pc \in [Threads -> Pcs]
  /\ made \in [Threads -> 0 .. MaxCalls]

SetType ==
  /\ todo \in [Threads -> Assignments]
  /\ unnoted \in [Threads -> SUBSET Params]
  /\ \A t \in Threads : unnoted[t] \subseteq DOMAIN todo[t]

TypeOK == DriverType /\ BufferType /\ LockType /\ CallType /\ SetType

(***************************************************************************)
(* NothingInvented: a value the buffers show for a parameter set with      *)
(* set_com_params is one the driver has had for it, whoever set, connected,*)
(* updated and restored meanwhile and whichever calls it refused.          *)
(***************************************************************************)
NothingInvented ==
  \A p \in Known \ Unique : working[p] \in accepted[p] /\ active[p] \in accepted[p]

(***************************************************************************)
(* WorkingMirrors: while only one thread sets parameters and none restores *)
(* them or gives up, working_buffer shows what the driver's working buffer *)
(* holds, but for the one value that thread has just set and not noted.    *)
(***************************************************************************)
OneWriter ==
  /\ \A s, t \in Setters : s = t
  /\ "restore" \notin Calls
  /\ ~(worker /\ MayAbandon)

Mirrored ==
  \A p \in Known \ Unique :
    working[p] = driver.working[p] \/ \E t \in Setters : p \in unnoted[t]

WorkingMirrors == OneWriter => Mirrored

(***************************************************************************)
(* DestroyedUnused: the link is not destroyed in the driver while a call   *)
(* on it is in progress; only a primitive may still start on it.           *)
(***************************************************************************)
DestroyedUnused ==
  cll = "destroyed" => \A t \in Threads : pc[t] \in {"idle", "start", "upgrade"}

(***************************************************************************)
(* CallsReturn: every call on the link, and every start of a primitive of  *)
(* it, returns: nobody waits for ever for sync or a buffer's mutex.        *)
(***************************************************************************)
CallsReturn == \A t \in Threads : pc[t] # "idle" ~> pc[t] = "idle"

(***************************************************************************)
(* CopiesEnd: a copy on_start_primitive() begins, it makes ("The function  *)
(* copies buffers with PduCopt = UPDATE_PARAM or RESTORE_PARAM",           *)
(* pdu_com_primitive.rs:341): no two threads hold each the mutex the other *)
(* waits for.                                                              *)
(***************************************************************************)
WaitsFor(s, t) == pc[s] = "copy_to" /\ mutex[To(s)] = t

CopiesEnd == \A s, t \in Threads : ~(WaitsFor(s, t) /\ WaitsFor(t, s))

(***************************************************************************)
(* DisconnectNeverConnects: no call to disconnect() connects the link and  *)
(* so comes to copy the buffer the link is connected with.                 *)
(***************************************************************************)
DisconnectNeverConnects ==
  \A t \in Threads :
    call[t] = "disconnect" => pc[t] \notin {"copy_from", "copy_to"}

(***************************************************************************)
(* CopiesOrDisconnects: one of the two holds.  Each is false alone; one    *)
(* behaviour, in which disconnect() connects the link while another thread *)
(* starts a RestoreParam primitive, refutes both.                          *)
(***************************************************************************)
CopiesOrDisconnects == CopiesEnd \/ DisconnectNeverConnects

=============================================================================
