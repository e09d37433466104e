# A verification project for dpdu

`dpdu-wrapper` is a safe, partly asynchronous Rust interface to the D-PDU API
(ISO 22900-2), the C interface of a vehicle communication interface (VCI) driver.
This directory holds TLA+ models of its objects, of the calls they make and of
the parameters and frames they hand over, TLC configurations that check them,
and TLAPS proofs about each of them. Paths below are relative to
`src/dpdu-wrapper/src/` unless they start with `src/`.

Contents

1. The system
2. The plan
3. The modules and how they correspond to the code
4. The runs: what each checks, its bounds, what it shows
5. Fairness
6. What is proved
7. Disagreements found
8. What is only model-checked, and what is not modelled

## 1. The system

### 1.1 Parts, state, operations

| Part | Source | State | Operations that change it | Module |
|---|---|---|---|---|
| Communication primitive `PduPrimitive` | `types/pdu_com_primitive.rs`, `api/vt_cop_destructor.rs` | the driver handle (`OnceLock`), `pdu_sync` (mutex), `dead_flag`, `error_store`, `status_store`, the queue of driver events, the broadcast channel with its first receiver | `start`, `cancel`, `get_result`, `wait_finish`, each also `blocking_`; the listener `handle_event`; `Drop` and the destructor | `Primitive` |
| Async worker `PduAsyncWorker` | `worker/`, the macros in `src/dpdu-wrapper-support/src/` | a flume queue of queries, the shutdown flag, `destruct_on_drop`, one command thread and its supervisor | one generated RPC method per D-PDU function; queue without reply (destructors); restart after a panic; shutdown when the last `Arc` goes | `Worker`, `WorkerCalls` |
| Logical link `PduLogicalLink` | `types/pdu_com_logical_link.rs`, `api/vt_cll_destructor.rs` | `sync`, `working_buffer`, `active_buffer` (a mutex each), the driver's link | `connect`, `disconnect`, `get_status`, `set_com_params`, `set_unique_com_params_table`, the start of primitives that copy the buffers, `Drop` | `LogicalLink` |
| Event callback and handle manager | `event_callback/mod.rs`, `handle_manager/mod.rs`, `api/pdu_get_event_item.rs` | a vector of drained events; maps from tags and handles to weak senders and references | drain, look up, send; register (sender first, reference afterwards), collect every 10 s | `EventDispatch` |
| VCI module `PduVci` | `types/pdu_vci.rs`, `api/vt_module_destructor.rs` | the driver's module and links, the entry of the module, the calls under way | list, register, `connect`, `disconnect`, create links, each also `blocking_`; `Drop`, the destructor | `Vci` |
| `PduApi` and the D-PDU calls, I/O control | `api/`, `types/pdu_io_ctl.rs`, `vendor_specific/mod.rs` | items lent by the driver, the suppress options of a thread | one file per C function; the two-phase destructors `vt_*`; `pdu_io_ctl` and a wrapper per command | `DriverCalls` |
| Parameter types and stacks | `types/pdu_com_param/single/`, `types/pdu_com_param/stack/` | the fields of a stack | presets, setters, JSON overlay, `build_set()`, `build_table()` | `ComParamTypes`, `ComParamStacks`, `ComParams` |
| Parameter sets | `types/pdu_com_param/table.rs`, `types/pdu_com_param/mod.rs` | a `DashMap` of parameters by name | build, set by class, refresh, note in the link's buffer | `ComParams` |
| CAN frames and identifiers | `utils/can/` | values | a frame to payload bytes and back, two orders of identifiers | `CanFrame`, `RawCan` |
| Module description, root file, vendor hooks, FFI types, resource and version types | `utils/`, `vendor_specific/`, `src/dpdu-api-types/` | values | parsing, layout | none, see section 8 |

### 1.2 How the parts interact

* **Calls down.** Every object holds an `Arc<PduApi>` and, when the application
  asked for one, an `Arc<PduAsyncWorker>`. A `blocking_` method calls the driver
  on the caller's thread under a mutex of the object. An async method puts a
  query into the worker's queue and awaits a oneshot; without a worker it runs
  the blocking method in `spawn_blocking`. The worker's command thread makes the
  calls one at a time. The two paths share no lock. Below both is the same
  wrapper of the C function, which resolves names, makes the call, reads the item
  the driver lends and gives it back.
* **Events up.** The driver calls `event_callback` on a thread of its own. The
  callback drains the driver's queue with `PDUGetEventItem`, finds the object by
  its tag in the handle manager, upgrades a weak sender and sends the event into
  the object's mpsc channel. The object's listener (a thread, or a task when a
  tokio runtime is there) sets flags and forwards the event to a broadcast
  channel, from which the waiters read.
* **Parameters down.** A program fills a stack with setters or JSON; the stack
  builds a set and a table of unique identifiers; the link sets the one
  parameter by parameter and the other as a whole in the driver and notes both
  in its working buffer. The parameters of a raw CAN stack decide which frames
  the driver hands on.
* **Lifetimes.** The handle manager has weak references only; a primitive knows
  its link by a weak reference; a link holds no reference to its module. Dropping
  the last `Arc` of an object queues (or runs on a thread) its destructor `vt_*`;
  dropping the last `Arc` of the worker sets a flag, and the command thread
  drains its queue, calls `PDUDestruct` and ends.

### 1.3 What is hard about it

* Check-then-act across a mutex (`start`, `connect`, `disconnect`), and a second
  path through the worker that never takes it.
* An end that is told three ways (flag, stored status, broadcast event) to
  readers that look at them in different orders.
* Futures that are dropped at an await while the worker makes the call all the
  same: a ComPrimitive started or a link created for nobody.
* Two mutexes taken in different orders by different methods.
* A panic in the command thread, with a query in its hand.
* Shutdown racing queued queries; destructors queued by `Drop`, and met by calls
  of objects made since, which may pass the queue.
* Destructors whose own calls fail: some go on, some stop, none tries again.
* Callbacks that may overlap, with objects created, dropped and collected
  meanwhile.
* Two copies of the parameters, in the wrapper and in the driver, updated by
  separate steps, each of which may fail.
* 44 wrappers with as many early returns, each of which must give an item back
  and clear the options of its thread; and answers decoded by a type the wrapper
  names, not the one the function is declared to lend.
* 82 parameters that each stack must put in the right half, unit and width; one
  that is forgotten shows in no test.

`PROJECT.json` lists each of these under `hazards`, at its line, with the
property that covers it or the reason none does.

### 1.4 What makes each part correct

* **Primitive**: what a call returns is true of the primitive; flags are never
  behind the events; nothing follows the end; the waiter with the first receiver
  misses nothing and returns; every ComPrimitive made is accounted for; none is
  left running in the driver but where a call of the destructor fails.
* **Worker**: queries become calls one at a time, once, in order; every await
  ends; destructors come before `PDUDestruct`, which comes once.
* **Logical link**: the buffers show what the driver has, or had; nobody waits
  for a mutex for ever; the link is not destroyed under a call.
* **Event dispatch**: no event of a living object is lost; order is kept; the
  channel of a dropped object closes and its entry goes.
* **VCI module**: its handle leads to the object in use; every link the driver
  made has an owner, but for the losses that are named; a queued destructor
  spares what was connected through the queue since; what is dropped is released
  unless the driver refuses.
* **Calls**: every item goes back; no option outlives its call; what a driver
  true to its declarations answers reaches the caller; the destructors go on to
  the end, and stop early only at a status they cannot read.
* **Parameters**: every field of a stack reaches the driver, in its half and its
  unit, unless the driver refuses its value, and the link's buffer shows what the
  driver has; overlaying JSON changes what it names.
* **Frames**: a frame is heard as it was sent, whole or not at all.

## 2. The plan

| Step | Module | Composes / abstracts | Theorems |
|---|---|---|---|
| 1 (done) | `Primitive`, `PrimitiveContract` | contract refined by `Primitive` | `PrimitiveProofs` |
| 2 (done) | `Worker`, `SerialExecutor` | serial executor refined by `Worker`; `WorkerCalls` (after step 6) composes it with `DriverCalls` | `WorkerProofs` |
| 3 (done) | `LogicalLink` | link, buffers and the primitives that copy them | `LinkProofs` |
| 4 (done) | `EventDispatch` | driver queue, callback, handle manager | `DispatchProofs` |
| 5 (done) | `Vci` | module, its objects, its links, the worker's queue beside blocking threads | `VciProofs` |
| 6 (done) | `DriverCalls` | all functions as one walk, I/O control and destructors made of them, the worker's answers | `CallsProofs` |
| 7 (done) | `ComParamTypes`, `ComParamStacks`, `ComParams` | stacks, sets, link buffers and driver | `ParamsProofs` |
| 8 (done) | `CanFrame`, `RawCan` | `ComParams` and `CanFrame`: two programs on a bus | `RawCanProofs` |
| 9 (left) | `ApiRegistry` | `get_single_api` and uncollected entries of APIs | - |
| 10 (left) | `DispatchPrimitive` | `EventDispatch` with the listener of `Primitive` at the end of a channel | flags of the composition |

Steps 9 and 10 are left: the first delays events and can be told from no delay
only by a promise of when a driver calls again, which the source does not make;
the second joins two models along a channel whose promise, order and no loss, is
proved on one side and is how the other's queue is written.

All modules are written to be proved about: constants with named assumptions,
one action per step, no `RECURSIVE` operator, invariants as conjunctions of
named parts.

## 3. The modules

In each module an action is a piece of code no other thread can observe the
middle of: a driver call, a critical section, an atomic flag or a channel
operation. A call with several of these is several actions, joined by `pc`, by
`step` or by `at`. The driver is external: its actions are what the code and the
ISO names it uses allow it to do (it may report events at any time, refuse any
call and never answer, except where section 5 says otherwise). Operators with a
comment starting *Mutation* or *Mutant* are used by no action; each is a
plausible slip in the operator that follows it, and the matching property fails
with it. An MC module (`MCPrimitive`, `MCWorker`, `MCLogicalLink`,
`MCEventDispatch`, `MCVci`, `MCDriverCalls`, `MCWorkerCalls`, `MCRawCan`)
extends a module with the sets its configurations name.

### 3.1 `Primitive`

| Variables | Code |
|---|---|
| `driver`, `emitted` | the driver's ComPrimitives, and a history of what it reported |
| `h_cop`, `pdu_sync` | the fields of that name |
| `pc`, `op`, `started`, `res` | local state of each calling thread or task |
| `pdu_events`, `listener`, `current` | the mpsc queue, the listener, its local event |
| `dead`, `error`, `status` | `dead_flag`, `error_store`, `status_store` |
| `log`, `first_rx`, `via`, `rx` | all events ever broadcast; the stored first receiver; which receiver a waiter has and how far it has read |
| `dropped`, `destructor` | `Drop` and the request it makes |

| Actions | Code |
|---|---|
| `StartCheck`, `StartCall`, `StartRecord`, `StartAbort` | `assert_not_started()`; the driver call, with the mutex or through the worker; `h_cop.set(..).expect(..)`; the future dropped |
| `CancelCheck`, `CancelCall` | the two assertions; the call, accepted or refused |
| `WaitCheck`, `RxCheckDead`, `RxTake`, `Recv` | the assertions of `get_result`/`wait_finish`; the two halves of `get_primitive_event_receiver()`; one turn of the receive loop, `Lagged` included |
| `ListenTake`, `ListenPublish`, `ListenClosed` | `handle_event()` up to the flag; the broadcast and the stop; the closed queue |
| `Drop`, `Destruct` | `Drop`, `vt_cop_destructor` |
| `DriverStatus`, `DriverResult`, `DriverError` | the driver |

A thread in `Aborters` is a task with a worker: it takes no mutex and its
future may be dropped. `handle_event` panics on a second error
(`ListenTake`), which the model includes. The channel's capacity is a constant;
a receiver further behind than that gets `Lagged`, which ends the loop as the
code's `while let Ok(..)` does. A result is one event: its payload is left out.
`Destruct` cancels what runs, or stops where `vt_cop_destructor` returns by `?`:
the status cannot be read, or the driver refuses the cancellation. Nobody asks
again then (`destructor` is `failed`).

`PrimitiveContract` is what a caller may rely on: the primitive is not started,
started, then ended, in this order; and every answer is true in the phase in
which it is given. `Primitive` implements it with `phase` computed from
`dead` and `driver`.

### 3.2 `Worker`

`queue` is the flume channel, `thread` the program counter of the command
thread and its supervisor, `cur` the query in its hand, `client` the state of
each holder of an `Arc<PduAsyncWorker>`, `dropped` the flag, `copies` the values
made with the derived `Clone`. `calls` and `destructs` are histories. The
command thread is `CheckFlag`, `CheckEmpty`, `Receive`, `Execute`, `Reply`,
`Panic`, `Restart`, `Shutdown`, in the loop of `worker/mod.rs`; a client is
`Await` (a generated RPC), `Abandon` (its future dropped), `DropObject`
(`Drop` queues a destructor), `Release` (the `Arc` goes), `Copy`, `DropCopy`,
`SetDestructOnDrop`. Every D-PDU function is one abstract query: what the queue
does with it does not depend on which it is. Which response it is answered with
does, and is in `DriverCalls`. `drop_panicked` records a `Drop` that found the flag
set; the source calls that `expect()` infallible (`FlagSetOnce`).

`WorkerCalls` composes the two: the command thread of `Worker` is the one thread
of `DriverCalls`, and `Execute` a function of the kind its query asks for (`Asked`),
made step by step (`Serve`) between the worker's own steps (`Work`).

`SerialExecutor` is the abstract specification: pending queries, made queries,
closed. `Worker` implements it with `pending` = the query being executed
followed by the queue.

### 3.3 `LogicalLink`

`cll` and `driver` are the driver's link and its two buffers, `working` and
`active` the wrapper's, `mutex` and `sync` the holders of the mutexes, `holders`
and `upgraded` the strong references, `todo` and `unnoted` what a setter has yet
to set and to write to its buffer; `accepted` is a history.
`GetStatus`, `Connect`, `Disconnect` are the two critical sections of
`connect()` and `disconnect()`; `SetOne`, `Note`, `SetEnd` the loop of
`set_com_params`; `Note`, `SetTable` the table, written to the buffer before the
driver is called; `StartPrimitive`, `Upgrade`, `CopyFrom`, `CopyTo` the start of
an UpdateParam or RestoreParam primitive with the two mutexes of its copy;
`DropArc`, `Destruct` the end. `Body` is the dispatch between blocking and
async, in which `disconnect()` without a worker is `blocking_connect()`. Each
call may be made in either variant, with or without a worker, and be abandoned
where it awaits.

Parameters are of three kinds: named ones, ones of class UniqueId (set through
the table) and ones the buffers do not hold (set by an identifier without a
name in the MDF). The driver makes its working buffer active at PDUConnect
and when an UpdateParam primitive starts; it does so at once, where a driver
may take until the primitive executes.

### 3.4 `EventDispatch`

`queue` is the driver's event queue of a link, `object`, `registry`, `channel`,
`open` the life of each object, its entry in the handle manager, its mpsc
channel and that channel's receiver; `where`, `events`, `sender` are local to
each running callback. `Create` and `RegisterReference` are the two steps of
registration, `Drop`, `ListenerStops` and `ListenerClosed` the end of an object,
`Collect` the collector; `CallBack`, `Drain`, `Lookup`, `Send`, `Return` the
callback. With `serial` the driver runs its callbacks one at a time, without it
they overlap; both are instances of the run. A listener may stop at any time,
which covers the end of a primitive and every other reason.

### 3.5 `Vci`

`module` and `link` are the driver's side; `vci`, `object` the life of each
`PduVci` and `PduLogicalLink`; `entry` the one entry the handle manager has for
the module; `calls` the driver calls asked for and not made yet; `task` what each
task awaits, for which objects, with the answer. Every await point of
`list()`, `connect()`, `disconnect()` and `create_logical_link()` is a `step`,
and `Resume` is what the code does with the answer (`MakeList`, `ActOnStatus`,
`Register`, `HandOut`, `Undo`, `Over`).

A call goes one of two ways. The async methods of an object made with a worker
(`served`) put it into the worker's queue; the others, and every `blocking_`
method, also of an object with a worker, make it on a thread at once. A call and
the task it is for are marked `queued` accordingly, `calls` has both kinds, and
`Due` are the calls that may be made next: the oldest queued one, and those of the
threads that no mutex of a blocking method keeps back (`SyncHeld`). Thus a
`blocking_connect()` overtakes a queued destructor, as it does in the code.
`Usable` says which way an object's operation may go.

`Abandon` drops a future: a queued call is made for nobody, and a blocking thread
runs on with its own `Arc`, as an `orphan`. `DropVci`, `DropLink` ask for the
destructors; `DestructModule` and `Sever` are the status and the disconnect of
`vt_module_destructor`, one step in the worker and two on a thread, and
`DestroyLink` is the last call of `vt_cll_destructor`, and of a creation that is
undone. Each may fail: the code looks at no answer but the status's, and the
module stays connected or the link open (`unreleased`). A second listing panics in
`RegisterModule` (`list_panicked`). `Environment` unplugs the module. Its
histories are `connector`, `direct` (it was `blocking_connect()`), `forsaken`,
`unreleased`.

### 3.6 `DriverCalls`

The wrappers of `api/` differ in a few decisions. Each is a record, `Plain` with
what is different about it: which names it resolves, what it refuses, which
error codes it takes for results, what the driver is declared to lend (`lends`),
what it reads and wants, when it returns without giving the item back (`keeps`),
and which suppress options it reads. `Call`, `Refuse`, `LookUp`, `Fail`,
`Succeed`, `Receive`, `DestroyItem` are the walk all of them share, and `Over`
is its end, where options are cleared and a compound goes on: the four compounds
(`CallCompound`, `After`) are the three destructors and the event callback, each
a state machine over its calls, in which a destructor stops or goes on after a
failure as its `?` and `let _ =` say (`GoOn`). `Misanswered` is the worker's
answer to the reset. A driver "true to its declarations" lends what the C
declaration in `src/dpdu-api-types/src/functions.rs` says and takes an input for
what it says it is; `answered` and `rejected` are histories of its answers.

### 3.7 `ComParamTypes`, `ComParamStacks`, `ComParams`

`ComParamTypes` has the 82 parameters with name, class and type, the conversions
of a field to the driver's `CpVariant` (`Variant`, durations in microseconds
modulo 2^32) and to JSON and back (`Serialize`, `Accepts`, `Deserialize`). Numbers
of 32 bits are pairs of half words, since TLC's integers are no wider.
`ComParamStacks` has what each layer and each composite stack holds, what its
setters, `build_set()` and `build_table()` name, and the values of its presets:
these are five separate lists in the code, and five separate lists here.

`ComParams` is the way of a stack to the driver: `Set`, `Receive11`,
`Receive29`, `Configure` change the fields; `Build` makes set and table;
`SendSet`, then `SetOne`, `SkipOne` or `FailOne` for each parameter, and
`SendTable`, `SendTableUnsupported` hand them over and note them in `workingSet`
and `workingTable`. `SkipOne` stands for both ways to be passed over: the driver
does not know the parameter, or refuses its value with `INVALID_PARAMETERS`,
which `pdu_set_com_param()` makes the same error (`passed` records the latter).
`Refresh` is `refresh_full` with and without a worker; `Capture` is what the MDF
first fills the buffer with. An instance follows one set of parameters
(`watched`): the code treats each field apart from the others, but for the ECU's
name, which is the row of the table, and the fields `configure_for_receive_*`
sets together. `origin`, `stale`, `ignored` and `passed` are histories.

### 3.8 `CanFrame`, `RawCan`

`CanFrame` has identifiers and their two orders (`Cmp`, `Less`), the constructors
of frames (`NewData`, `NewRemote`, `NewFdData`), `Sent`, the payload
`send_only_raw_can` makes of a frame, and `FromEvent`, the frame
`from_pdu_result_event` makes of a payload. `RawCan` composes it with
`ComParams`: once the table of a raw stack is in the driver, one program sends
frames (`Send`), others send what they like (`OthersSend`), and the monitor's
listener hears those its parameters want (`Hear`, `Wanted`). The bus and the
driver's choice are external.

## 4. The runs

The bounds are chosen so that every branch of every action occurs and so that
the actors of a race are all there: two callers and the listener; a setter, two
copies of the buffers and the destructor; two callbacks and the collector; a
destructor and the object made after it.

| Run | Bounds | Question and answer |
|---|---|---|
| `primitive` | 2 threads, one of them starts; 1 handle; 2 events before the end, both may be errors; 1 refused start | Is what callers are told true, in every interleaving, is the contract implemented, does the first waiter return, a cancel take effect, a drop leave nothing running? Yes, the last unless a call of the destructor fails |
| `primitive_race` | 2 threads start, one is a task that may drop its future; 2 handles; 1 event | Is a ComPrimitive ever lost without trace? Only to an abandoned start or to the start that panicked; and nothing follows the first end though two ComPrimitives report |
| `primitive_broken` | 3 threads, 2 start; 2 handles; 1 event | Does the second start never panic, or no waiter wait for an end that is past? Neither: violated |
| `worker` | 2 clients, one an object; 2 awaits each, 1 panic, 1 copy | Does every await end, does the last Arc stop the worker, do destructors come before the one `PDUDestruct`, is it a serial executor? Yes |
| `link_safe` | 2 threads, 1 setter, 3 parameters (one of each kind), 2 values, 2 calls each, with and without a worker, abandoned futures | Are the buffers honest, does every call return, is the link not destroyed under one? Yes, as long as no RestoreParam primitive is started |
| `link_broken` | 2 threads, no worker, 1 parameter, 2 calls each, no setter | Does every copy end, or `disconnect()` never connect? Neither: violated |
| `dispatch_safe` | 2 objects (1 and 2 events), 2 callbacks, 1 failing call, serial or not | Is no event of a living object lost, is order kept with serial callbacks, is what is dropped forgotten? Yes |
| `vci` | 2 `PduVci` over time, 1 link, 2 tasks, 2 calls each, 1 failing call; calls through the worker and blocking ones | Does the handle lead to the object in use, is every link accounted for, does a queued destructor spare what was connected through the queue since, is what is dropped released? Yes, but for what a refused release or an unawaited one leaves |
| `calls` | 2 threads, 48 functions (44 calls, 4 compounds), 2 calls, 3 items, with and without worker and module description | Do items go back, do options end, do answers arrive, do destructors finish? Yes, but for the exceptions the properties name |
| `calls_answers` | the command thread, 1 client, 1 copy; 6 functions, once each | Is a driver true to its declarations understood (not in five of them), or does the worker's `Drop` find its flag unset (not after that of a copy)? Neither: violated |
| `params` | each of the 82 parameters alone in each of the 3 stacks it is in, and two sets of several; 1 JSON key, 2 edits; frames of two programs and of others | Does every field reach the driver, does the buffer show it, does JSON spare the rest, do frames arrive whole? Yes, but for a value the driver refuses as invalid, which the code passes over |
| `params_told` | the loopback and CP_Br together, 2 JSON keys, 3 edits, frames | Does any of seven statements of the source hold? None: violated |

Why the bounds are enough. Two threads are the smallest number that races, and
a third adds no new pair of critical sections, except in `primitive_broken`, where
the two starts and the late waiter are three. Two events let a result or an
error and an end meet in the queue, and two errors make the listener panic. The
channel's capacity (8) exceeds what those bounds can send, so the runs are about
a channel that does not overflow; what a `Lagged` receiver does is in the model
and in the theorem (section 6), and `WaitersLeaveAtTheEnd` is false for it. Two
calls per thread let a link be connected, disconnected and connected again by
two threads. Two `PduVci` are one whose destructor is under way and one made
since. Two calls let one function follow another on a thread, which is what a
stale option or an item of another call needs; three items let a compound lend
more than one. One failing call is a refused release, or a failed registration
behind which a thread undoes a creation; that both fail needs two, and is in the
proofs. The parameters meet only in the ways `MCWatches` has instances
for; 2 edits are a setter and a JSON map, or a map over a map. The values of
`MCInputs` are the bounds of each type, among them a duration that overflows in
microseconds.

All runs but the parameters' turn deadlock checking off: the application may
stop calling, and the objects come to their end, so states without a successor
are expected; the liveness properties take over its task. In `params` a built
stack can always be built again.

The violation runs check a disjunction (`StartsOrWaiters`, `CopiesOrDisconnects`,
`AcceptedOrSetOnce`, `SomeClaimHolds`) of statements each of which is false:
TLC's one counterexample is then a behaviour that refutes every one of them, and
each statement is named in its own definition. `AnswersAccepted`, one of the two
of `AcceptedOrSetOnce`, is about a behaviour that answers every function of
`Ops`; the constraint `Purposeful` keeps the search for it to behaviours in which
each function but the last has been answered, once, as it is declared.

Some properties are conditional, and say so. `WorkingMirrors` needs one setter,
no restore and no abandoned call, so `link_safe` shows it for the instances
without a worker and its theorem for the others. `CancelTakesEffect` excepts a
listener that has panicked. `NothingLeaks` and `DroppedReleased` except what a
failing call of the destructor leaves, since nothing in the code tries it again,
and `LinkAccounted` names, with it, the creations the worker went on with alone.
`DestructorSparesOthers` is about queued destructors, connections made through
the queue, and listings that did not panic: `blocking_connect()` passes the
queue, and a destructor on a thread of its own is ordered with nothing, so that
both let an older object's destructor disconnect a newer one. `ItemsReturned`
and `AnswersDelivered` list the wrappers that keep an item or reject an answer,
so that a change in any other is found. `FieldsReachDriver` leaves out the
loopback of the UDS stack (section 7), and the values the driver refused as
invalid: `set_com_params()` passes over them and returns `Ok`.
`FirstWaiterMissesNothing` counts an event the driver raised and the listener
has not read.

## 5. Fairness

* `Primitive`: the listener (its own thread or task), a call once begun, the
  destructor's request, and the driver ending a primitive it was told to cancel
  (ISO 22900-2 promises a `CANCELLED` event; the code relies on it). Nobody has
  to call anything, and a primitive need not end by itself. `InCall` is weakly
  fair: a thread in `recv` can be waiting for ever if no event comes.
* `Worker`: the command thread and its supervisor (threads that wait for no
  client; a driver call returns), and a `Drop` that has begun.
* `LogicalLink`: threads inside a call go on when they can; the destructor runs.
  Weak fairness suffices: a mutex that is released again and again and always
  taken by another would need strong fairness, but each thread makes finitely
  many calls.
* `EventDispatch`: a callback runs to its end, a listener notices its closed
  channel, the collector comes round (every 10 s). The driver need not call the
  callback at all.
* `Vci`: the worker and the blocking threads make the calls there are, which are
  finitely many; a blocking thread goes on with its answer. Nothing forces a task
  of the application to be polled, so `Resume` is not fair for a `queued` one.
* `DriverCalls`, `WorkerCalls`, `ComParams`, `RawCan`: safety only; no fairness.

## 6. What is proved

All theorems hold for every value of the constants that satisfies the module's
named assumptions (`PrimitiveAssumption`, `LinkAssumption`, `VciAssumption`,
`RawCanAssumption` and the like), which TLC evaluates on each instance. They say
what the constants are (bounds are numbers, marks for "nobody" are not somebody,
a worker is made for somebody), and `ComParamsAssumption` also that the values
an instance puts into a stack `Fits` the Rust type of the field, that a JSON
value `IsJson` (a u64, a string, an array of these) and that a response
identifier is a u32: the compiler and `serde_json` see to all three.

**`PrimitiveProofs`**
* `TypeCorrect`, and `Inductive`: `Spec => []IInv`. `FlagsLeadEvents` is not
  inductive: the listener sets the flag in one step and broadcasts in another, so
  `HandLeads` says that the event in its hand has set its flag already.
  `EndIsLast` needs `RunningMeansNoEnd`: a listener that has broadcast the end has
  stopped, and only a running one holds an event. `LeftAtTheEndUnlessLagged` is the
  waiters' property weakened by an overflow of the channel, which the proof shows
  to be the only exception.
* `FlagsLead`, `EndComesLast`, `WaitersAreRight`.
* `KeepsTheContract`: `Spec /\ []NobodyLags => ContractSpec`, the refinement. Every
  step is matched to a step of the contract or to none (`ContractStep`);
  `ContractInv` adds what the phase is computed from: a recorded handle, or one
  about to be, is one the driver made (`StartedFirst`), events come from such a
  one (`EventsAreOfBegun`), and behind a set flag the listener takes nothing
  (`DeadTakesNothing`).
* `FirstWaiterIsToldEverything`: `FirstWaiterMissesNothing` for any number of
  events, threads and calls, of behaviours in which nobody lags and no two starts
  raced (`OneStart`). A result or an error is on the channel, in the listener's
  hand or in its queue until the end is out (`NothingSkipped`), the end is the
  last of these (`EndIsLastInQueue`, `OverAfterTheEnd`), and what the waiter has
  read was not for it (`FirstReads`).
* `WaitersAreRightUnlessTheyLag`: `WaitersLeaveAtTheEnd` of a channel that carries
  any number of events, of which `WaitersAreRight` covers the first `Capacity`.
* `NobodyLags` says that no thread at `recv()` has unread events overwritten. It
  is a hypothesis because the code turns a lag into the end (`while let Ok(..)`),
  and all three statements are false then; `OneStart`, because two ComPrimitives
  report to one object after the race of section 7 (1). All states of run
  `primitive` satisfy both, and only the second fails in `primitive_race`.
* `HandlesAccounted`: the number of ComPrimitives made is that of the recorded
  ones and of the threads that have yet to record theirs, have panicked or
  abandoned it (`CountInv`), for any number of starters.
* The safety halves of the three liveness properties, that what they wait for is
  due: `FirstWaiterIsWoken` (`FirstWaiterIsDue`), `CancelIsOnItsWay` (`CancelIsDue`)
  and `DropsEndWhatRuns` (`LeaksAreEnding`). The first two hold with racing starts
  and any lag. `EndInv` follows the end from the driver to the channel: what ended
  was reported (`EndsAreReported`), a reported end is in the queue or in the hand
  of a running listener, or out (`EndIsComing`), and the listener stops for nothing
  else (`StopsForGood`) and panics only behind an error on the channel (`ErrorIsOut`),
  which the first waiter reads. `DropsEndWhatRuns` needs `OneStart`, for the end of
  one racing primitive sets the flag that spares the other (section 7 (1)), and
  that no future of a start was dropped, for nobody stores its handle then. What
  runs on after a failed call of the destructor is excepted.

**`WorkerProofs`**
* `DestructsOnce` (for workers with copies, too; and that without copies no `Drop`
  finds the flag set) and `ObjectsGoFirst`. `ShutdownInv` says that the flag means no
  holders while no copy was made and that a thread past its check leaves an empty
  queue; `DestructorsInv` follows each destructor: it is in the queue once, in
  the thread's hand, or made, and in one place only.
* `ImplementsSerial`: `Spec => Serial!Spec`, the safety part of the refinement.
* `AnswersAreDue` and `TeardownsAreDue`, the safety halves of `AwaitReturns` and
  `TeardownHappens`: an awaited query is in the queue or in the thread's hand
  (`AwaitsAQuery`) and, without copies, the thread has not stopped (`AnswerIsDue`):
  whoever awaits holds the worker, which is why the last holder's flag finds
  nobody. A worker that has stopped has called PDUDestruct exactly if it was not
  opted out (`TeardownIsDue`).

**`LinkProofs`**
* `BuffersAreHonest`: `NothingInvented` for any number of setters, with
  RestoreParam primitives and abandoned calls. The invariant adds `Accepted`
  (everything in the driver's buffers and everything a setter is about to note
  is in the history), since a value passes through the setter's hands and
  through four buffers.
* `BufferMirrorsDriver`: the invariant adds `CallsKnown` (only a setter has
  anything to set, a table holds only parameters of class UniqueId) and `Fresh`
  (what the setter is about to note is what the driver has).
* `DestroyedAlone`: `UseInv` ties every pc inside the link to a reference held.
* `LocksAreOrdered`: a thread takes the lock of the blocking calls, then
  `working_buffer`'s mutex, then `active_buffer`'s, unless it starts a RestoreParam
  primitive, which is the only exception and the deadlock of section 7 (3).
  `LockInv` says where each lock is held. `SomebodyGoesOn` (`HolderGoesOn`), the
  safety half of `CallsReturn`, and `CopiesEndUnlessRestored` follow from the order;
  both assume that nobody restores, as run `link_safe` does.

**`DispatchProofs`**
* `ArrivesOrdered`: `OrderInv` orders the places an event passes through
  (queue, callback, channel) and says that no event is in two of them.
* `NothingIsLost`: `Counted`, `Registered` and `SendHasEvent`: the events made for
  an object are numbered without gaps, its sender is in the registry while it
  lives, and `Places` of the event are exhaustive.

**`VciProofs`**
* `HandlesLead` (`ListedIsFound`) and `LinksAccounted` (`LinkAccounted`). The
  invariant says whose each call is (`CallsOwned`), that a task has one at a time
  (`OneCallEach`), that no two tasks create one link (`TasksApart`) and what a
  closed link leaves behind (`LeftClosed`): it is closed, or one the driver
  refused to destroy.
* `LaterConnectionsAreSpared` (`DestructorSparesOthers`, an action property). What
  protects a connection is the order of the queue: `DestructFirst` says that,
  before a listing panics, a queued destructor waits before every queued
  `connect()` of the `PduVci` in use, and that none waits once that one has
  connected through the queue. It is kept because a `PduVci` is listed only when
  no other is alive (`ListedIsFound`), because nothing refers to one before
  (`OnlyListed`), because the worker's disconnect is one step with its status
  (`NoneSevered`), and because what the threads do beside the queue leaves its
  order as it is (`MadeOrder`).
* `DropsArePending`, the safety half of `DroppedReleased`: what is dropped is
  released, or the call that releases it has been asked for, or has failed. Of a
  `PduVci` this needs that whoever works on one keeps it alive (`HoldersAlive`,
  `VciOwned`), so that no blocking `connect()` outlives it, that only one with a
  worker has calls in the queue (`QueuedAreServed`), and that the release comes
  behind every `connect()` an abandoned task left there (`ReleaseLast`); of a
  link, that a link is an object's only after its creation (`CreateFresh`,
  `TaskFresh`).

**`CallsProofs`**
* All five properties of run `calls` for any number of threads, calls and items:
  `TypeCorrect`, `ItemsGoBack`, `OptionsAreBrief`, `AnswersArrive`,
  `DestructorsEnd` (of all three destructors, with the statuses that stop two).
  What a wrapper may do is first shown of its record, one by
  one (`Sound`); the walk is then proved for any sound record, with `Walking`
  (who is where, with which options), `Answering` (what has been rejected) and
  `Lending` (whose each item is).

**`ParamsProofs`**
* `FieldsArrive` and `BufferIsTrue`. The facts about the 82 parameters the proof
  rests on (the halves of each stack are disjoint, cover its fields and keep to
  their class) are lemmas proved from the lists; the invariant follows the
  fields to the set and the table (`Built`), to the driver (`SetSent`,
  `TableSent`) and to the buffer (`Buffered`). A parameter that was to be set is
  in the driver, still to be set, or passed over.
* `Typing` (`TypeOK`) by the invariant `Typed`: presets (`PresetFits`), setters
  and JSON (`DeserializedFits`) leave a value of the field's type.
  `MicrosAreU32` shows that milliseconds and seconds, multiplied as the code
  multiplies them, wrap within 32 bits and lose no half.
* `JsonSparesOthers` (`ConfigureSparesOthers`): `RoundTrip` shows for each of the
  eight kinds of values that what is serialised is accepted and read back as the
  same value for the driver, so that overlaying a map changes what it names.
* `RawIsComParams`: `RawSpec => Spec`, so both hold on a bus in use.

**`RawCanProofs`**
* `FramesSurvive`: `FramesArriveWhole` for every identifier of 11 or 29 bits and
  all data. `IdSurvives` shows that the four bytes and the mask are inverse to
  each other, `DataSurvives` that the slice behind them is the data.

## 7. Disagreements found

Each is part of a run whose counterexample is a behaviour of the code;
`PROJECT.json` quotes the lines.

`primitive_broken`
1. `types/pdu_com_primitive.rs:256`: the check that a primitive is not started
   precedes the mutex; two starts both pass it, and the second panics at an
   `expect()` after the driver has made a ComPrimitive nobody will cancel.
2. `types/pdu_com_primitive.rs:611`: a waiter checks the dead flag and then
   subscribes; an end in between is seen by neither.

`link_broken`
3. `types/pdu_com_primitive.rs:349`: RestoreParam locks the buffers in the
   opposite order of UpdateParam and `connect()`.
4. `types/pdu_com_logical_link.rs:207`: `disconnect()` without a worker runs
   `blocking_connect()`.

`calls_answers`
5. `api/pdu_get_unique_resp_id_table.rs:65` and 6. `api/pdu_get_resource_ids.rs:80`
   look for the item type of conflicting resources.
7. `api/vt_io_ctl_read_prog_voltage.rs:14` wants another type than the table of
   commands names.
8. `api/pdu_io_ctl.rs:123`: the input of a command is handed over as its data
   instead of the item.
9. `worker/mod.rs:137`: the reset is answered as a link's destructor; the caller
   reaches `unreachable!()`.
10. `worker/mod.rs:309`: a copy of the worker shares its shutdown flag, so the
    second `Drop` panics at an `expect()` the source calls infallible, and the
    first has stopped the thread the others use.

`params_told`
11. `types/pdu_com_param/table.rs:181`: without a worker `refresh_full()` refreshes
    a copy of the set.
12. The UDS stack's loopback is in no set.
13. Two fields go by CpBr and CpBs in JSON, the others by their short names.
14. A JSON value of the wrong type panics in an "infallible" `expect()`.
15. A remote frame is sent as a data frame.
16. A remote frame with a DLC above 8 panics the receiver.
17. The derived and the written order of CAN identifiers differ.

Other behaviour a reader should know of, included in the models unless marked
*outside*; no line of the repository promises the contrary:

* a second error event panics the listener; a lagging waiter returns as if the
  primitive had ended;
* a setter can fall between the driver's connect and the copy of the buffers,
  so that `active_buffer` shows a value the driver has only in its working
  buffer; two setters of one parameter may reach the driver and the buffer in
  opposite orders; the table is noted before it is set, and with a worker not at
  all; the rows of an ECU's old name stay in the buffer's table;
* `vt_cop_destructor` stops without cancelling when the status cannot be read, and
  gives up a refused cancellation; `vt_module_destructor` and `vt_cll_destructor`
  ignore a refused disconnect or destroy: primitive, connection or link stay;
* `blocking_connect()` of a `PduVci` with a worker overtakes the queued destructor
  of an older one, which then disconnects the module again;
* `set_com_params()` returns `Ok` though the driver refused a value as invalid;
* a second listing while the first list lives panics (`handle_manager/mod.rs:128`),
  and the `PduVci` it made disconnects the module when it is unwound;
* a link whose callback could not be registered is not destroyed with a worker,
  since the future of the destroying call is not awaited;
* a vendor's override of a successful call leaks the item lent by it;
* *outside*: `pdu_set_com_param` reads the suppress option of
  `pdu_get_com_param`; the entries of a unique response identifier table point at
  a temporary (`get_pdu_ptr`); `SamplesPerBit` gives one and three samples one
  number; the send count of a `SendRecv` made without data stays 0 when data is
  added; `refresh_full` awaits under a shard lock (`table.rs:163`); an API not
  collected yet delays untagged events.

## 8. What is only model-checked, and what is not modelled

Model-checked only:
* the liveness properties (`FirstWaiterReturns`, `CancelTakesEffect`,
  `NothingLeaks`, `AwaitReturns`, `TeardownHappens`, `CallsReturn`,
  `DroppedForgotten`, `DroppedReleased`) and the fairness of `SerialFairSpec`,
  which are out of the prover's reach. Of all but `DroppedForgotten` the safety
  half is proved (section 6), that at any moment what the property waits for is
  due; that it comes, under the fairness of section 5, is what the runs show.
  `DroppedForgotten` has no such half: the collector comes round whatever the
  state;
* that nobody lags and, in `primitive`, that one start is recorded, the hypotheses
  of three theorems of `PrimitiveProofs` (the second also of `LeaksAreEnding`):
  both are of the instance (a capacity above what its bounds send, one starter);
* what the violation runs show, which is false in general.

Every safety invariant and action property of a passing run is the statement of
a theorem, and both refinements are proved but for the fairness of the serial
executor.

Not modelled within the modelled parts: the builders of a primitive's data and
of its cycles and delays, but for raw CAN (`types/pdu_com_primitive.rs` from line
840, `types/pdu_com_logical_link.rs` from line 868), plain data that keeps no
state; the fields of an event item (`types/pdu_event.rs`); the marshalling of
arguments and loading of the library (`api/mod.rs`); merge and the typed
accessors of a parameter set; the registry of APIs (step 9).

Not modelled at all, and not planned: the parsing of the module description and
the root file (`utils/module_description.rs`, `utils/root_file.rs`), two
declarative XML formats without state, whose result is an input of `ComParams`;
layouts, names and debug output of the C interface (`src/dpdu-api-types/`), which
hold no behaviour; the hooks of three vendors' drivers (`vendor_specific/`),
which patch third-party libraries, except that they may turn a success into an
error; resource, status and version types, which are immutable values.
