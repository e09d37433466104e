----------------------------- MODULE WorkerCalls -----------------------------
(***************************************************************************)
(* The driver's functions called through a PduAsyncWorker: DriverCalls and *)
(* Worker together.  The functions are called by the one command thread,   *)
(* which takes a query, makes its call with PduApi and answers it.         *)
(***************************************************************************)
EXTENDS DriverCalls

CONSTANTS Clients, Owners, MaxCalls, MaxPanics, MaxCopies

VARIABLES
  queue, calls, destructs, loop, cur, panics, client, asked, copies, copied,
  dropped, drop_panicked, destruct_on_drop

workerVars == <<queue, calls, destructs, loop, cur, panics, client, asked,
                copies, copied, dropped, drop_panicked, destruct_on_drop>>

\* loop is what the command thread does next; thread stays its current call.
W == INSTANCE Worker WITH thread <- loop

\* The functions a kind of query asks for.
Asked(kind) ==
  CASE kind = "construct"  -> {"construct"}
    [] kind = "destructor" -> Compound \ {"event_callback"}
    [] OTHER               -> Ops \ ({"construct"} \cup Compound)

\* One function for the query in its hand, step by step.
Serving == Len(calls) < begun
Serve ==
  /\ loop = "exec"
  /\ Next
  /\ begun' = Len(calls) + 1
  /\ ~Serving => \A t \in Threads :
       thread'[t] # thread[t] => thread'[t].op \in Asked(cur.kind)
  /\ UNCHANGED workerVars

\* The query counts as made when its function has returned.
Work ==
  /\ W!Next
  /\ calls' # calls => Serving /\ \A t \in Threads : thread[t].at = "idle"
  /\ UNCHANGED vars

ServedInit == Init /\ W!Init
ServedSpec == ServedInit /\ [][Serve \/ Work]_<<vars, workerVars>>

-----------------------------------------------------------------------------
(***************************************************************************)
(* Properties.                                                             *)
(***************************************************************************)

\* Either what the driver's functions are declared to answer is accepted, or
\* the Drop of the worker finds the shutdown flag unset, as its comment says
\* ("infallible").  Each is false alone; one behaviour, of a program that calls
\* every function of Ops through the worker and drops a copy of it, refutes
\* both.
AcceptedOrSetOnce == AnswersAccepted \/ W!FlagSetOnce

=============================================================================
