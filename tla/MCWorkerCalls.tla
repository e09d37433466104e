---------------------------- MODULE MCWorkerCalls ----------------------------
(* An instance of WorkerCalls for TLC: one client of the worker and its one *)
(* command thread, with every answer of the driver.                         *)
EXTENDS WorkerCalls

CONSTANTS command, a

CommandThread == {command}
OneClient == {a}
NoOwner == {}
\* The first query, functions that read an item, one that hands over an input,
\* and the reset.
QueryOps == {"construct", "get_resource_ids", "get_unique_resp_id_table",
             "io_ctl_read_prog_voltage", "io_ctl_set_buffer_size",
             "io_ctl_reset"}
WithWorker == {TRUE}

\* States worth following: each function called so far but the last has been
\* answered as declared, and destruct_on_drop is as it was.
Purposeful == begun <= Cardinality(answered) + 1 /\ destruct_on_drop

=============================================================================
