--------------------------- MODULE WorkerThreadGroup ---------------------------
(***************************************************************************)
(* The worker threads of include/worker_thread_group.h: do_work, and the   *)
(* operations the one driver thread applies to the group (resume_workers,  *)
(* flush_workers, the destructor).                                         *)
(*                                                                         *)
(* do_pause, paused and shutdown are plain bools.  The workers read and    *)
(* write paused under flush_lock; the driver writes all three without it,  *)
(* one worker and one field at a time, and notifies without it.            *)
(***************************************************************************)
EXTENDS GutteringSystem

CONSTANTS
  num_workers,
  Update        \* the updates of the stream, one for each endpoint of an edge

Worker == 1 .. num_workers

ASSUME GroupAssumption == num_workers \in Nat \ {0}

Nobody == 0     \* flush_lock is free; otherwise the worker that holds it

VARIABLES
  do_pause, paused, shutdown,  \* the fields of each WorkerThread
  wpc,                         \* where each worker is in do_work
  data,                        \* the batch it works on
  applied,                     \* how often each update reached apply_update_batch
  flush_lock,
  mpc, i                       \* the driver thread, and its loop over the workers

flagVars   == <<do_pause, paused, shutdown>>
workerVars == <<wpc, data, applied, flush_lock>>
groupVars  == <<gtsVars, flagVars, workerVars, mpc, i>>

GroupInit ==
  /\ GutteringInit
  /\ do_pause = [w \in Worker |-> FALSE]
  /\ paused = [w \in Worker |-> FALSE]
  /\ shutdown = [w \in Worker |-> FALSE]
  /\ wpc = [w \in Worker |-> "get"]
  /\ data = [w \in Worker |-> {}]
  /\ applied = [e \in Update |-> 0]
  /\ flush_lock = Nobody
  /\ mpc = "idle" /\ i = 1

(* notify_all: every worker blocked in wait has to take flush_lock again.    *)
Notified(pcs) == [w \in Worker |-> IF pcs[w] = "wait" THEN "woken" ELSE pcs[w]]

-----------------------------------------------------------------------------
(* do_work.                                                                  *)
\* Mutant: leaves the batch in the queue.
PeekBatch(w) ==
  /\ wpc[w] = "get" /\ queue # <<>>
  /\ taken' = taken \cup {w}
  /\ data' = [data EXCEPT ![w] = Head(queue)]
  /\ wpc' = [wpc EXCEPT ![w] = "work"]
  /\ UNCHANGED <<gutter, queue, non_block, flagVars, applied, flush_lock, mpc, i>>

TakeBatch(w) ==
  /\ wpc[w] = "get" /\ GetBatch(w)
  /\ data' = [data EXCEPT ![w] = Head(queue)]
  /\ wpc' = [wpc EXCEPT ![w] = "work"]
  /\ UNCHANGED <<flagVars, applied, flush_lock, mpc, i>>

(* driver->batch_callback for the batch, then get_data_callback.             *)
Apply(w) ==
  /\ wpc[w] = "work" /\ get_data_callback(w)
  /\ applied' = [e \in Update |-> IF e \in data[w] THEN applied[e] + 1 ELSE applied[e]]
  /\ data' = [data EXCEPT ![w] = {}]
  /\ wpc' = [wpc EXCEPT ![w] = "get"]
  /\ UNCHANGED <<flagVars, flush_lock, mpc, i>>

FindNothing(w) ==
  /\ wpc[w] = "get" /\ GetNothing
  /\ wpc' = [wpc EXCEPT ![w] = "invalid"]
  /\ UNCHANGED <<flagVars, data, applied, flush_lock, mpc, i>>

CheckShutdown(w) ==
  /\ wpc[w] = "invalid"
  /\ wpc' = [wpc EXCEPT ![w] = IF shutdown[w] THEN "exit" ELSE "running"]
  /\ UNCHANGED <<gtsVars, flagVars, data, applied, flush_lock, mpc, i>>

CheckPause(w) ==
  /\ wpc[w] = "running"
  /\ wpc' = [wpc EXCEPT ![w] = IF do_pause[w] THEN "lock" ELSE "get"]
  /\ UNCHANGED <<gtsVars, flagVars, data, applied, flush_lock, mpc, i>>

\* Mutant: does not say that it is paused.
PauseSilently(w) ==
  /\ wpc[w] = "lock" /\ flush_lock = Nobody
  /\ flush_lock' = w
  /\ wpc' = [Notified(wpc) EXCEPT ![w] = "test"]
  /\ UNCHANGED <<gtsVars, flagVars, data, applied, mpc, i>>

(* Takes flush_lock, sets paused and notifies.                               *)
Pause(w) ==
  /\ wpc[w] = "lock" /\ flush_lock = Nobody
  /\ flush_lock' = w
  /\ paused' = [paused EXCEPT ![w] = TRUE]
  /\ wpc' = [Notified(wpc) EXCEPT ![w] = "test"]
  /\ UNCHANGED <<gtsVars, do_pause, shutdown, data, applied, mpc, i>>

(* flush_condition.wait: the predicate is false with the lock held, then the *)
(* wait itself, which releases it.                                           *)
TestWait(w) ==
  /\ wpc[w] = "test" /\ do_pause[w] /\ ~shutdown[w]
  /\ wpc' = [wpc EXCEPT ![w] = "block"]
  /\ UNCHANGED <<gtsVars, flagVars, data, applied, flush_lock, mpc, i>>

Block(w) ==
  /\ wpc[w] = "block"
  /\ flush_lock' = Nobody
  /\ wpc' = [wpc EXCEPT ![w] = "wait"]
  /\ UNCHANGED <<gtsVars, flagVars, data, applied, mpc, i>>

Wake(w) ==
  /\ wpc[w] = "woken" /\ flush_lock = Nobody
  /\ flush_lock' = w
  /\ wpc' = [wpc EXCEPT ![w] = "test"]
  /\ UNCHANGED <<gtsVars, flagVars, data, applied, mpc, i>>

\* Mutant: does not clear paused.
LeaveWaitMarked(w) ==
  /\ wpc[w] = "test" /\ (~do_pause[w] \/ shutdown[w])
  /\ flush_lock' = Nobody
  /\ wpc' = [wpc EXCEPT ![w] = "leave"]
  /\ UNCHANGED <<gtsVars, flagVars, data, applied, mpc, i>>

(* The predicate is true: the worker clears paused, unlocks ...              *)
LeaveWait(w) ==
  /\ wpc[w] = "test" /\ (~do_pause[w] \/ shutdown[w])
  /\ paused' = [paused EXCEPT ![w] = FALSE]
  /\ flush_lock' = Nobody
  /\ wpc' = [wpc EXCEPT ![w] = "leave"]
  /\ UNCHANGED <<gtsVars, do_pause, shutdown, data, applied, mpc, i>>

(* ... and notifies.                                                         *)
NotifyUnpaused(w) ==
  /\ wpc[w] = "leave"
  /\ wpc' = [Notified(wpc) EXCEPT ![w] = "get"]
  /\ UNCHANGED <<gtsVars, flagVars, data, applied, flush_lock, mpc, i>>

DoWork(w) ==
  \/ TakeBatch(w) \/ Apply(w) \/ FindNothing(w) \/ CheckShutdown(w) \/ CheckPause(w)
  \/ Pause(w) \/ TestWait(w) \/ Block(w) \/ Wake(w) \/ LeaveWait(w) \/ NotifyUnpaused(w)

(* A condition variable may wake a waiter that nobody notified.              *)
SpuriousWake(w) ==
  /\ wpc[w] = "wait"
  /\ wpc' = [wpc EXCEPT ![w] = "woken"]
  /\ UNCHANGED <<gtsVars, flagVars, data, applied, flush_lock, mpc, i>>

-----------------------------------------------------------------------------
(* A loop of the driver over the workers: the next one, or on to pc.         *)
NextWorker(pc) ==
  IF i < num_workers THEN i' = i + 1 /\ mpc' = mpc ELSE i' = 1 /\ mpc' = pc

(* resume_workers: unpause() clears do_pause, then paused, ...               *)
Unpause ==
  /\ mpc = "unpause"
  /\ do_pause' = [do_pause EXCEPT ![i] = FALSE]
  /\ mpc' = "unpaused"
  /\ UNCHANGED <<gtsVars, paused, shutdown, workerVars, i>>

Unpaused ==
  /\ mpc = "unpaused"
  /\ paused' = [paused EXCEPT ![i] = FALSE]
  /\ IF i < num_workers THEN i' = i + 1 /\ mpc' = "unpause" ELSE i' = 1 /\ mpc' = "unblock"
  /\ UNCHANGED <<gtsVars, do_pause, shutdown, workerVars>>

(* ... the queue blocks again, and all waiters are notified.                 *)
Unblock ==
  /\ mpc = "unblock" /\ set_non_block(FALSE)
  /\ mpc' = "resume"
  /\ UNCHANGED <<flagVars, workerVars, i>>

NotifyResumed ==
  /\ mpc = "resume"
  /\ wpc' = Notified(wpc)
  /\ mpc' = "stream"
  /\ UNCHANGED <<gtsVars, flagVars, data, applied, flush_lock, i>>

resume_workers == Unpause \/ Unpaused \/ Unblock \/ NotifyResumed

(* flush_workers: the queue no longer blocks, every worker is told to pause, *)
NonBlock ==
  /\ mpc = "flush" /\ set_non_block(TRUE)
  /\ mpc' = "pause"
  /\ UNCHANGED <<flagVars, workerVars, i>>

PauseWorker ==
  /\ mpc = "pause"
  /\ do_pause' = [do_pause EXCEPT ![i] = TRUE]
  /\ NextWorker("flushing")
  /\ UNCHANGED <<gtsVars, paused, shutdown, workerVars>>

\* Mutant: does not wait for the last worker.
AllButLastPaused ==
  /\ mpc = "flushing" /\ flush_lock = Nobody
  /\ \A w \in Worker : w < num_workers => paused[w]
  /\ mpc' = "ready"
  /\ UNCHANGED <<gtsVars, flagVars, workerVars, i>>

(* and the driver returns when, woken or every 500 ms, it finds all of them  *)
(* paused with flush_lock held.                                              *)
AllPaused ==
  /\ mpc = "flushing" /\ flush_lock = Nobody
  /\ \A w \in Worker : paused[w]
  /\ mpc' = "ready"
  /\ UNCHANGED <<gtsVars, flagVars, workerVars, i>>

flush_workers == NonBlock \/ PauseWorker \/ AllPaused

(* ~WorkerThreadGroup: stop() every worker, notify, join.                    *)
NonBlockToStop ==
  /\ mpc = "destroy" /\ set_non_block(TRUE)
  /\ mpc' = "stop"
  /\ UNCHANGED <<flagVars, workerVars, i>>

Stop ==
  /\ mpc = "stop"
  /\ shutdown' = [shutdown EXCEPT ![i] = TRUE]
  /\ NextWorker("stopped")
  /\ UNCHANGED <<gtsVars, do_pause, paused, workerVars>>

NotifyStopped ==
  /\ mpc = "stopped"
  /\ wpc' = Notified(wpc)
  /\ mpc' = "join"
  /\ UNCHANGED <<gtsVars, flagVars, data, applied, flush_lock, i>>

Join ==
  /\ mpc = "join" /\ \A w \in Worker : wpc[w] = "exit"
  /\ mpc' = "end"
  /\ UNCHANGED <<gtsVars, flagVars, workerVars, i>>

destructor == NonBlockToStop \/ Stop \/ NotifyStopped \/ Join
=============================================================================
