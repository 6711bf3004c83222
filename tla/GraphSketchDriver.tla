--------------------------- MODULE GraphSketchDriver ---------------------------
(***************************************************************************)
(* The driver of include/graph_sketch_driver.h above the worker group and  *)
(* the guttering system: process_stream_until, prep_query and the          *)
(* destructor, called one after the other by the user's thread.            *)
(***************************************************************************)
EXTENDS WorkerThreadGroup

CONSTANTS
  StreamLength,   \* edges in the stream
  MaxCalls        \* bound: calls of process_stream_until and prep_query

ASSUME DriverAssumption ==
  /\ StreamLength \in Nat /\ MaxCalls \in Nat
  /\ Update = (1 .. StreamLength) \X {"src", "dst"}

VARIABLES
  inserted,   \* the updates the stream threads have inserted
  goal,       \* the break point
  calls

vars == <<groupVars, inserted, goal, calls>>

Init == GroupInit /\ inserted = {} /\ goal = 0 /\ calls = 0

Outside == mpc \in {"idle", "ready"}   \* no driver call is running

(* process_stream_until(b): resume_workers, then the stream threads.         *)
process_stream_until(b) ==
  /\ Outside /\ calls < MaxCalls
  /\ goal' = b /\ calls' = calls + 1
  /\ mpc' = "unpause"
  /\ UNCHANGED <<gtsVars, flagVars, workerVars, i, inserted>>

(* A stream thread inserts an edge at its source, then at its destination;   *)
(* several of them take the edges up to the break point in any order.  An    *)
(* insert may fill a gutter and wait for the queue.                          *)
Insert(e) ==
  /\ mpc = "stream"
  /\ e \notin inserted /\ e[1] <= goal
  /\ e[2] = "dst" => <<e[1], "src">> \in inserted
  /\ InsertBuffered({e}) \/ InsertQueued({e})
  /\ inserted' = inserted \cup {e}
  /\ UNCHANGED <<flagVars, workerVars, mpc, i, goal, calls>>

(* All stream threads have met the break point and are joined.               *)
BreakPoint ==
  /\ mpc = "stream" /\ (1 .. goal) \X {"src", "dst"} \subseteq inserted
  /\ mpc' = "idle"
  /\ UNCHANGED <<gtsVars, flagVars, workerVars, i, inserted, goal, calls>>

(* prep_query with no cached answer: force_flush, then flush_workers.                              *)
prep_query ==
  /\ Outside /\ calls < MaxCalls
  /\ calls' = calls + 1
  /\ mpc' = "force"
  /\ UNCHANGED <<gtsVars, flagVars, workerVars, i, inserted, goal>>

(* The algorithm has the answer cached: nothing is flushed.                  *)
PrepCached ==
  /\ Outside /\ calls < MaxCalls
  /\ calls' = calls + 1
  /\ UNCHANGED <<groupVars, inserted, goal>>

force_flush ==
  /\ mpc = "force"
  /\ \/ QueueGutter /\ mpc' = mpc
     \/ gutter = {} /\ mpc' = "flush" /\ UNCHANGED gtsVars
  /\ UNCHANGED <<flagVars, workerVars, i, inserted, goal, calls>>

Destroy ==
  /\ Outside
  /\ mpc' = "destroy"
  /\ UNCHANGED <<gtsVars, flagVars, workerVars, i, inserted, goal, calls>>

GroupCall ==
  (resume_workers \/ flush_workers \/ destructor) /\ UNCHANGED <<inserted, goal, calls>>

Running == (\E e \in Update : Insert(e)) \/ BreakPoint \/ force_flush \/ GroupCall

Working(w) == DoWork(w) /\ UNCHANGED <<inserted, goal, calls>>

Spurious(w) == SpuriousWake(w) /\ UNCHANGED <<inserted, goal, calls>>

Ended == mpc = "end" /\ UNCHANGED vars

Next ==
  \/ \E b \in goal .. StreamLength : process_stream_until(b)
  \/ prep_query \/ PrepCached \/ Destroy \/ Running \/ Ended
  \/ \E w \in Worker : Working(w) \/ Spurious(w)

Spec == Init /\ [][Next]_vars

(* The operating system runs every thread that can run, a freed flush_lock    *)
(* is taken in the end by each thread that keeps asking for it, the driver    *)
(* with its 500 ms poll included.                                            *)
Fairness ==
  /\ WF_vars(Running) /\ SF_vars(AllPaused /\ UNCHANGED <<inserted, goal, calls>>)
  /\ \A w \in Worker :
       /\ WF_vars(Working(w))
       /\ SF_vars(Pause(w) /\ UNCHANGED <<inserted, goal, calls>>)
       /\ SF_vars(Wake(w) /\ UNCHANGED <<inserted, goal, calls>>)

FairSpec == Spec /\ Fairness

-----------------------------------------------------------------------------
TypeOK ==
  /\ gutter \subseteq Update /\ queue \in Seq(SUBSET Update)
  /\ taken \subseteq Worker /\ non_block \in BOOLEAN
  /\ do_pause \in [Worker -> BOOLEAN] /\ paused \in [Worker -> BOOLEAN]
  /\ shutdown \in [Worker -> BOOLEAN]
  /\ wpc \in [Worker -> {"get", "work", "invalid", "running", "lock", "test", "block",
                         "wait", "woken", "leave", "exit"}]
  /\ data \in [Worker -> SUBSET Update] /\ applied \in [Update -> Nat]
  /\ flush_lock \in Worker \cup {Nobody} /\ i \in Worker
  /\ mpc \in {"idle", "unpause", "unpaused", "unblock", "resume", "stream", "force",
              "flush", "pause", "flushing", "ready", "destroy", "stop", "stopped",
              "join", "end"}
  /\ inserted \subseteq Update /\ goal \in 0 .. StreamLength /\ calls \in 0 .. MaxCalls

(* From the return of prep_query to the next call of the driver no worker     *)
(* touches the sketches: the query reads a structure at rest.                *)
NoUpdateDuringQuery == [][mpc = "ready" => UNCHANGED <<applied, data>>]_vars

(* The inductive form: a worker marked paused is inside the wait, and stays   *)
(* there as long as the driver does not clear its do_pause.                  *)
InWait(w) == wpc[w] \in {"test", "block", "wait", "woken"}

QuiescentInv ==
  /\ \A w \in Worker : paused[w] => InWait(w)
  /\ mpc \in {"flushing", "ready"} => \A w \in Worker : do_pause[w]
  /\ mpc = "pause" => \A w \in Worker : w < i => do_pause[w]
  /\ mpc \notin {"unpause", "unpaused", "pause", "stop"} => i = 1
  /\ mpc = "ready" => \A w \in Worker : paused[w]
  /\ mpc \notin {"stop", "stopped", "join", "end"} => \A w \in Worker : ~shutdown[w]

(* Every update the stream threads inserted is in one place: a gutter, one    *)
(* batch of the queue, one worker's hands, or applied, once.                 *)
Copies(e) ==
  applied[e] + Cardinality({w \in Worker : e \in data[w]})
    + Cardinality({k \in DOMAIN queue : e \in queue[k]}) + (IF e \in gutter THEN 1 ELSE 0)

UpdateOnce == \A e \in Update : Copies(e) = IF e \in inserted THEN 1 ELSE 0

(* prep_query "ensures the algorithm is ready": when it returns, every update *)
(* inserted before it has been applied.                                      *)
FlushComplete == mpc = "ready" => \A e \in inserted : applied[e] = 1

(* So it is at the first query of a stream (two calls: the stream, the query), *)
(* when no worker has been paused and resumed before.                        *)
FirstFlushComplete == calls <= 2 => FlushComplete

(* prep_query returns.  With a worker still in the wait of the flush before,  *)
(* it does not: the worker waits on and never reports paused.                *)
FlushReturns == mpc = "force" ~> mpc = "ready"

(* The first prep_query of a stream returns.                                 *)
FirstFlushReturns == mpc = "force" /\ calls <= 2 ~> mpc = "ready"
=============================================================================
