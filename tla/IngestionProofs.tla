--------------------------- MODULE IngestionProofs ---------------------------
(***************************************************************************)
(* Ingestion, for any number of threads: that the driver's flush hands     *)
(* every update to the algorithm once before a query reads the sketches,   *)
(* and, in the minimum-cut algorithm that receives the batches, the        *)
(* accounting of the contractions of its edge store.                       *)
(***************************************************************************)
EXTENDS GraphSketchDriver, MCGPUSketchAlg, FiniteSetTheorems, TLAPS

(* The provers in the order they are tried, with their limits in seconds.    *)
USE ZenonT(3), SMTT(20), ZenonT(20)

USE GroupAssumption

(* The part of TypeOK that the pause protocol needs.                        *)
Pc == {"get", "work", "invalid", "running", "lock", "test", "block", "wait", "woken",
       "leave", "exit"}

FlagTypes ==
  /\ do_pause \in [Worker -> BOOLEAN] /\ paused \in [Worker -> BOOLEAN]
  /\ shutdown \in [Worker -> BOOLEAN] /\ wpc \in [Worker -> Pc] /\ i \in Worker

(* The part of the type invariant the quiescence argument needs.             *)
LEMMA TypesFlags == TypeOK => FlagTypes
BY DEF TypeOK, FlagTypes, Pc

(* notify_all moves the waiters and nobody else.                             *)
LEMMA NotifiedType ==
  ASSUME wpc \in [Worker -> Pc]
  PROVE  /\ Notified(wpc) \in [Worker -> Pc]
         /\ \A w \in Worker : \/ Notified(wpc)[w] = wpc[w]
                              \/ wpc[w] = "wait" /\ Notified(wpc)[w] = "woken"
<1>1. "woken" \in Pc
  BY DEF Pc
<1> QED  BY <1>1 DEF Notified

(* The work queue keeps its type.                                            *)
LEMMA QueueType ==
  ASSUME TypeOK, NEW s \in SUBSET Update
  PROVE  /\ Append(queue, gutter \cup s) \in Seq(SUBSET Update)
         /\ queue # <<>> => Head(queue) \in SUBSET Update /\ Tail(queue) \in Seq(SUBSET Update)
BY DEF TypeOK

(* Every step of a worker keeps the types.                                   *)
LEMMA WorkerTypes ==
  ASSUME TypeOK, NEW w \in Worker, Working(w) \/ Spurious(w)
  PROVE  TypeOK'
<1>1. CASE TakeBatch(w) /\ UNCHANGED <<inserted, goal, calls>>
  BY <1>1, QueueType DEF TakeBatch, GetBatch, TypeOK, flagVars
<1>2. CASE Apply(w) /\ UNCHANGED <<inserted, goal, calls>>
  BY <1>2 DEF Apply, get_data_callback, TypeOK, flagVars
<1>3. CASE FindNothing(w) /\ UNCHANGED <<inserted, goal, calls>>
  BY <1>3 DEF FindNothing, GetNothing, TypeOK, flagVars, gtsVars
<1>4. CASE CheckShutdown(w) /\ UNCHANGED <<inserted, goal, calls>>
  BY <1>4 DEF CheckShutdown, TypeOK, flagVars, gtsVars
<1>5. CASE CheckPause(w) /\ UNCHANGED <<inserted, goal, calls>>
  BY <1>5 DEF CheckPause, TypeOK, flagVars, gtsVars
<1>6. CASE Pause(w) /\ UNCHANGED <<inserted, goal, calls>>
  BY <1>6, NotifiedType DEF Pause, Pc, TypeOK, gtsVars
<1>7. CASE TestWait(w) /\ UNCHANGED <<inserted, goal, calls>>
  BY <1>7 DEF TestWait, TypeOK, flagVars, gtsVars
<1>8. CASE Block(w) /\ UNCHANGED <<inserted, goal, calls>>
  BY <1>8 DEF Block, TypeOK, flagVars, gtsVars
<1>9. CASE Wake(w) /\ UNCHANGED <<inserted, goal, calls>>
  BY <1>9 DEF Wake, TypeOK, flagVars, gtsVars
<1>10. CASE LeaveWait(w) /\ UNCHANGED <<inserted, goal, calls>>
  BY <1>10 DEF LeaveWait, TypeOK, gtsVars
<1>11. CASE NotifyUnpaused(w) /\ UNCHANGED <<inserted, goal, calls>>
  BY <1>11, NotifiedType DEF NotifyUnpaused, Pc, TypeOK, flagVars, gtsVars
<1>12. CASE Spurious(w)
  BY <1>12 DEF Spurious, SpuriousWake, TypeOK, flagVars, gtsVars
<1> HIDE DEF TypeOK
<1> QED
  BY <1>1, <1>2, <1>3, <1>4, <1>5, <1>6, <1>7, <1>8, <1>9, <1>10, <1>11, <1>12
  DEF Working, DoWork

(* Every step of resume_workers, flush_workers and the destructor does.      *)
LEMMA GroupTypes ==
  ASSUME TypeOK, GroupCall
  PROVE  TypeOK'
<1> USE DEF Worker
<1>1. CASE Unpause /\ UNCHANGED <<inserted, goal, calls>>
  BY <1>1 DEF Unpause, TypeOK, gtsVars, workerVars
<1>2. CASE Unpaused /\ UNCHANGED <<inserted, goal, calls>>
  BY <1>2 DEF Unpaused, TypeOK, gtsVars, workerVars
<1>3. CASE Unblock /\ UNCHANGED <<inserted, goal, calls>>
  BY <1>3 DEF Unblock, set_non_block, TypeOK, flagVars, workerVars
<1>4. CASE NotifyResumed /\ UNCHANGED <<inserted, goal, calls>>
  BY <1>4, NotifiedType DEF NotifyResumed, Pc, TypeOK, flagVars, gtsVars
<1>5. CASE NonBlock /\ UNCHANGED <<inserted, goal, calls>>
  BY <1>5 DEF NonBlock, set_non_block, TypeOK, flagVars, workerVars
<1>6. CASE PauseWorker /\ UNCHANGED <<inserted, goal, calls>>
  BY <1>6 DEF PauseWorker, NextWorker, TypeOK, gtsVars, workerVars
<1>7. CASE AllPaused /\ UNCHANGED <<inserted, goal, calls>>
  BY <1>7 DEF AllPaused, TypeOK, gtsVars, flagVars, workerVars
<1>8. CASE NonBlockToStop /\ UNCHANGED <<inserted, goal, calls>>
  BY <1>8 DEF NonBlockToStop, set_non_block, TypeOK, flagVars, workerVars
<1>9. CASE Stop /\ UNCHANGED <<inserted, goal, calls>>
  BY <1>9 DEF Stop, NextWorker, TypeOK, gtsVars, workerVars
<1>10. CASE NotifyStopped /\ UNCHANGED <<inserted, goal, calls>>
  BY <1>10, NotifiedType DEF NotifyStopped, Pc, TypeOK, flagVars, gtsVars
<1>11. CASE Join /\ UNCHANGED <<inserted, goal, calls>>
  BY <1>11 DEF Join, TypeOK, gtsVars, flagVars, workerVars
<1> HIDE DEF TypeOK
<1> QED
  BY <1>1, <1>2, <1>3, <1>4, <1>5, <1>6, <1>7, <1>8, <1>9, <1>10, <1>11
  DEF GroupCall, resume_workers, flush_workers, destructor

(* The bounds of the model are numbers.                                      *)
LEMMA Bounds == StreamLength \in Nat /\ MaxCalls \in Nat
BY DriverAssumption

(* So does every other step of the driver.                                   *)
LEMMA TypeStep == TypeOK /\ [Next]_vars => TypeOK'
<1> SUFFICES ASSUME TypeOK, [Next]_vars PROVE TypeOK'
  OBVIOUS
<1>1. ASSUME NEW b \in goal .. StreamLength, process_stream_until(b) PROVE TypeOK'
  BY <1>1, Bounds DEF process_stream_until, TypeOK, gtsVars, flagVars, workerVars
<1>2. CASE prep_query
  BY <1>2, Bounds DEF prep_query, TypeOK, gtsVars, flagVars, workerVars
<1>7. CASE PrepCached
  BY <1>7, Bounds DEF PrepCached, TypeOK, groupVars, gtsVars, flagVars, workerVars
<1>8. CASE Destroy
  BY <1>8 DEF Destroy, TypeOK, gtsVars, flagVars, workerVars
<1>3. ASSUME NEW e \in Update, Insert(e) PROVE TypeOK'
  <2>1. {e} \in SUBSET Update
    BY <1>3
  <2> QED
    BY <1>3, <2>1, QueueType DEF Insert, InsertBuffered, InsertQueued, TypeOK, flagVars, workerVars
<1>4. CASE BreakPoint
  BY <1>4 DEF BreakPoint, TypeOK, gtsVars, flagVars, workerVars
<1>5. CASE force_flush
  BY <1>5, QueueType DEF force_flush, QueueGutter, InsertQueued, TypeOK, gtsVars, flagVars, workerVars
<1>6. CASE Ended \/ UNCHANGED vars
  BY <1>6 DEF Ended, TypeOK, vars, groupVars, gtsVars, flagVars, workerVars
<1> HIDE DEF TypeOK
<1> QED
  BY <1>1, <1>2, <1>3, <1>4, <1>5, <1>6, <1>7, <1>8, WorkerTypes, GroupTypes DEF Next, Running

-----------------------------------------------------------------------------
(* The steps of a worker keep the invariant: it sets paused only as it goes   *)
(* into the wait, and leaves only with do_pause cleared or at shutdown.      *)
LEMMA WorkerQuiescent ==
  ASSUME FlagTypes, QuiescentInv, NEW w \in Worker, Working(w) \/ Spurious(w)
  PROVE  QuiescentInv'
<1> USE DEF FlagTypes, QuiescentInv, InWait, flagVars
<1>1. CASE TakeBatch(w) \/ Apply(w) \/ FindNothing(w)
  BY <1>1 DEF TakeBatch, Apply, FindNothing
<1>2. CASE CheckShutdown(w) \/ CheckPause(w)
  BY <1>2 DEF CheckShutdown, CheckPause
<1>3. CASE Pause(w)
  BY <1>3, NotifiedType DEF Pause
<1>4. CASE TestWait(w) \/ SpuriousWake(w)
  BY <1>4 DEF TestWait, SpuriousWake
<1>7. CASE Block(w)
  BY <1>7 DEF Block
<1>8. CASE Wake(w)
  BY <1>8 DEF Wake
<1>5. CASE LeaveWait(w)
  BY <1>5 DEF LeaveWait
<1>6. CASE NotifyUnpaused(w)
  BY <1>6, NotifiedType DEF NotifyUnpaused
<1> HIDE DEF FlagTypes, QuiescentInv
<1> QED
  BY <1>1, <1>2, <1>3, <1>4, <1>5, <1>6, <1>7, <1>8 DEF Working, Spurious, DoWork

(* The steps of the driver keep it.                                          *)
LEMMA GroupQuiescent ==
  ASSUME FlagTypes, QuiescentInv, GroupCall
  PROVE  QuiescentInv'
<1> USE DEF FlagTypes, QuiescentInv, InWait, flagVars, workerVars, Worker
<1>1. CASE Unpause \/ Unpaused \/ Unblock
  <2>1. CASE Unpause
    BY <2>1 DEF Unpause
  <2>2. CASE Unpaused
    BY <2>2 DEF Unpaused
  <2>3. CASE Unblock
    BY <2>3 DEF Unblock
  <2> HIDE DEF FlagTypes, QuiescentInv
  <2> QED BY <1>1, <2>1, <2>2, <2>3
<1>2. CASE NotifyResumed \/ NotifyStopped
  BY <1>2, NotifiedType DEF NotifyResumed, NotifyStopped
<1>3. CASE NonBlock
  BY <1>3 DEF NonBlock
<1>6. CASE AllPaused
  BY <1>6 DEF AllPaused
<1>7. CASE NonBlockToStop \/ Join
  BY <1>7 DEF NonBlockToStop, Join
<1>4. CASE PauseWorker
  BY <1>4 DEF PauseWorker, NextWorker
<1>5. CASE Stop
  BY <1>5 DEF Stop, NextWorker
<1> HIDE DEF FlagTypes, QuiescentInv
<1> QED
  BY <1>1, <1>2, <1>3, <1>4, <1>5, <1>6, <1>7 DEF GroupCall, resume_workers, flush_workers, destructor

(* So the invariant is inductive.                                            *)
LEMMA QuiescentStep == TypeOK /\ QuiescentInv /\ [Next]_vars => QuiescentInv'
<1> SUFFICES ASSUME TypeOK, QuiescentInv, [Next]_vars PROVE QuiescentInv'
  OBVIOUS
<1> USE DEF QuiescentInv, InWait, groupVars, flagVars, workerVars, Outside
<1>1. ASSUME NEW b \in goal .. StreamLength, process_stream_until(b) PROVE QuiescentInv'
  BY <1>1 DEF process_stream_until
<1>2. CASE prep_query \/ PrepCached \/ Destroy
  BY <1>2 DEF prep_query, PrepCached, Destroy
<1>3. ASSUME NEW e \in Update, Insert(e) PROVE QuiescentInv'
  BY <1>3 DEF Insert
<1>4. CASE BreakPoint \/ force_flush
  BY <1>4 DEF BreakPoint, force_flush
<1>5. CASE Ended \/ UNCHANGED vars
  BY <1>5 DEF Ended, vars
<1> HIDE DEF QuiescentInv
<1> QED
  BY <1>1, <1>2, <1>3, <1>4, <1>5, WorkerQuiescent, GroupQuiescent, TypesFlags DEF Next, Running

(* The driver starts with no worker paused.                                  *)
LEMMA InitQuiescent == Init => TypeOK /\ QuiescentInv
<1> SUFFICES ASSUME Init PROVE TypeOK /\ QuiescentInv
  OBVIOUS
<1> USE DEF Init, GroupInit
<1>1. TypeOK
  <2>1. gutter \subseteq Update /\ queue \in Seq(SUBSET Update) /\ taken \subseteq Worker
    BY DEF GutteringInit
  <2>2. /\ data \in [Worker -> SUBSET Update] /\ applied \in [Update -> Nat]
        /\ inserted \subseteq Update
    OBVIOUS
  <2>3. i \in Worker /\ goal \in 0 .. StreamLength /\ calls \in 0 .. MaxCalls
    BY Bounds DEF Worker
  <2> QED  BY <2>1, <2>2, <2>3 DEF GutteringInit, TypeOK, Nobody
<1>2. QuiescentInv
  BY DEF QuiescentInv
<1> QED  BY <1>1, <1>2

(* The variables of the driver, the workers and the queue keep their types.  *)
THEOREM DriverTypes == Spec => []TypeOK
BY InitQuiescent, TypeStep, PTL DEF Spec

(* A worker marked paused is inside its wait, and prep_query returns only     *)
(* when all of them are, with do_pause set.                                  *)
THEOREM Quiescence == Spec => []QuiescentInv
BY InitQuiescent, TypeStep, QuiescentStep, PTL DEF Spec

(* From the return of prep_query to the next driver call, no batch is taken   *)
(* or applied: queries read sketches at rest.                                *)
THEOREM QueryAtRest == Spec => NoUpdateDuringQuery
<1>1. TypeOK /\ QuiescentInv /\ [Next]_vars => [mpc = "ready" => UNCHANGED <<applied, data>>]_vars
  <2> SUFFICES ASSUME TypeOK, QuiescentInv, Next, mpc = "ready"
               PROVE  UNCHANGED <<applied, data>>
    OBVIOUS
  <2>1. ASSUME NEW w \in Worker PROVE InWait(w) /\ do_pause[w] /\ ~shutdown[w]
    BY <2>1 DEF QuiescentInv
  <2>2. ASSUME NEW w \in Worker, Working(w) \/ Spurious(w)
        PROVE  UNCHANGED <<applied, data>>
    BY <2>1, <2>2 DEF Working, Spurious, DoWork, InWait, TakeBatch, Apply, FindNothing,
      CheckShutdown, CheckPause, Pause, TestWait, Block, Wake, LeaveWait, NotifyUnpaused,
      SpuriousWake
  <2>3. ASSUME NEW b \in goal .. StreamLength, process_stream_until(b)
        PROVE  UNCHANGED <<applied, data>>
    BY <2>3 DEF process_stream_until, workerVars
  <2>4. CASE prep_query \/ PrepCached \/ Destroy
    BY <2>4 DEF prep_query, PrepCached, Destroy, groupVars, workerVars
  <2>5. ~Running /\ ~Ended
    BY DEF Running, Insert, BreakPoint, force_flush, GroupCall, resume_workers, flush_workers,
      destructor, Unpause, Unpaused, Unblock, NotifyResumed, NonBlock, PauseWorker, AllPaused,
      NonBlockToStop, Stop, NotifyStopped, Join, Ended
  <2> QED  BY <2>2, <2>3, <2>4, <2>5 DEF Next
<1> QED
  BY <1>1, InitQuiescent, TypeStep, QuiescentStep, PTL DEF Spec, NoUpdateDuringQuery

-----------------------------------------------------------------------------
(* Where an update can be: in a batch of the queue, in a worker's hands.     *)
InQueue(e) == \E k \in DOMAIN queue : e \in queue[k]
InHands(e) == \E w \in Worker : e \in data[w]

(* The inductive form of UpdateOnce, without counting: the places exclude    *)
(* each other, no two batches share an update, and a worker that is not at   *)
(* work holds none.                                                          *)
PlaceOf(e) ==
  /\ e \in gutter => ~InQueue(e) /\ ~InHands(e) /\ applied[e] = 0
  /\ InQueue(e) => ~InHands(e) /\ applied[e] = 0
  /\ InHands(e) => applied[e] = 0
  /\ applied[e] \in {0, 1}
  /\ e \in inserted <=> (e \in gutter \/ InQueue(e) \/ InHands(e) \/ applied[e] = 1)
  /\ \A j, k \in DOMAIN queue : e \in queue[j] /\ e \in queue[k] => j = k
  /\ \A v, w \in Worker : e \in data[v] /\ e \in data[w] => v = w

HandsInv == \A w \in Worker : wpc[w] # "work" => data[w] = {}

PlaceInv == HandsInv /\ \A e \in Update : PlaceOf(e)

(* Before the first flush no worker has found the queue empty.               *)
Fresh == ~non_block /\ \A w \in Worker : wpc[w] \in {"get", "work"}

(* The inductive form of FirstFlushComplete.  Up to the second call there is *)
(* at most one flush with something to flush; after it has queued the        *)
(* gutters, a worker that is past get_data has found the queue empty.        *)
FirstInv ==
  /\ calls = 0 => inserted = {} /\ mpc \in {"idle", "destroy", "stop", "stopped", "join", "end"}
  /\ calls <= 1 /\ mpc \in {"idle", "unpause", "unpaused", "unblock", "resume", "stream"} => Fresh
  /\ calls <= 1 /\ mpc \in {"force", "flush", "pause", "flushing", "ready"} => inserted = {}
  /\ calls <= 2 /\ mpc \in {"force", "flush"} => inserted = {} \/ Fresh
  /\ calls <= 2 /\ mpc \in {"flush", "pause", "flushing", "ready"} => gutter = {}
  /\ calls <= 2 /\ mpc \in {"pause", "flushing", "ready"} /\ inserted # {} =>
       \A w \in Worker : wpc[w] \notin {"get", "work"} => queue = <<>>

(* A batch joins the queue at its end.                                       *)
LEMMA AppendQueue ==
  ASSUME NEW q \in Seq(SUBSET Update), NEW s \in SUBSET Update
  PROVE  LET new == Append(q, s)
         IN  /\ DOMAIN new = DOMAIN q \cup {Len(q) + 1} /\ Len(q) + 1 \notin DOMAIN q
             /\ new[Len(q) + 1] = s /\ \A k \in DOMAIN q : new[k] = q[k]
OBVIOUS

(* A batch leaves it at its head, and the others move up.                    *)
LEMMA TailQueue ==
  ASSUME NEW q \in Seq(SUBSET Update), q # <<>>
  PROVE  /\ 1 \in DOMAIN q /\ Head(q) = q[1]
         /\ \A k \in DOMAIN Tail(q) :
              k \in Nat /\ k + 1 \in DOMAIN q /\ k + 1 # 1 /\ Tail(q)[k] = q[k + 1]
         /\ \A k \in DOMAIN q : k # 1 => k - 1 \in DOMAIN Tail(q) /\ Tail(q)[k - 1] = q[k]
OBVIOUS

(* An update stays where it is when no place changes.                        *)
LEMMA PlacesStay ==
  ASSUME PlaceInv, UNCHANGED <<gutter, queue, data, applied, inserted>>, HandsInv'
  PROVE  PlaceInv'
<1>1. ASSUME NEW e \in Update PROVE PlaceOf(e)'
  BY DEF PlaceInv, PlaceOf, InQueue, InHands
<1> QED BY <1>1 DEF PlaceInv

(* get_data moves a batch from the queue into a worker's hands.              *)
LEMMA TakeBatchPlaces ==
  ASSUME TypeOK, PlaceInv, NEW w \in Worker, TakeBatch(w), UNCHANGED inserted
  PROVE  PlaceInv'
<1>1. /\ wpc[w] = "get" /\ queue # <<>> /\ queue' = Tail(queue) /\ gutter' = gutter
      /\ data' = [data EXCEPT ![w] = queue[1]] /\ wpc' = [wpc EXCEPT ![w] = "work"]
      /\ applied' = applied /\ queue \in Seq(SUBSET Update)
  BY TailQueue DEF TakeBatch, GetBatch, TypeOK
<1>2. data \in [Worker -> SUBSET Update] /\ wpc \in [Worker -> Pc] /\ data[w] = {}
  BY <1>1 DEF TypeOK, PlaceInv, HandsInv, Pc
<1>3. HandsInv'
  BY <1>1, <1>2 DEF PlaceInv, HandsInv
<1>4. ASSUME NEW e \in Update PROVE PlaceOf(e)'
  <2>0. PlaceOf(e)
    BY DEF PlaceInv
  <2>1. /\ \A v \in Worker : e \in data'[v] <=> (IF v = w THEN e \in queue[1] ELSE e \in data[v])
        /\ e \notin data[w]
    BY <1>1, <1>2
  <2>2. 1 \in DOMAIN queue
    BY <1>1, TailQueue
  <2>3. \A k \in DOMAIN queue' :
          k \in Nat /\ k + 1 \in DOMAIN queue /\ k + 1 # 1 /\ queue'[k] = queue[k + 1]
    BY <1>1, TailQueue
  <2>4. \A k \in DOMAIN queue : k # 1 => k - 1 \in DOMAIN queue' /\ queue'[k - 1] = queue[k]
    BY <1>1, TailQueue
  <2>5. \A j, k \in DOMAIN queue' : e \in queue'[j] /\ e \in queue'[k] => j = k
    <3> SUFFICES ASSUME NEW j \in DOMAIN queue', NEW k \in DOMAIN queue',
                        e \in queue'[j], e \in queue'[k]
                 PROVE  j = k
      OBVIOUS
    <3>1. j \in Nat /\ k \in Nat /\ j + 1 = k + 1
      BY <2>0, <2>3 DEF PlaceOf
    <3> QED BY <3>1
  <2>6. CASE e \in queue[1]
    <3>1. InQueue(e) /\ ~InHands(e) /\ applied[e] = 0 /\ e \notin gutter
      BY <2>0, <2>2, <2>6 DEF InQueue, PlaceOf
    <3>2. ~InQueue(e)'
      BY <2>0, <2>2, <2>3, <2>6 DEF InQueue, PlaceOf
    <3>3. InHands(e)' /\ \A u, v \in Worker : e \in data'[u] /\ e \in data'[v] => u = v
      BY <2>1, <2>6, <3>1 DEF InHands
    <3> QED BY <1>1, <2>0, <2>5, <3>1, <3>2, <3>3 DEF PlaceOf
  <2>7. CASE e \notin queue[1]
    <3>1. InQueue(e)' <=> InQueue(e)
      BY <2>3, <2>4, <2>7 DEF InQueue
    <3>2. \A v \in Worker : e \in data'[v] <=> e \in data[v]
      BY <2>1, <2>7
    <3>3. InHands(e)' <=> InHands(e)
      BY <3>2 DEF InHands
    <3> QED BY <1>1, <2>0, <2>5, <3>1, <3>2, <3>3 DEF PlaceOf
  <2> QED BY <2>6, <2>7
<1> QED BY <1>3, <1>4 DEF PlaceInv

(* apply_update_batch applies what the worker holds, and nothing else.       *)
LEMMA ApplyPlaces ==
  ASSUME TypeOK, PlaceInv, NEW w \in Worker, Apply(w), UNCHANGED inserted
  PROVE  PlaceInv'
<1>1. /\ UNCHANGED <<gutter, queue>> /\ data' = [data EXCEPT ![w] = {}]
      /\ applied' = [e \in Update |-> IF e \in data[w] THEN applied[e] + 1 ELSE applied[e]]
      /\ wpc' = [wpc EXCEPT ![w] = "get"]
  BY DEF Apply, get_data_callback
<1>2. data \in [Worker -> SUBSET Update] /\ wpc \in [Worker -> Pc]
  BY DEF TypeOK, Pc
<1>3. HandsInv'
  BY <1>1, <1>2 DEF PlaceInv, HandsInv
<1>4. ASSUME NEW e \in Update PROVE PlaceOf(e)'
  <2>0. PlaceOf(e)
    BY DEF PlaceInv
  <2>1. \A v \in Worker : e \in data'[v] <=> (v # w /\ e \in data[v])
    BY <1>1, <1>2
  <2>2. InQueue(e)' <=> InQueue(e)
    BY <1>1 DEF InQueue
  <2>3. CASE e \in data[w]
    <3>1. InHands(e) /\ ~InHands(e)' /\ applied'[e] = applied[e] + 1
      BY <1>1, <2>0, <2>1, <2>3 DEF InHands, PlaceOf
    <3> QED BY <1>1, <2>0, <2>1, <2>2, <3>1 DEF PlaceOf
  <2>4. CASE e \notin data[w]
    <3>1. (InHands(e)' <=> InHands(e)) /\ applied'[e] = applied[e]
      BY <1>1, <2>1, <2>4 DEF InHands
    <3> QED BY <1>1, <2>0, <2>1, <2>2, <3>1 DEF PlaceOf
  <2> QED BY <2>3, <2>4
<1> QED BY <1>3, <1>4 DEF PlaceInv

(* What the gutters hold is queued, new updates with it.                     *)
LEMMA QueuedPlaces ==
  ASSUME TypeOK, PlaceInv, NEW s \in SUBSET Update, s \cap inserted = {},
         InsertQueued(s), inserted' = inserted \cup s, UNCHANGED <<wpc, data, applied>>
  PROVE  PlaceInv'
<1>1. /\ queue \in Seq(SUBSET Update) /\ gutter \cup s \in SUBSET Update
      /\ queue' = Append(queue, gutter \cup s) /\ gutter' = {}
  BY DEF TypeOK, InsertQueued
<1> DEFINE last == Len(queue) + 1
<1>2. /\ DOMAIN queue' = DOMAIN queue \cup {last} /\ last \notin DOMAIN queue
      /\ queue'[last] = gutter \cup s /\ \A k \in DOMAIN queue : queue'[k] = queue[k]
  BY <1>1, AppendQueue
<1> HIDE DEF last
<1>3. ASSUME NEW e \in Update PROVE PlaceOf(e)'
  <2>0. PlaceOf(e)
    BY DEF PlaceInv
  <2>1. InHands(e)' <=> InHands(e)
    BY DEF InHands
  <2>2. InQueue(e)' <=> (InQueue(e) \/ e \in gutter \cup s)
    BY <1>2 DEF InQueue
  <2>3. e \in gutter \cup s => ~InQueue(e) /\ ~InHands(e) /\ applied[e] = 0
    BY <2>0 DEF PlaceOf
  <2>4. \A j, k \in DOMAIN queue' : e \in queue'[j] /\ e \in queue'[k] => j = k
    BY <1>2, <2>0, <2>3 DEF PlaceOf, InQueue
  <2>5. /\ e \notin gutter' /\ applied'[e] = applied[e] /\ data' = data
        /\ e \in inserted' <=> (e \in inserted \/ e \in s)
    BY <1>1
  <2> QED BY <2>0, <2>1, <2>2, <2>3, <2>4, <2>5 DEF PlaceOf
<1> QED BY <1>3 DEF PlaceInv, HandsInv

(* An update joins its gutter.                                               *)
LEMMA BufferedPlaces ==
  ASSUME TypeOK, PlaceInv, NEW f \in Update, f \notin inserted,
         InsertBuffered({f}), inserted' = inserted \cup {f}, UNCHANGED <<wpc, data, applied>>
  PROVE  PlaceInv'
<1>1. gutter' = gutter \cup {f} /\ queue' = queue
  BY DEF InsertBuffered
<1>2. ASSUME NEW e \in Update PROVE PlaceOf(e)'
  <2>0. PlaceOf(e)
    BY DEF PlaceInv
  <2>1. (InHands(e)' <=> InHands(e)) /\ (InQueue(e)' <=> InQueue(e))
    BY <1>1 DEF InHands, InQueue
  <2>2. e = f => ~InQueue(e) /\ ~InHands(e) /\ applied[e] = 0
    BY <2>0 DEF PlaceOf
  <2>3. /\ e \in gutter' <=> (e \in gutter \/ e = f)
        /\ e \in inserted' <=> (e \in inserted \/ e = f)
        /\ applied'[e] = applied[e] /\ data' = data
    BY <1>1
  <2> QED BY <1>1, <2>0, <2>1, <2>2, <2>3 DEF PlaceOf
<1> QED BY <1>2 DEF PlaceInv, HandsInv

(* A worker that does not take or apply a batch moves nothing.               *)
LEMMA WorkerPlaces ==
  ASSUME TypeOK, PlaceInv, NEW w \in Worker, Working(w) \/ Spurious(w)
  PROVE  PlaceInv'
<1> USE DEF gtsVars, flagVars
<1>0. wpc \in [Worker -> Pc] /\ HandsInv
  BY DEF TypeOK, Pc, PlaceInv
<1>1. CASE TakeBatch(w) /\ UNCHANGED inserted
  BY <1>1, TakeBatchPlaces
<1>2. CASE Apply(w) /\ UNCHANGED inserted
  BY <1>2, ApplyPlaces
<1>3. ASSUME UNCHANGED <<gutter, queue, data, applied, inserted>>,
             \A v \in Worker : wpc'[v] = "work" => wpc[v] = "work",
             \A v \in Worker : wpc[v] = "work" => wpc'[v] = "work"
      PROVE  PlaceInv'
  <2>1. HandsInv'
    BY <1>0, <1>3 DEF HandsInv
  <2> QED BY <1>3, <2>1, PlacesStay
<1>4. CASE FindNothing(w) /\ UNCHANGED inserted
  BY <1>0, <1>3, <1>4 DEF FindNothing, GetNothing
<1>5. CASE (CheckShutdown(w) \/ CheckPause(w)) /\ UNCHANGED inserted
  BY <1>0, <1>3, <1>5 DEF CheckShutdown, CheckPause
<1>6. CASE Pause(w) /\ UNCHANGED inserted
  BY <1>0, <1>3, <1>6, NotifiedType DEF Pause
<1>7. CASE (TestWait(w) \/ SpuriousWake(w)) /\ UNCHANGED inserted
  BY <1>0, <1>3, <1>7 DEF TestWait, SpuriousWake
<1>8. CASE (Block(w) \/ Wake(w)) /\ UNCHANGED inserted
  BY <1>0, <1>3, <1>8 DEF Block, Wake
<1>9. CASE LeaveWait(w) /\ UNCHANGED inserted
  BY <1>0, <1>3, <1>9 DEF LeaveWait
<1>10. CASE NotifyUnpaused(w) /\ UNCHANGED inserted
  BY <1>0, <1>3, <1>10, NotifiedType DEF NotifyUnpaused
<1> QED
  BY <1>1, <1>2, <1>4, <1>5, <1>6, <1>7, <1>8, <1>9, <1>10 DEF Working, Spurious, DoWork

(* resume_workers, flush_workers and the destructor move no update.          *)
LEMMA GroupPlaces ==
  ASSUME TypeOK, PlaceInv, GroupCall
  PROVE  PlaceInv'
<1> USE DEF gtsVars, flagVars, workerVars
<1>0. wpc \in [Worker -> Pc] /\ HandsInv
  BY DEF TypeOK, Pc, PlaceInv
<1>1. UNCHANGED <<gutter, queue, data, applied, inserted>> /\ (wpc' = wpc \/ wpc' = Notified(wpc))
  BY DEF GroupCall, resume_workers, flush_workers, destructor, Unpause, Unpaused, Unblock,
    NotifyResumed, NonBlock, PauseWorker, AllPaused, NonBlockToStop, Stop, NotifyStopped, Join,
    set_non_block
<1>2. HandsInv'
  BY <1>0, <1>1, NotifiedType DEF HandsInv
<1> QED BY <1>1, <1>2, PlacesStay

(* Every step of the driver keeps the places.                                *)
LEMMA PlaceStep == TypeOK /\ PlaceInv /\ [Next]_vars => PlaceInv'
<1> SUFFICES ASSUME TypeOK, PlaceInv, [Next]_vars PROVE PlaceInv'
  OBVIOUS
<1>1. ASSUME UNCHANGED <<gutter, queue, data, applied, inserted, wpc>> PROVE PlaceInv'
  <2>1. HandsInv'
    BY <1>1 DEF PlaceInv, HandsInv
  <2> QED BY <1>1, <2>1, PlacesStay
<1>2. ASSUME NEW b \in goal .. StreamLength, process_stream_until(b) PROVE PlaceInv'
  BY <1>1, <1>2 DEF process_stream_until, gtsVars, workerVars
<1>3. CASE prep_query \/ PrepCached \/ Destroy
  BY <1>1, <1>3 DEF prep_query, PrepCached, Destroy, groupVars, gtsVars, workerVars
<1>4. ASSUME NEW e \in Update, Insert(e) PROVE PlaceInv'
  <2>1. /\ e \notin inserted /\ inserted' = inserted \cup {e} /\ UNCHANGED <<wpc, data, applied>>
        /\ InsertBuffered({e}) \/ InsertQueued({e})
    BY <1>4 DEF Insert, workerVars
  <2>2. {e} \in SUBSET Update /\ {e} \cap inserted = {}
    BY <2>1
  <2> QED BY <2>1, <2>2, QueuedPlaces, BufferedPlaces
<1>5. CASE BreakPoint
  BY <1>1, <1>5 DEF BreakPoint, gtsVars, workerVars
<1>6. CASE force_flush
  <2>1. UNCHANGED <<inserted, wpc, data, applied>> /\ (InsertQueued({}) \/ UNCHANGED <<gutter, queue>>)
    BY <1>6 DEF force_flush, QueueGutter, gtsVars, workerVars
  <2>2. CASE InsertQueued({})
    <3>1. {} \in SUBSET Update /\ {} \cap inserted = {} /\ inserted' = inserted \cup {}
      BY <2>1
    <3> QED BY <2>1, <2>2, <3>1, QueuedPlaces
  <2> QED BY <1>1, <2>1, <2>2
<1>7. CASE Ended \/ UNCHANGED vars
  BY <1>1, <1>7 DEF Ended, vars, groupVars, gtsVars, workerVars
<1> QED
  BY <1>2, <1>3, <1>4, <1>5, <1>6, <1>7, WorkerPlaces, GroupPlaces DEF Next, Running

(* At first there is no update anywhere.                                     *)
LEMMA PlaceInit == Init => PlaceInv
<1> SUFFICES ASSUME Init PROVE PlaceInv
  OBVIOUS
<1>1. /\ gutter = {} /\ queue = <<>> /\ inserted = {} /\ applied = [e \in Update |-> 0]
      /\ data = [w \in Worker |-> {}]
  BY DEF Init, GroupInit, GutteringInit
<1>2. ASSUME NEW e \in Update PROVE PlaceOf(e)
  <2>1. ~InQueue(e) /\ ~InHands(e) /\ DOMAIN queue = {}
    BY <1>1 DEF InQueue, InHands
  <2> QED BY <1>1, <2>1 DEF PlaceOf
<1> QED BY <1>1, <1>2 DEF PlaceInv, HandsInv

(* A set with at most one element is counted by whether it has one.          *)
LEMMA AtMostOne ==
  ASSUME NEW S, \A x, y \in S : x = y
  PROVE  Cardinality(S) = IF S = {} THEN 0 ELSE 1
<1>1. CASE S = {}
  BY <1>1, FS_EmptySet
<1>2. CASE S # {}
  <2>1. PICK x : x \in S
    BY <1>2
  <2>2. S = {x}
    BY <2>1
  <2> QED BY <2>2, FS_Singleton
<1> QED BY <1>1, <1>2

(* Counting the copies of an update gives the places it is in.               *)
LEMMA PlacesCount == PlaceInv => UpdateOnce
<1> SUFFICES ASSUME PlaceInv, NEW e \in Update
             PROVE  Copies(e) = IF e \in inserted THEN 1 ELSE 0
  BY DEF UpdateOnce
<1> DEFINE W == {w \in Worker : e \in data[w]}
           Q == {k \in DOMAIN queue : e \in queue[k]}
<1>0. PlaceOf(e)
  BY DEF PlaceInv
<1>1. Cardinality(W) = IF InHands(e) THEN 1 ELSE 0
  <2>1. (\A v, w \in W : v = w) /\ (W = {} <=> ~InHands(e))
    BY <1>0 DEF PlaceOf, InHands
  <2> QED BY <2>1, AtMostOne
<1>2. Cardinality(Q) = IF InQueue(e) THEN 1 ELSE 0
  <2>1. (\A j, k \in Q : j = k) /\ (Q = {} <=> ~InQueue(e))
    BY <1>0 DEF PlaceOf, InQueue
  <2> QED BY <2>1, AtMostOne
<1>3. Copies(e) = applied[e] + Cardinality(W) + Cardinality(Q) + (IF e \in gutter THEN 1 ELSE 0)
  BY DEF Copies
<1> HIDE DEF W, Q
<1> QED BY <1>0, <1>1, <1>2, <1>3 DEF PlaceOf

(* Whatever the workers, the stream threads and the driver do, an update     *)
(* that was inserted is in a gutter, in the queue, in a worker's hands or    *)
(* applied, and never twice.                                                 *)
THEOREM UpdateOnceTheorem == Spec => []UpdateOnce
BY InitQuiescent, TypeStep, PlaceInit, PlaceStep, PlacesCount, PTL DEF Spec

-----------------------------------------------------------------------------
(* A worker that leaves get_data without a batch has found the queue empty,  *)
(* and before the queue stops blocking it does not leave.                    *)
LEMMA WorkerFirst ==
  ASSUME TypeOK, FirstInv, NEW w \in Worker, Working(w) \/ Spurious(w)
  PROVE  FirstInv'
<1> USE DEF gtsVars, flagVars
<1>0. wpc \in [Worker -> Pc] /\ UNCHANGED <<gutter, non_block, mpc, inserted, calls>>
  BY DEF TypeOK, Pc, Working, Spurious, DoWork, TakeBatch, GetBatch, Apply, get_data_callback,
    FindNothing, GetNothing, CheckShutdown, CheckPause, Pause, TestWait, Block, Wake, LeaveWait,
    NotifyUnpaused, SpuriousWake
<1>1. Fresh => Fresh'
  BY <1>0 DEF Fresh, Working, Spurious, DoWork, TakeBatch, Apply, FindNothing, GetNothing,
    CheckShutdown, CheckPause, Pause, TestWait, Block, Wake, LeaveWait, NotifyUnpaused, SpuriousWake
<1>2. ASSUME \A v \in Worker : wpc[v] \notin {"get", "work"} => queue = <<>>,
             NEW v \in Worker, wpc'[v] \notin {"get", "work"}
      PROVE  queue' = <<>>
  <2>1. CASE TakeBatch(w)
    <3>1. v # w /\ wpc'[v] = wpc[v] /\ queue # <<>>
      BY <1>0, <1>2, <2>1 DEF TakeBatch, GetBatch
    <3> QED BY <1>2, <3>1
  <2>2. CASE Apply(w)
    <3>1. v # w /\ wpc'[v] = wpc[v] /\ queue' = queue
      BY <1>0, <1>2, <2>2 DEF Apply, get_data_callback
    <3> QED BY <1>2, <3>1
  <2>3. CASE FindNothing(w)
    BY <2>3 DEF FindNothing, GetNothing
  <2>4. CASE wpc[w] \notin {"get", "work"}
    <3>1. queue' = queue
      BY <2>4 DEF Working, Spurious, DoWork, TakeBatch, Apply, FindNothing, CheckShutdown,
        CheckPause, Pause, TestWait, Block, Wake, LeaveWait, NotifyUnpaused, SpuriousWake
    <3> QED BY <1>2, <2>4, <3>1
  <2>5. \/ TakeBatch(w) \/ Apply(w) \/ FindNothing(w)
        \/ wpc[w] \notin {"get", "work"}
    BY DEF Working, Spurious, DoWork, CheckShutdown, CheckPause, Pause, TestWait, Block, Wake,
      LeaveWait, NotifyUnpaused, SpuriousWake
  <2> QED BY <2>1, <2>2, <2>3, <2>4, <2>5
<1> QED BY <1>0, <1>1, <1>2 DEF FirstInv

(* The driver queues the gutters before it stops the queue from blocking.    *)
LEMMA GroupFirst ==
  ASSUME TypeOK, FirstInv, GroupCall
  PROVE  FirstInv'
<1> USE DEF gtsVars, flagVars, workerVars
<1>0. wpc \in [Worker -> Pc] /\ calls \in Nat
  BY Bounds DEF TypeOK, Pc
<1>1. UNCHANGED <<gutter, queue, inserted, calls>>
  BY DEF GroupCall, resume_workers, flush_workers, destructor, Unpause, Unpaused, Unblock,
    NotifyResumed, NonBlock, PauseWorker, AllPaused, NonBlockToStop, Stop, NotifyStopped, Join,
    set_non_block
<1>2. ASSUME mpc \in {"unpause", "unpaused", "unblock", "resume"}, resume_workers
      PROVE  /\ mpc' \in {"unpause", "unpaused", "unblock", "resume", "stream"}
             /\ Fresh => Fresh'
  <2>1. CASE Unpause \/ Unpaused
    BY <2>1 DEF Unpause, Unpaused, Fresh
  <2>2. CASE Unblock
    BY <2>2 DEF Unblock, set_non_block, Fresh
  <2>3. CASE NotifyResumed
    BY <1>0, <2>3, NotifiedType DEF NotifyResumed, Fresh
  <2> QED BY <1>2, <2>1, <2>2, <2>3 DEF resume_workers
<1>3. CASE resume_workers
  <2>1. mpc \in {"unpause", "unpaused", "unblock", "resume"}
    BY <1>3 DEF resume_workers, Unpause, Unpaused, Unblock, NotifyResumed
  <2> QED BY <1>0, <1>1, <1>2, <1>3, <2>1 DEF FirstInv
<1>4. CASE NonBlock
  <2>1. mpc = "flush" /\ mpc' = "pause" /\ wpc' = wpc
    BY <1>4 DEF NonBlock
  <2> QED BY <1>0, <1>1, <2>1 DEF FirstInv, Fresh
<1>5. CASE PauseWorker \/ AllPaused
  <2>1. /\ mpc \in {"pause", "flushing"} /\ mpc' \in {"pause", "flushing", "ready"}
        /\ wpc' = wpc
    BY <1>5 DEF PauseWorker, AllPaused, NextWorker
  <2> QED BY <1>0, <1>1, <2>1 DEF FirstInv
<1>6. CASE destructor
  <2>1. mpc' \in {"stop", "stopped", "join", "end"}
    BY <1>6 DEF destructor, NonBlockToStop, Stop, NotifyStopped, Join, NextWorker
  <2> QED BY <1>1, <2>1 DEF FirstInv
<1> QED BY <1>3, <1>4, <1>5, <1>6 DEF GroupCall, flush_workers

(* Two calls are not enough for a second flush with something to flush.      *)
LEMMA FirstStep == TypeOK /\ FirstInv /\ [Next]_vars => FirstInv'
<1> SUFFICES ASSUME TypeOK, FirstInv, [Next]_vars PROVE FirstInv'
  OBVIOUS
<1>0. calls \in Nat
  BY Bounds DEF TypeOK
<1> USE DEF gtsVars, workerVars, Fresh
<1>1. ASSUME NEW b \in goal .. StreamLength, process_stream_until(b) PROVE FirstInv'
  BY <1>0, <1>1 DEF process_stream_until, FirstInv, Outside
<1>2. CASE prep_query
  BY <1>0, <1>2 DEF prep_query, FirstInv, Outside
<1>3. CASE PrepCached
  BY <1>0, <1>3 DEF PrepCached, FirstInv, Outside, groupVars
<1>4. CASE Destroy
  BY <1>4 DEF Destroy, FirstInv
<1>5. ASSUME NEW e \in Update, Insert(e) PROVE FirstInv'
  BY <1>5 DEF Insert, InsertBuffered, InsertQueued, FirstInv
<1>6. CASE BreakPoint
  BY <1>6 DEF BreakPoint, FirstInv
<1>7. CASE force_flush
  BY <1>7 DEF force_flush, QueueGutter, InsertQueued, FirstInv
<1>8. CASE Ended \/ UNCHANGED vars
  BY <1>8 DEF Ended, vars, groupVars, FirstInv
<1> HIDE DEF Fresh
<1> QED
  BY <1>1, <1>2, <1>3, <1>4, <1>5, <1>6, <1>7, <1>8, WorkerFirst, GroupFirst DEF Next, Running

(* When prep_query returns, the workers in their waits have left nothing.    *)
LEMMA FirstComplete ==
  ASSUME TypeOK, QuiescentInv, PlaceInv, FirstInv
  PROVE  FirstFlushComplete
<1> SUFFICES ASSUME calls <= 2, mpc = "ready", NEW e \in inserted PROVE applied[e] = 1
  BY DEF FirstFlushComplete, FlushComplete
<1>1. \A w \in Worker : wpc[w] \notin {"get", "work"}
  BY DEF QuiescentInv, InWait
<1>2. queue = <<>> /\ gutter = {}
  <2>1. 1 \in Worker /\ inserted # {}
    BY DEF Worker
  <2> QED BY <1>1, <2>1 DEF FirstInv
<1>3. PlaceOf(e) /\ ~InHands(e) /\ ~InQueue(e)
  BY <1>1, <1>2 DEF PlaceInv, HandsInv, InHands, InQueue, TypeOK
<1> QED BY <1>2, <1>3 DEF PlaceOf

(* When the first prep_query of a stream returns, every update inserted      *)
(* before it has been applied.                                               *)
THEOREM FirstFlush == Spec => []FirstFlushComplete
<1>1. Init => FirstInv
  BY DEF Init, GroupInit, GutteringInit, FirstInv, Fresh
<1> QED
  BY <1>1, InitQuiescent, TypeStep, QuiescentStep, PlaceInit, PlaceStep, FirstStep,
     FirstComplete, PTL DEF Spec

------------------------------------------------------------------------------

(* The types of the counters, the lock and the program counters.             *)
LevelTypes ==
  /\ cur_subgraph \in Nat /\ true_min_subgraph \in Nat
  /\ needs_contraction \in 0 .. num_vertices + 1
  /\ contract_lock \in Thread \cup {NoThread}
  /\ pc \in [Thread -> Steps] /\ first_es \in [Thread -> Nat]

LevelInv == LevelTypes /\ ContractionInv

(* A step of one thread that leaves the counters and the lock alone, and is   *)
(* not about to reset, raise or bump before or after, keeps the accounting.  *)
LEMMA NeutralStep ==
  ASSUME LevelInv, NEW t \in Thread, NEW x \in Steps \ {"reset", "raise", "bump"},
         NEW f \in Nat, f <= cur_subgraph,
         pc[t] \notin {"reset", "raise", "bump"},
         x \in {"claim", "probe"} => cur_subgraph > start_subgraph,
         Goto(t, x),
         first_es' = [first_es EXCEPT ![t] = f],
         UNCHANGED <<levels, contract_lock>>
  PROVE  LevelInv'
<1>1. /\ UNCHANGED <<cur_subgraph, true_min_subgraph, needs_contraction, contract_lock>>
      /\ pc' \in [Thread -> Steps] /\ first_es' \in [Thread -> Nat]
      /\ \A u \in Thread : pc'[u] = IF u = t THEN x ELSE pc[u]
      /\ \A u \in Thread : first_es'[u] = IF u = t THEN f ELSE first_es[u]
  BY DEF LevelInv, LevelTypes, Goto, levels
<1>2. Bumping' = Bumping /\ (Open' <=> Open) /\ (contract_in_progress' <=> contract_in_progress)
  BY <1>1 DEF Bumping, Open, contract_in_progress
<1>3. LevelTypes'
  BY <1>1 DEF LevelInv, LevelTypes
<1>4. ContractionInv'
  BY <1>1, <1>2 DEF LevelInv, ContractionInv
<1> QED
  BY <1>3, <1>4 DEF LevelInv

(* The same when first_es is left alone.                                     *)
LEMMA NeutralGoto ==
  ASSUME LevelInv, NEW t \in Thread, NEW x \in Steps \ {"reset", "raise", "bump"},
         pc[t] \notin {"reset", "raise", "bump"},
         x \in {"claim", "probe"} => cur_subgraph > start_subgraph,
         Goto(t, x),
         UNCHANGED <<levels, contract_lock, first_es>>
  PROVE  LevelInv'
<1>1. first_es' = [first_es EXCEPT ![t] = first_es[t]] /\ first_es[t] \in Nat
      /\ first_es[t] <= cur_subgraph
  BY DEF LevelInv, LevelTypes, ContractionInv
<1> QED
  BY <1>1, NeutralStep

-----------------------------------------------------------------------------
(* A claim: of a vertex, of the end of the contraction, or of nothing.        *)
LEMMA ClaimStep ==
  ASSUME LevelInv, NEW t \in Thread, ClaimVertex(t)
  PROVE  LevelInv'
<1> DEFINE x == IF needs_contraction < num_vertices THEN "probe"
                ELSE IF needs_contraction = num_vertices THEN "bump" ELSE "complete"
<1>1. /\ UNCHANGED <<cur_subgraph, true_min_subgraph, contract_lock, first_es>>
      /\ needs_contraction' = IF needs_contraction > num_vertices
                              THEN needs_contraction ELSE needs_contraction + 1
      /\ pc[t] = "claim"
      /\ pc' = [pc EXCEPT ![t] = x]
  BY StoreAssumption DEF ClaimVertex, Goto, Return, locks, LevelInv, LevelTypes
<1>2. /\ needs_contraction \in Nat /\ num_vertices \in Nat
      /\ pc' \in [Thread -> Steps]
      /\ \A u \in Thread : pc'[u] = IF u = t THEN x ELSE pc[u]
  BY <1>1, StoreAssumption DEF LevelInv, LevelTypes, Steps
<1>3. LevelTypes'
  BY <1>1, <1>2 DEF LevelInv, LevelTypes
<1>4. Open \/ needs_contraction > num_vertices
  <2>1. cur_subgraph \in Nat /\ start_subgraph \in Nat /\ cur_subgraph > start_subgraph
    BY <1>1, StoreAssumption DEF LevelInv, LevelTypes, ContractionInv
  <2> QED
    BY <2>1 DEF LevelInv, ContractionInv
<1>5. (contract_in_progress' <=> contract_in_progress) /\ (Open' <=> Open)
  BY <1>1, <1>2 DEF Open, contract_in_progress
<1>6. Bumping' = IF needs_contraction = num_vertices THEN Bumping \cup {t} ELSE Bumping
  BY <1>1, <1>2 DEF Bumping
<1>7. ContractionInv'
  BY <1>1, <1>2, <1>4, <1>5, <1>6 DEF LevelInv, ContractionInv
<1> QED
  BY <1>3, <1>7 DEF LevelInv

(* The end of a contraction: the only thread that may end it does.            *)
LEMMA CompleteStep ==
  ASSUME LevelInv, NEW t \in Thread, CompleteContraction(t)
  PROVE  LevelInv'
<1>1. /\ UNCHANGED <<cur_subgraph, needs_contraction, contract_lock, first_es>>
      /\ true_min_subgraph' = true_min_subgraph + 1
      /\ pc[t] = "bump" /\ contract_lock = NoThread
      /\ pc' = [pc EXCEPT ![t] = "complete"]
  BY DEF CompleteContraction, Goto, Return, locks
<1>2. /\ pc' \in [Thread -> Steps]
      /\ \A u \in Thread : pc'[u] = IF u = t THEN "complete" ELSE pc[u]
      /\ cur_subgraph \in Nat /\ true_min_subgraph \in Nat /\ start_subgraph \in Nat
  BY <1>1, StoreAssumption DEF LevelInv, LevelTypes, Steps
<1>3. LevelTypes'
  BY <1>1, <1>2 DEF LevelInv, LevelTypes
<1>4. \A u \in Thread : pc[u] # "raise"
  BY <1>1, StoreAssumption DEF LevelInv, ContractionInv
<1>5. t \in Bumping /\ Bumping' = {} /\ cur_subgraph = true_min_subgraph + 1
      /\ needs_contraction > num_vertices
  BY <1>1, <1>2, <1>4 DEF Bumping, Open, contract_in_progress, LevelInv, ContractionInv
<1>6. ~contract_in_progress' /\ ~Open'
  BY <1>1, <1>2, <1>4, <1>5 DEF Open, contract_in_progress
<1>7. ContractionInv'
  BY <1>1, <1>2, <1>5, <1>6 DEF LevelInv, ContractionInv
<1> QED
  BY <1>3, <1>7 DEF LevelInv

(* The start of a contraction, under contract_lock.                          *)
LEMMA StartStep ==
  ASSUME LevelInv, NEW t \in Thread, StartContraction(t)
  PROVE  LevelInv'
<1>1. CASE contract_in_progress
  <2>1. Goto(t, "complete") /\ UNCHANGED <<levels, contract_lock, first_es>> /\ pc[t] = "start"
    BY <1>1 DEF StartContraction, ReturnInserted, Return
  <2> QED
    BY <2>1, NeutralGoto DEF Steps
<1>2. CASE ~contract_in_progress
  <2>1. /\ UNCHANGED <<cur_subgraph, true_min_subgraph, needs_contraction, first_es>>
        /\ contract_lock = NoThread /\ contract_lock' = t
        /\ pc[t] = "start" /\ pc' = [pc EXCEPT ![t] = "reset"]
    BY <1>2 DEF StartContraction, Goto, levels
  <2>2. /\ pc' \in [Thread -> Steps]
        /\ \A u \in Thread : pc'[u] = IF u = t THEN "reset" ELSE pc[u]
    BY <2>1 DEF LevelInv, LevelTypes, Steps
  <2>3. LevelTypes'
    BY <2>1, <2>2 DEF LevelInv, LevelTypes
  <2>4. Bumping' = Bumping /\ (Open' <=> Open) /\ ~contract_in_progress'
    BY <1>2, <2>1, <2>2 DEF Bumping, Open, contract_in_progress
  <2>5. ContractionInv'
    BY <2>1, <2>2, <2>4, StoreAssumption DEF LevelInv, ContractionInv
  <2> QED
    BY <2>3, <2>5 DEF LevelInv
<1> QED
  BY <1>1, <1>2

(* The claims are opened before cur_subgraph is raised.                      *)
LEMMA ResetStep ==
  ASSUME LevelInv, NEW t \in Thread, ResetClaims(t)
  PROVE  LevelInv'
<1>1. /\ UNCHANGED <<cur_subgraph, true_min_subgraph, contract_lock, first_es>>
      /\ needs_contraction' = 0
      /\ pc[t] = "reset" /\ pc' = [pc EXCEPT ![t] = "raise"]
  BY DEF ResetClaims, Goto, locks
<1>2. /\ pc' \in [Thread -> Steps]
      /\ \A u \in Thread : pc'[u] = IF u = t THEN "raise" ELSE pc[u]
      /\ num_vertices \in Nat
  BY <1>1, StoreAssumption DEF LevelInv, LevelTypes, Steps
<1>3. LevelTypes'
  BY <1>1, <1>2 DEF LevelInv, LevelTypes
<1>4. contract_lock = t /\ ~contract_in_progress /\ \A u \in Thread : pc[u] # "raise"
  BY <1>1, StoreAssumption DEF LevelInv, ContractionInv
<1>5. Bumping = {} /\ Bumping' = {} /\ Open' /\ ~contract_in_progress'
  BY <1>1, <1>2, <1>4 DEF Bumping, Open, contract_in_progress, LevelInv, ContractionInv
<1>6. ContractionInv'
  BY <1>1, <1>2, <1>4, <1>5 DEF LevelInv, ContractionInv
<1> QED
  BY <1>3, <1>6 DEF LevelInv

(* The raise: by one level, from equality.                                   *)
LEMMA RaiseStep ==
  ASSUME LevelInv, NEW t \in Thread, RaiseSubgraph(t)
  PROVE  LevelInv'
<1>1. /\ UNCHANGED <<true_min_subgraph, needs_contraction, first_es>>
      /\ cur_subgraph' = cur_subgraph + 1 /\ contract_lock' = NoThread
      /\ pc[t] = "raise" /\ pc' = [pc EXCEPT ![t] = "complete"]
  BY DEF RaiseSubgraph, ReturnInserted, Return, Goto
<1>2. /\ pc' \in [Thread -> Steps]
      /\ \A u \in Thread : pc'[u] = IF u = t THEN "complete" ELSE pc[u]
      /\ cur_subgraph \in Nat /\ true_min_subgraph \in Nat /\ start_subgraph \in Nat
      /\ \A u \in Thread : first_es[u] \in Nat
  BY <1>1, StoreAssumption DEF LevelInv, LevelTypes, Steps
<1>3. LevelTypes'
  BY <1>1, <1>2 DEF LevelInv, LevelTypes
<1>4. /\ contract_lock = t /\ true_min_subgraph = cur_subgraph /\ Open
      /\ \A u \in Thread : pc[u] \in {"reset", "raise"} => u = t
  BY <1>1, <1>2, StoreAssumption DEF LevelInv, ContractionInv, contract_in_progress, Open
<1>5. contract_in_progress' /\ Open' /\ Bumping' = Bumping
  BY <1>1, <1>2, <1>4 DEF Bumping, Open, contract_in_progress
<1>6. ContractionInv'
  BY <1>1, <1>2, <1>4, <1>5, StoreAssumption DEF LevelInv, ContractionInv
<1> QED
  BY <1>3, <1>6 DEF LevelInv

-----------------------------------------------------------------------------
(* The steps of a thread inside the store.                                   *)
LEMMA StoreStepInv ==
  ASSUME LevelInv, NEW t \in Thread, StoreStep(t)
  PROVE  LevelInv'
<1> USE DEF Steps
<1>1. CASE LockVertex(t)
  <2>1. /\ Goto(t, "merge") /\ UNCHANGED <<levels, contract_lock>> /\ pc[t] = "lock"
        /\ first_es' = [first_es EXCEPT ![t] = cur_subgraph]
    BY <1>1 DEF LockVertex
  <2>2. cur_subgraph \in Nat /\ cur_subgraph <= cur_subgraph
    BY DEF LevelInv, LevelTypes
  <2> QED
    BY <2>1, <2>2, NeutralStep
<1>2. CASE MergeUpdates(t)
  <2>1. Goto(t, "after") /\ UNCHANGED <<levels, contract_lock, first_es>> /\ pc[t] = "merge"
    BY <1>2 DEF MergeUpdates
  <2> QED
    BY <2>1, NeutralGoto
<1>3. CASE AfterInsert(t)
  <2>1. /\ UNCHANGED <<levels, contract_lock, first_es>> /\ pc[t] = "after"
        /\ \/ Goto(t, "check")
           \/ Goto(t, "claim") /\ true_min_subgraph < first_es[t]
    BY <1>3 DEF AfterInsert, locks
  <2>2. /\ cur_subgraph \in Nat /\ true_min_subgraph \in Nat /\ first_es[t] \in Nat
        /\ first_es[t] <= cur_subgraph /\ start_subgraph \in Nat
    BY StoreAssumption DEF LevelInv, LevelTypes, ContractionInv
  <2>3. true_min_subgraph < first_es[t] => cur_subgraph > start_subgraph
    BY <2>2 DEF LevelInv, ContractionInv
  <2> QED
    BY <2>1, <2>3, NeutralGoto
<1>4. CASE ProbeVertex(t)
  <2>1. /\ UNCHANGED <<levels, contract_lock, first_es>> /\ pc[t] = "probe"
        /\ Goto(t, "advance") \/ Goto(t, "claim")
    BY <1>4 DEF ProbeVertex, locks
  <2>2. cur_subgraph > start_subgraph
    BY <2>1 DEF LevelInv, ContractionInv
  <2> QED
    BY <2>1, <2>2, NeutralGoto
<1>5. CASE AdvanceVertex(t)
  <2>1. Goto(t, "complete") /\ UNCHANGED <<levels, contract_lock, first_es>> /\ pc[t] = "advance"
    BY <1>5 DEF AdvanceVertex, Return, locks
  <2> QED
    BY <2>1, NeutralGoto
<1>6. CASE CheckSize(t)
  <2>1. /\ UNCHANGED <<levels, contract_lock, first_es>> /\ pc[t] = "check"
        /\ Goto(t, "complete") \/ Goto(t, "start")
    BY <1>6 DEF CheckSize, ReturnInserted, Return, locks
  <2> QED
    BY <2>1, NeutralGoto
<1> QED
  BY <1>1, <1>2, <1>3, <1>4, <1>5, <1>6, ClaimStep, CompleteStep, StartStep, ResetStep,
     RaiseStep DEF StoreStep

(* All threads move together, at the start and the end of a flush.            *)
LEMMA AllMove ==
  ASSUME LevelInv, NEW x \in {"flush", "idle"}, NEW y \in {"joined", "idle"},
         \A t \in Thread : pc[t] = y,
         pc' = [t \in Thread |-> x],
         UNCHANGED <<levels, contract_lock, first_es>>
  PROVE  LevelInv'
<1>1. /\ UNCHANGED <<cur_subgraph, true_min_subgraph, needs_contraction, contract_lock, first_es>>
      /\ pc' \in [Thread -> Steps] /\ \A u \in Thread : pc'[u] = x
  BY DEF Steps, levels
<1>2. Bumping' = {} /\ Bumping = {} /\ (Open' <=> Open)
      /\ (contract_in_progress' <=> contract_in_progress)
  BY <1>1 DEF Bumping, Open, contract_in_progress
<1>3. LevelTypes'
  BY <1>1 DEF LevelInv, LevelTypes
<1>4. ContractionInv'
  BY <1>1, <1>2 DEF LevelInv, ContractionInv
<1> QED
  BY <1>3, <1>4 DEF LevelInv

(* A step that touches none of the variables of the accounting.              *)
LEMMA NoMove ==
  ASSUME LevelInv, UNCHANGED <<levels, contract_lock, first_es, pc>>
  PROVE  LevelInv'
BY DEF LevelInv, LevelTypes, ContractionInv, Bumping, Open, contract_in_progress, levels

(* Every step keeps the accounting.                                          *)
LEMMA LevelStep ==
  ASSUME LevelInv, [AlgNext]_allVars
  PROVE  LevelInv'
<1>1. ASSUME NEW t \in BatchWorker, NEW b \in Batches, apply_update_batch(t, b[1], b[2])
      PROVE  LevelInv'
  <2>1. /\ t \in Thread /\ pc[t] = "idle" /\ UNCHANGED <<levels, contract_lock, first_es>>
        /\ Goto(t, "complete") \/ Goto(t, "lock")
    BY <1>1, AlgAssumption DEF apply_update_batch, locks
  <2> QED
    BY <2>1, NeutralGoto DEF Steps
<1>2. ASSUME NEW t \in Thread, HostThread(t)
      PROVE  LevelInv'
  <2>1. CASE complete_update_batch(t)
    BY <2>1, NoMove DEF complete_update_batch, locks
  <2>2. CASE Completed(t)
    <3>1. /\ pc[t] = "complete" /\ UNCHANGED <<levels, contract_lock>>
          /\ Goto(t, "flush") \/ Goto(t, "idle")
          /\ first_es' = [first_es EXCEPT ![t] = 0]
      BY <2>2 DEF Completed, locks
    <3>2. 0 \in Nat /\ 0 <= cur_subgraph
      BY DEF LevelInv, LevelTypes
    <3> QED
      BY <3>1, <3>2, NeutralStep DEF Steps
  <2>3. CASE FlushRound(t) /\ contract_in_progress
    <3>1. /\ pc[t] = "flush" /\ UNCHANGED <<levels, contract_lock>> /\ Goto(t, "claim")
          /\ first_es' = [first_es EXCEPT ![t] = cur_subgraph]
      BY <2>3 DEF FlushRound, locks
    <3>2. cur_subgraph \in Nat /\ cur_subgraph <= cur_subgraph /\ cur_subgraph > start_subgraph
      BY <2>3, StoreAssumption DEF LevelInv, LevelTypes, ContractionInv, contract_in_progress
    <3> QED
      BY <3>1, <3>2, NeutralStep DEF Steps
  <2>4. CASE FlushRound(t) /\ ~contract_in_progress
    <3>1. /\ pc[t] = "flush" /\ UNCHANGED <<levels, contract_lock, first_es>>
          /\ Goto(t, "joined")
      BY <2>4 DEF FlushRound, locks
    <3> QED
      BY <3>1, NeutralGoto DEF Steps
  <2> QED
    BY <1>2, <2>1, <2>2, <2>3, <2>4, StoreStepInv DEF HostThread
<1>3. CASE apply_flush_updates
  BY <1>3, AllMove DEF apply_flush_updates, locks
<1>4. CASE FlushDone
  BY <1>4, AllMove DEF FlushDone, locks
<1>5. CASE UNCHANGED allVars
  BY <1>5, NoMove DEF allVars, storeVars, locks
<1> QED
  BY <1>1, <1>2, <1>3, <1>4, <1>5 DEF AlgNext

(* The constructors establish the accounting.                                *)
LEMMA LevelInit == AlgInit => LevelInv
<1> SUFFICES ASSUME AlgInit PROVE LevelInv
  OBVIOUS
<1>1. /\ cur_subgraph = start_subgraph /\ true_min_subgraph = start_subgraph
      /\ needs_contraction \in 0 .. num_vertices /\ contract_lock = NoThread
      /\ pc = [t \in Thread |-> "idle"] /\ first_es = [t \in Thread |-> 0]
      /\ start_subgraph \in Nat /\ num_vertices \in Nat
  BY StoreAssumption DEF AlgInit, StoreInit
<1>2. LevelTypes
  BY <1>1 DEF LevelTypes, Steps
<1>3. Bumping = {} /\ ~contract_in_progress /\ ~Open
  BY <1>1 DEF Bumping, Open, contract_in_progress
<1>4. ContractionInv
  BY <1>1, <1>3, StoreAssumption DEF ContractionInv
<1> QED
  BY <1>2, <1>4 DEF LevelInv

(* A contraction is by exactly one level and ends exactly once, whatever the  *)
(* interleaving of the threads (check_if_too_big, vertex_advance_subgraph).  *)
THEOREM ContractionAccounting == AlgSpec => []ContractionInv
<1>1. LevelInv => ContractionInv
  BY DEF LevelInv
<1> QED
  BY <1>1, LevelInit, LevelStep, PTL DEF AlgSpec
==============================================================================
