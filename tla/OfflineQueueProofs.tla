------------------------- MODULE OfflineQueueProofs -------------------------
(***************************************************************************)
(* Theorems about the offline queue, for every set of commands, every set  *)
(* of workers and every batch size.  The argument: a row that no reclaim   *)
(* touched is "processing" exactly as long as someone holds it, so no      *)
(* second worker can claim it, nobody else reports on it, and its attempt  *)
(* count is compared with its limit before it is claimed again.            *)
(*                                                                         *)
(* A drain ends after finitely many steps because each dequeue costs a     *)
(* cycle; a replay nothing disturbs does not run out of them because it    *)
(* has at least one for every attempt that is left.                        *)
(***************************************************************************)
EXTENDS OfflineReplay, FiniteSetTheorems, WellFoundedInduction, TLAPS

\* The claim of a row and where its worker stands agree, and a command is
\* never both awaited and still in the batch.
WorkerShape ==
  \A w \in Workers :
    /\ pc[w] = "exec" => running[w] \in Cmds
    /\ pc[w] # "exec" => running[w] = None
    /\ pc[w] \in {"idle", "loop"} => batch[w] = {}
    /\ running[w] \notin batch[w]

\* An id that was never enqueued has no row.
UnbornAbsent == \A c \in Cmds : created[c] = 0 => status[c] = "absent"

\* A held row stays "processing" until a reclaim takes it.
HeldIsProcessing ==
  \A w \in Workers : \A c \in Holds(w) :
    c \notin reclaimed => status[c] = "processing"

\* A row that may be claimed has an attempt left, if no reclaim touched it.
PendingHasAttemptLeft ==
  \A c \in Cmds :
    (c \notin reclaimed /\ status[c] = "pending") => attempts[c] < MaxAttempts[c]

\* A row is only set to completed by a report.
CompletedWasReported == \A c \in Cmds : status[c] = "completed" => c \in reported

\* Cardinalities the counters are computed from.
LEMMA CountOfEnqueued == Cardinality(Enqueued) \in Nat
  BY ConstantsAssumption, FS_Subset, FS_CardinalityType DEF Enqueued

LEMMA MaxCyclesIsNat ==
  LET waiting == RowsIn("pending") \cup RowsIn("processing")
  IN  /\ IsFiniteSet(waiting) /\ Cardinality(waiting) \in Nat
      /\ MaxCycles \in Nat
      /\ CycleFactor * Cardinality(waiting) <= MaxCycles
<1> DEFINE waiting == RowsIn("pending") \cup RowsIn("processing")
<1>1. waiting \subseteq Cmds
  BY DEF RowsIn
<1>2. IsFiniteSet(waiting) /\ Cardinality(waiting) \in Nat
  BY <1>1, ConstantsAssumption, FS_Subset, FS_CardinalityType
<1> DEFINE n == Cardinality(waiting)
<1>3. MaxCycles = IF CycleFactor * n < MinCycles THEN MinCycles ELSE CycleFactor * n
  BY DEF MaxCycles
<1> HIDE DEF waiting
<1>4. n \in Nat /\ CycleFactor \in Nat /\ MinCycles \in Nat
  BY <1>2, ConstantsAssumption
<1> HIDE DEF n
<1>5. CycleFactor * n \in Nat
  BY <1>4
<1>6. MaxCycles \in Nat /\ CycleFactor * n <= MaxCycles
  BY <1>3, <1>4, <1>5
<1> QED
  BY <1>2, <1>6 DEF n, waiting

\* dequeue only claims pending rows.
LEMMA ClaimableArePending == Claimable \subseteq RowsIn("pending")
  BY DEF Claimable, Oldest

\* dequeue only claims rows whose dependencies are completed.
LEMMA ClaimableDepsCompleted == \A c \in Claimable : c \in Cmds /\ DepsSatisfied(c)
  BY DEF Claimable, Oldest, RowsIn

\* Every step keeps the types.
LEMMA TypeOKStep == TypeOK /\ WorkerShape /\ UnbornAbsent /\ [Next]_vars => TypeOK'
<1> SUFFICES ASSUME TypeOK, WorkerShape, UnbornAbsent, [Next]_vars PROVE TypeOK'
  OBVIOUS
<1> USE ConstantsAssumption
<1>1. ASSUME NEW c \in Cmds, Enqueue(c)
      PROVE  TypeOK'
  <2>1. status' \in [Cmds -> RowStatus]
    BY <1>1 DEF Enqueue, Insert, UnbornAbsent, TypeOK, RowStatus
  <2>2. attempts' \in [Cmds -> Nat] /\ created' \in [Cmds -> Nat]
    BY <1>1, CountOfEnqueued DEF Enqueue, Insert, UnbornAbsent, TypeOK, table, workers
  <2>3. stale' \subseteq RowsIn("processing")'
    BY <1>1, <2>1 DEF Enqueue, Insert, UnbornAbsent, TypeOK, RowsIn, table, workers
  <2>4. /\ pc' \in [Workers -> {"idle", "loop", "batch", "exec"}]
        /\ kind' \in [Workers -> {"flush", "replay"}]
        /\ cycles' \in [Workers -> Nat]
        /\ batch' \in [Workers -> SUBSET Cmds]
        /\ running' \in [Workers -> Cmds \cup {None}]
    BY <1>1 DEF Enqueue, Insert, UnbornAbsent, TypeOK, workers
  <2>5. reclaimed' \subseteq Cmds /\ reported' \subseteq Cmds /\ succeeded' \subseteq Cmds
    BY <1>1 DEF Enqueue, Insert, UnbornAbsent, TypeOK, history, workers, WorkerShape
  <2> QED
    BY <2>1, <2>2, <2>3, <2>4, <2>5 DEF TypeOK
<1>2. CASE RetryFailed
  <2>1. status' \in [Cmds -> RowStatus]
    BY <1>2 DEF RetryFailed, Oldest, TypeOK, RowStatus
  <2>2. attempts' \in [Cmds -> Nat] /\ created' \in [Cmds -> Nat]
    BY <1>2 DEF RetryFailed, Oldest, TypeOK, table, workers
  <2>3. stale' \subseteq RowsIn("processing")'
    BY <1>2, <2>1 DEF RetryFailed, Oldest, TypeOK, RowsIn, table, workers
  <2>4. /\ pc' \in [Workers -> {"idle", "loop", "batch", "exec"}]
        /\ kind' \in [Workers -> {"flush", "replay"}]
        /\ cycles' \in [Workers -> Nat]
        /\ batch' \in [Workers -> SUBSET Cmds]
        /\ running' \in [Workers -> Cmds \cup {None}]
    BY <1>2 DEF RetryFailed, Oldest, TypeOK, workers
  <2>5. reclaimed' \subseteq Cmds /\ reported' \subseteq Cmds /\ succeeded' \subseteq Cmds
    BY <1>2 DEF RetryFailed, Oldest, TypeOK, history, workers, WorkerShape
  <2> QED
    BY <2>1, <2>2, <2>3, <2>4, <2>5 DEF TypeOK
<1>3. ASSUME NEW cutoff \in 1 .. Cardinality(Cmds), ClearCompleted(cutoff)
      PROVE  TypeOK'
  BY <1>3 DEF ClearCompleted, TypeOK, table, workers, history, RowStatus, RowsIn
<1>4. ASSUME NEW c \in Cmds, ClaimAges(c)
      PROVE  TypeOK'
  BY <1>4 DEF ClaimAges, TypeOK, table, workers, history, RowStatus, RowsIn
<1>5. CASE ReclaimStaleProcessing
  BY <1>5 DEF ReclaimStaleProcessing, TypeOK, table, workers, history, RowStatus, RowsIn
<1>6. ASSUME NEW w \in Workers, StartReplay(w)
      PROVE  TypeOK'
  BY <1>6, MaxCyclesIsNat DEF StartReplay, TypeOK, table, workers, history, RowStatus, RowsIn
<1>7. ASSUME NEW w \in Workers, StartFlush(w)
      PROVE  TypeOK'
  BY <1>7 DEF StartFlush, TypeOK, table, workers, history, RowStatus, RowsIn
<1>8. ASSUME NEW w \in Workers, Crash(w)
      PROVE  TypeOK'
  BY <1>8 DEF Crash, TypeOK, table, workers, history, RowStatus, RowsIn
<1>9. ASSUME NEW w \in Workers, Dequeue(w)
      PROVE  TypeOK'
  BY <1>9, ClaimableArePending DEF Dequeue, TypeOK, table, workers, history, RowStatus, RowsIn
<1>10. ASSUME NEW w \in Workers, Return(w)
      PROVE  TypeOK'
  BY <1>10 DEF Return, TypeOK, table, workers, history, RowStatus, RowsIn
<1>11. ASSUME NEW w \in Workers, NEW c \in Cmds, MarkProcessing(w, c)
      PROVE  TypeOK'
  BY <1>11 DEF MarkProcessing, TypeOK, table, workers, history, RowStatus, RowsIn
<1>12. ASSUME NEW w \in Workers, ExecutorSucceeds(w)
      PROVE  TypeOK'
  <2>1. status' \in [Cmds -> RowStatus]
    BY <1>12 DEF ExecutorSucceeds, MarkedCompleted, StaleAfter, ReportCompleted, NextInBatch, TypeOK, RowStatus
  <2>2. attempts' \in [Cmds -> Nat] /\ created' \in [Cmds -> Nat]
    BY <1>12 DEF ExecutorSucceeds, MarkedCompleted, StaleAfter, ReportCompleted, NextInBatch, TypeOK, table, workers
  <2>3. stale' \subseteq RowsIn("processing")'
    BY <1>12, <2>1 DEF ExecutorSucceeds, MarkedCompleted, StaleAfter, ReportCompleted, NextInBatch, TypeOK, RowsIn, table, workers
  <2>4. /\ pc' \in [Workers -> {"idle", "loop", "batch", "exec"}]
        /\ kind' \in [Workers -> {"flush", "replay"}]
        /\ cycles' \in [Workers -> Nat]
        /\ batch' \in [Workers -> SUBSET Cmds]
        /\ running' \in [Workers -> Cmds \cup {None}]
    BY <1>12 DEF ExecutorSucceeds, MarkedCompleted, StaleAfter, ReportCompleted, NextInBatch, TypeOK, workers
  <2>5. reclaimed' \subseteq Cmds /\ reported' \subseteq Cmds /\ succeeded' \subseteq Cmds
    BY <1>12 DEF ExecutorSucceeds, MarkedCompleted, StaleAfter, ReportCompleted, NextInBatch, TypeOK, history, workers, WorkerShape
  <2> QED
    BY <2>1, <2>2, <2>3, <2>4, <2>5 DEF TypeOK
<1>13. ASSUME NEW w \in Workers, ExecutorRaises(w)
      PROVE  TypeOK'
  BY <1>13 DEF ExecutorRaises, MarkedFailed, StaleAfter, NextInBatch, TypeOK, table, workers, history, RowStatus, RowsIn
<1>14. ASSUME NEW w \in Workers, EngineSwallowsFailure(w)
      PROVE  TypeOK'
  <2>1. status' \in [Cmds -> RowStatus]
    BY <1>14 DEF EngineSwallowsFailure, MarkedCompleted, StaleAfter, ReportCompleted, NextInBatch, TypeOK, RowStatus
  <2>2. attempts' \in [Cmds -> Nat] /\ created' \in [Cmds -> Nat]
    BY <1>14 DEF EngineSwallowsFailure, MarkedCompleted, StaleAfter, ReportCompleted, NextInBatch, TypeOK, table, workers
  <2>3. stale' \subseteq RowsIn("processing")'
    BY <1>14, <2>1 DEF EngineSwallowsFailure, MarkedCompleted, StaleAfter, ReportCompleted, NextInBatch, TypeOK, RowsIn, table, workers
  <2>4. /\ pc' \in [Workers -> {"idle", "loop", "batch", "exec"}]
        /\ kind' \in [Workers -> {"flush", "replay"}]
        /\ cycles' \in [Workers -> Nat]
        /\ batch' \in [Workers -> SUBSET Cmds]
        /\ running' \in [Workers -> Cmds \cup {None}]
    BY <1>14 DEF EngineSwallowsFailure, MarkedCompleted, StaleAfter, ReportCompleted, NextInBatch, TypeOK, workers
  <2>5. reclaimed' \subseteq Cmds /\ reported' \subseteq Cmds /\ succeeded' \subseteq Cmds
    BY <1>14 DEF EngineSwallowsFailure, MarkedCompleted, StaleAfter, ReportCompleted, NextInBatch, TypeOK, history, workers, WorkerShape
  <2> QED
    BY <2>1, <2>2, <2>3, <2>4, <2>5 DEF TypeOK
<1>15. ASSUME NEW w \in Workers, NEW copy \in Cmds, EngineRequeuesFailure(w, copy)
      PROVE  TypeOK'
  <2>1. status' \in [Cmds -> RowStatus]
    BY <1>15 DEF EngineRequeuesFailure, Insert, MarkedCompleted, StaleAfter, ReportCompleted, NextInBatch, TypeOK, RowStatus
  <2>2. attempts' \in [Cmds -> Nat] /\ created' \in [Cmds -> Nat]
    BY <1>15, CountOfEnqueued DEF EngineRequeuesFailure, Insert, MarkedCompleted, StaleAfter, ReportCompleted, NextInBatch, TypeOK, table, workers
  <2>3. stale' \subseteq RowsIn("processing")'
    BY <1>15, <2>1 DEF EngineRequeuesFailure, Insert, MarkedCompleted, StaleAfter, ReportCompleted, NextInBatch, TypeOK, RowsIn, table, workers
  <2>4. /\ pc' \in [Workers -> {"idle", "loop", "batch", "exec"}]
        /\ kind' \in [Workers -> {"flush", "replay"}]
        /\ cycles' \in [Workers -> Nat]
        /\ batch' \in [Workers -> SUBSET Cmds]
        /\ running' \in [Workers -> Cmds \cup {None}]
    BY <1>15 DEF EngineRequeuesFailure, Insert, MarkedCompleted, StaleAfter, ReportCompleted, NextInBatch, TypeOK, workers
  <2>5. reclaimed' \subseteq Cmds /\ reported' \subseteq Cmds /\ succeeded' \subseteq Cmds
    BY <1>15 DEF EngineRequeuesFailure, Insert, MarkedCompleted, StaleAfter, ReportCompleted, NextInBatch, TypeOK, history, workers, WorkerShape
  <2> QED
    BY <2>1, <2>2, <2>3, <2>4, <2>5 DEF TypeOK
<1>16. CASE UNCHANGED vars
  BY <1>16 DEF vars, TypeOK, table, workers, history, RowStatus, RowsIn
<1> QED
  BY <1>1, <1>2, <1>3, <1>4, <1>5, <1>6, <1>7, <1>8, <1>9, <1>10, <1>11, <1>12, <1>13, <1>14, <1>15, <1>16
  DEF Next, Environment, Reclaiming, WorkerStep

\* Every step keeps what a worker holds and where it stands in agreement.
LEMMA WorkerShapeStep == TypeOK /\ WorkerShape /\ [Next]_vars => WorkerShape'
<1> SUFFICES ASSUME TypeOK, WorkerShape, [Next]_vars PROVE WorkerShape'
  OBVIOUS
<1> USE ConstantsAssumption
<1>1. ASSUME NEW c \in Cmds, Enqueue(c)
      PROVE  WorkerShape'
  BY <1>1 DEF Enqueue, Insert, Enqueued, TypeOK, WorkerShape, table, workers, RowsIn
<1>2. CASE RetryFailed
  BY <1>2 DEF RetryFailed, TypeOK, WorkerShape, table, workers, RowsIn
<1>3. ASSUME NEW cutoff \in 1 .. Cardinality(Cmds), ClearCompleted(cutoff)
      PROVE  WorkerShape'
  BY <1>3 DEF ClearCompleted, TypeOK, WorkerShape, table, workers, RowsIn
<1>4. ASSUME NEW c \in Cmds, ClaimAges(c)
      PROVE  WorkerShape'
  BY <1>4 DEF ClaimAges, TypeOK, WorkerShape, table, workers, RowsIn
<1>5. CASE ReclaimStaleProcessing
  BY <1>5 DEF ReclaimStaleProcessing, TypeOK, WorkerShape, table, workers, RowsIn
<1>6. ASSUME NEW w \in Workers, StartReplay(w)
      PROVE  WorkerShape'
  BY <1>6 DEF StartReplay, TypeOK, WorkerShape, table, workers, RowsIn
<1>7. ASSUME NEW w \in Workers, StartFlush(w)
      PROVE  WorkerShape'
  BY <1>7 DEF StartFlush, TypeOK, WorkerShape, table, workers, RowsIn
<1>8. ASSUME NEW w \in Workers, Crash(w)
      PROVE  WorkerShape'
  BY <1>8 DEF Crash, TypeOK, WorkerShape, table, workers, RowsIn
<1>9. ASSUME NEW w \in Workers, Dequeue(w)
      PROVE  WorkerShape'
  BY <1>9, ClaimableArePending DEF Dequeue, TypeOK, WorkerShape, table, workers, RowsIn
<1>10. ASSUME NEW w \in Workers, Return(w)
      PROVE  WorkerShape'
  BY <1>10 DEF Return, TypeOK, WorkerShape, table, workers, RowsIn
<1>11. ASSUME NEW w \in Workers, NEW c \in Cmds, MarkProcessing(w, c)
      PROVE  WorkerShape'
  BY <1>11 DEF MarkProcessing, TypeOK, WorkerShape, table, workers, RowsIn
<1>12. ASSUME NEW w \in Workers, ExecutorSucceeds(w)
      PROVE  WorkerShape'
  BY <1>12 DEF ExecutorSucceeds, MarkedCompleted, ReportCompleted, NextInBatch, TypeOK, WorkerShape, table, workers, RowsIn
<1>13. ASSUME NEW w \in Workers, ExecutorRaises(w)
      PROVE  WorkerShape'
  BY <1>13 DEF ExecutorRaises, MarkedFailed, NextInBatch, TypeOK, WorkerShape, table, workers, RowsIn
<1>14. ASSUME NEW w \in Workers, EngineSwallowsFailure(w)
      PROVE  WorkerShape'
  BY <1>14 DEF EngineSwallowsFailure, MarkedCompleted, ReportCompleted, NextInBatch, TypeOK, WorkerShape, table, workers, RowsIn
<1>15. ASSUME NEW w \in Workers, NEW copy \in Cmds, EngineRequeuesFailure(w, copy)
      PROVE  WorkerShape'
  BY <1>15 DEF EngineRequeuesFailure, Insert, Enqueued, MarkedCompleted, ReportCompleted, NextInBatch, TypeOK, WorkerShape, table, workers, RowsIn
<1>16. CASE UNCHANGED vars
  BY <1>16 DEF vars, TypeOK, WorkerShape, table, workers, RowsIn
<1> QED
  BY <1>1, <1>2, <1>3, <1>4, <1>5, <1>6, <1>7, <1>8, <1>9, <1>10, <1>11, <1>12, <1>13, <1>14, <1>15, <1>16
  DEF Next, Environment, Reclaiming, WorkerStep

\* Only an enqueue gives an id its row.
LEMMA UnbornAbsentStep == TypeOK /\ WorkerShape /\ UnbornAbsent /\ [Next]_vars => UnbornAbsent'
<1> SUFFICES ASSUME TypeOK, WorkerShape, UnbornAbsent, [Next]_vars PROVE UnbornAbsent'
  OBVIOUS
<1> USE ConstantsAssumption
<1>1. ASSUME NEW c \in Cmds, Enqueue(c)
      PROVE  UnbornAbsent'
  BY <1>1, CountOfEnqueued DEF Enqueue, Insert, TypeOK, UnbornAbsent, table, workers, RowsIn, RowStatus
<1>2. CASE RetryFailed
  BY <1>2 DEF RetryFailed, Oldest, TypeOK, UnbornAbsent, table, workers, RowsIn, RowStatus
<1>3. ASSUME NEW cutoff \in 1 .. Cardinality(Cmds), ClearCompleted(cutoff)
      PROVE  UnbornAbsent'
  BY <1>3 DEF ClearCompleted, TypeOK, UnbornAbsent, table, workers, RowsIn, RowStatus
<1>4. ASSUME NEW c \in Cmds, ClaimAges(c)
      PROVE  UnbornAbsent'
  BY <1>4 DEF ClaimAges, TypeOK, UnbornAbsent, table, workers, RowsIn, RowStatus
<1>5. CASE ReclaimStaleProcessing
  BY <1>5 DEF ReclaimStaleProcessing, TypeOK, UnbornAbsent, table, workers, RowsIn, RowStatus
<1>6. ASSUME NEW w \in Workers, StartReplay(w)
      PROVE  UnbornAbsent'
  BY <1>6 DEF StartReplay, TypeOK, UnbornAbsent, table, workers, RowsIn, RowStatus
<1>7. ASSUME NEW w \in Workers, StartFlush(w)
      PROVE  UnbornAbsent'
  BY <1>7 DEF StartFlush, TypeOK, UnbornAbsent, table, workers, RowsIn, RowStatus
<1>8. ASSUME NEW w \in Workers, Crash(w)
      PROVE  UnbornAbsent'
  BY <1>8 DEF Crash, TypeOK, UnbornAbsent, table, workers, RowsIn, RowStatus
<1>9. ASSUME NEW w \in Workers, Dequeue(w)
      PROVE  UnbornAbsent'
  BY <1>9, ClaimableArePending DEF Dequeue, TypeOK, UnbornAbsent, table, workers, RowsIn, RowStatus
<1>10. ASSUME NEW w \in Workers, Return(w)
      PROVE  UnbornAbsent'
  BY <1>10 DEF Return, TypeOK, UnbornAbsent, table, workers, RowsIn, RowStatus
<1>11. ASSUME NEW w \in Workers, NEW c \in Cmds, MarkProcessing(w, c)
      PROVE  UnbornAbsent'
  BY <1>11 DEF MarkProcessing, TypeOK, UnbornAbsent, table, workers, RowsIn, RowStatus
<1>12. ASSUME NEW w \in Workers, ExecutorSucceeds(w)
      PROVE  UnbornAbsent'
  BY <1>12 DEF ExecutorSucceeds, MarkedCompleted, ReportCompleted, NextInBatch, TypeOK, UnbornAbsent, table, workers, RowsIn, RowStatus
<1>13. ASSUME NEW w \in Workers, ExecutorRaises(w)
      PROVE  UnbornAbsent'
  BY <1>13 DEF ExecutorRaises, MarkedFailed, NextInBatch, TypeOK, UnbornAbsent, table, workers, RowsIn, RowStatus
<1>14. ASSUME NEW w \in Workers, EngineSwallowsFailure(w)
      PROVE  UnbornAbsent'
  BY <1>14 DEF EngineSwallowsFailure, MarkedCompleted, ReportCompleted, NextInBatch, TypeOK, UnbornAbsent, table, workers, RowsIn, RowStatus
<1>15. ASSUME NEW w \in Workers, NEW copy \in Cmds, EngineRequeuesFailure(w, copy)
      PROVE  UnbornAbsent'
  BY <1>15, CountOfEnqueued DEF EngineRequeuesFailure, Insert, MarkedCompleted, TypeOK, UnbornAbsent, table, workers, RowsIn, RowStatus
<1>16. CASE UNCHANGED vars
  BY <1>16 DEF vars, TypeOK, UnbornAbsent, table, workers, RowsIn, RowStatus
<1> QED
  BY <1>1, <1>2, <1>3, <1>4, <1>5, <1>6, <1>7, <1>8, <1>9, <1>10, <1>11, <1>12, <1>13, <1>14, <1>15, <1>16
  DEF Next, Environment, Reclaiming, WorkerStep

\* A held row is only taken out of "processing" by its holder's own report
\* or by a reclaim.
LEMMA HeldIsProcessingStep == TypeOK /\ WorkerShape /\ UnbornAbsent /\ HeldIsProcessing /\ ClaimIsExclusive /\ [Next]_vars => HeldIsProcessing'
<1> SUFFICES ASSUME TypeOK, WorkerShape, UnbornAbsent, HeldIsProcessing, ClaimIsExclusive, [Next]_vars PROVE HeldIsProcessing'
  OBVIOUS
<1> USE ConstantsAssumption
<1>1. ASSUME NEW c \in Cmds, Enqueue(c)
      PROVE  HeldIsProcessing'
  BY <1>1 DEF Enqueue, Insert, UnbornAbsent, TypeOK, WorkerShape, HeldIsProcessing, ClaimIsExclusive, Holds, table, workers, history, RowsIn
<1>2. CASE RetryFailed
  BY <1>2 DEF RetryFailed, Oldest, TypeOK, WorkerShape, HeldIsProcessing, ClaimIsExclusive, Holds, table, workers, history, RowsIn
<1>3. ASSUME NEW cutoff \in 1 .. Cardinality(Cmds), ClearCompleted(cutoff)
      PROVE  HeldIsProcessing'
  BY <1>3 DEF ClearCompleted, TypeOK, WorkerShape, HeldIsProcessing, ClaimIsExclusive, Holds, table, workers, history, RowsIn
<1>4. ASSUME NEW c \in Cmds, ClaimAges(c)
      PROVE  HeldIsProcessing'
  BY <1>4 DEF ClaimAges, TypeOK, WorkerShape, HeldIsProcessing, ClaimIsExclusive, Holds, table, workers, history, RowsIn
<1>5. CASE ReclaimStaleProcessing
  BY <1>5 DEF ReclaimStaleProcessing, TypeOK, WorkerShape, HeldIsProcessing, ClaimIsExclusive, Holds, table, workers, history, RowsIn
<1>6. ASSUME NEW w \in Workers, StartReplay(w)
      PROVE  HeldIsProcessing'
  BY <1>6 DEF StartReplay, TypeOK, WorkerShape, HeldIsProcessing, ClaimIsExclusive, Holds, table, workers, history, RowsIn
<1>7. ASSUME NEW w \in Workers, StartFlush(w)
      PROVE  HeldIsProcessing'
  BY <1>7 DEF StartFlush, TypeOK, WorkerShape, HeldIsProcessing, ClaimIsExclusive, Holds, table, workers, history, RowsIn
<1>8. ASSUME NEW w \in Workers, Crash(w)
      PROVE  HeldIsProcessing'
  BY <1>8 DEF Crash, TypeOK, WorkerShape, HeldIsProcessing, ClaimIsExclusive, Holds, table, workers, history, RowsIn
<1>9. ASSUME NEW w \in Workers, Dequeue(w)
      PROVE  HeldIsProcessing'
  BY <1>9, ClaimableArePending DEF Dequeue, TypeOK, WorkerShape, HeldIsProcessing, ClaimIsExclusive, Holds, table, workers, history, RowsIn
<1>10. ASSUME NEW w \in Workers, Return(w)
      PROVE  HeldIsProcessing'
  BY <1>10 DEF Return, TypeOK, WorkerShape, HeldIsProcessing, ClaimIsExclusive, Holds, table, workers, history, RowsIn
<1>11. ASSUME NEW w \in Workers, NEW c \in Cmds, MarkProcessing(w, c)
      PROVE  HeldIsProcessing'
  BY <1>11 DEF MarkProcessing, TypeOK, WorkerShape, HeldIsProcessing, ClaimIsExclusive, Holds, table, workers, history, RowsIn
<1>12. ASSUME NEW w \in Workers, ExecutorSucceeds(w)
      PROVE  HeldIsProcessing'
  BY <1>12 DEF ExecutorSucceeds, MarkedCompleted, ReportCompleted, NextInBatch, TypeOK, WorkerShape, HeldIsProcessing, ClaimIsExclusive, Holds, table, workers, history, RowsIn
<1>13. ASSUME NEW w \in Workers, ExecutorRaises(w)
      PROVE  HeldIsProcessing'
  BY <1>13 DEF ExecutorRaises, MarkedFailed, NextInBatch, TypeOK, WorkerShape, HeldIsProcessing, ClaimIsExclusive, Holds, table, workers, history, RowsIn
<1>14. ASSUME NEW w \in Workers, EngineSwallowsFailure(w)
      PROVE  HeldIsProcessing'
  BY <1>14 DEF EngineSwallowsFailure, MarkedCompleted, ReportCompleted, NextInBatch, TypeOK, WorkerShape, HeldIsProcessing, ClaimIsExclusive, Holds, table, workers, history, RowsIn
<1>15. ASSUME NEW w \in Workers, NEW copy \in Cmds, EngineRequeuesFailure(w, copy)
      PROVE  HeldIsProcessing'
  BY <1>15 DEF EngineRequeuesFailure, Insert, MarkedCompleted, ReportCompleted, NextInBatch, UnbornAbsent, TypeOK, WorkerShape, HeldIsProcessing, ClaimIsExclusive, Holds, table, workers, history, RowsIn
<1>16. CASE UNCHANGED vars
  BY <1>16 DEF vars, TypeOK, WorkerShape, HeldIsProcessing, ClaimIsExclusive, Holds, table, workers, history, RowsIn
<1> QED
  BY <1>1, <1>2, <1>3, <1>4, <1>5, <1>6, <1>7, <1>8, <1>9, <1>10, <1>11, <1>12, <1>13, <1>14, <1>15, <1>16
  DEF Next, Environment, Reclaiming, WorkerStep

\* A claim takes pending rows, which nobody holds unless a reclaim took them.
LEMMA ClaimIsExclusiveStep == TypeOK /\ WorkerShape /\ UnbornAbsent /\ HeldIsProcessing /\ ClaimIsExclusive /\ [Next]_vars => ClaimIsExclusive'
<1> SUFFICES ASSUME TypeOK, WorkerShape, UnbornAbsent, HeldIsProcessing, ClaimIsExclusive, [Next]_vars PROVE ClaimIsExclusive'
  OBVIOUS
<1> USE ConstantsAssumption
<1>1. ASSUME NEW c \in Cmds, Enqueue(c)
      PROVE  ClaimIsExclusive'
  BY <1>1 DEF Enqueue, Insert, Enqueued, TypeOK, WorkerShape, HeldIsProcessing, ClaimIsExclusive, Holds, table, workers, history, RowsIn
<1>2. CASE RetryFailed
  BY <1>2 DEF RetryFailed, TypeOK, WorkerShape, HeldIsProcessing, ClaimIsExclusive, Holds, table, workers, history, RowsIn
<1>3. ASSUME NEW cutoff \in 1 .. Cardinality(Cmds), ClearCompleted(cutoff)
      PROVE  ClaimIsExclusive'
  BY <1>3 DEF ClearCompleted, TypeOK, WorkerShape, HeldIsProcessing, ClaimIsExclusive, Holds, table, workers, history, RowsIn
<1>4. ASSUME NEW c \in Cmds, ClaimAges(c)
      PROVE  ClaimIsExclusive'
  BY <1>4 DEF ClaimAges, TypeOK, WorkerShape, HeldIsProcessing, ClaimIsExclusive, Holds, table, workers, history, RowsIn
<1>5. CASE ReclaimStaleProcessing
  BY <1>5 DEF ReclaimStaleProcessing, TypeOK, WorkerShape, HeldIsProcessing, ClaimIsExclusive, Holds, table, workers, history, RowsIn
<1>6. ASSUME NEW w \in Workers, StartReplay(w)
      PROVE  ClaimIsExclusive'
  BY <1>6 DEF StartReplay, TypeOK, WorkerShape, HeldIsProcessing, ClaimIsExclusive, Holds, table, workers, history, RowsIn
<1>7. ASSUME NEW w \in Workers, StartFlush(w)
      PROVE  ClaimIsExclusive'
  BY <1>7 DEF StartFlush, TypeOK, WorkerShape, HeldIsProcessing, ClaimIsExclusive, Holds, table, workers, history, RowsIn
<1>8. ASSUME NEW w \in Workers, Crash(w)
      PROVE  ClaimIsExclusive'
  BY <1>8 DEF Crash, TypeOK, WorkerShape, HeldIsProcessing, ClaimIsExclusive, Holds, table, workers, history, RowsIn
<1>9. ASSUME NEW w \in Workers, Dequeue(w)
      PROVE  ClaimIsExclusive'
  BY <1>9, ClaimableArePending DEF Dequeue, TypeOK, WorkerShape, HeldIsProcessing, ClaimIsExclusive, Holds, table, workers, history, RowsIn
<1>10. ASSUME NEW w \in Workers, Return(w)
      PROVE  ClaimIsExclusive'
  BY <1>10 DEF Return, TypeOK, WorkerShape, HeldIsProcessing, ClaimIsExclusive, Holds, table, workers, history, RowsIn
<1>11. ASSUME NEW w \in Workers, NEW c \in Cmds, MarkProcessing(w, c)
      PROVE  ClaimIsExclusive'
  BY <1>11 DEF MarkProcessing, TypeOK, WorkerShape, HeldIsProcessing, ClaimIsExclusive, Holds, table, workers, history, RowsIn
<1>12. ASSUME NEW w \in Workers, ExecutorSucceeds(w)
      PROVE  ClaimIsExclusive'
  BY <1>12 DEF ExecutorSucceeds, MarkedCompleted, ReportCompleted, NextInBatch, TypeOK, WorkerShape, HeldIsProcessing, ClaimIsExclusive, Holds, table, workers, history, RowsIn
<1>13. ASSUME NEW w \in Workers, ExecutorRaises(w)
      PROVE  ClaimIsExclusive'
  BY <1>13 DEF ExecutorRaises, MarkedFailed, NextInBatch, TypeOK, WorkerShape, HeldIsProcessing, ClaimIsExclusive, Holds, table, workers, history, RowsIn
<1>14. ASSUME NEW w \in Workers, EngineSwallowsFailure(w)
      PROVE  ClaimIsExclusive'
  BY <1>14 DEF EngineSwallowsFailure, MarkedCompleted, ReportCompleted, NextInBatch, TypeOK, WorkerShape, HeldIsProcessing, ClaimIsExclusive, Holds, table, workers, history, RowsIn
<1>15. ASSUME NEW w \in Workers, NEW copy \in Cmds, EngineRequeuesFailure(w, copy)
      PROVE  ClaimIsExclusive'
  BY <1>15 DEF EngineRequeuesFailure, Insert, Enqueued, MarkedCompleted, ReportCompleted, NextInBatch, TypeOK, WorkerShape, HeldIsProcessing, ClaimIsExclusive, Holds, table, workers, history, RowsIn
<1>16. CASE UNCHANGED vars
  BY <1>16 DEF vars, TypeOK, WorkerShape, HeldIsProcessing, ClaimIsExclusive, Holds, table, workers, history, RowsIn
<1> QED
  BY <1>1, <1>2, <1>3, <1>4, <1>5, <1>6, <1>7, <1>8, <1>9, <1>10, <1>11, <1>12, <1>13, <1>14, <1>15, <1>16
  DEF Next, Environment, Reclaiming, WorkerStep

\* An attempt is only counted when a pending row is claimed, and a row only
\* returns to pending with an attempt left or by a reclaim.
LEMMA AttemptsStep == TypeOK /\ WorkerShape /\ UnbornAbsent /\ HeldIsProcessing /\ PendingHasAttemptLeft /\ AttemptsWithinLimit /\ [Next]_vars => PendingHasAttemptLeft' /\ AttemptsWithinLimit'
<1> SUFFICES ASSUME TypeOK, WorkerShape, UnbornAbsent, HeldIsProcessing, PendingHasAttemptLeft, AttemptsWithinLimit, [Next]_vars PROVE PendingHasAttemptLeft' /\ AttemptsWithinLimit'
  OBVIOUS
<1>0. None \notin Cmds /\ MaxAttempts \in [Cmds -> Nat \ {0}]
  BY ConstantsAssumption
<1> USE <1>0
<1>1. ASSUME NEW c \in Cmds, Enqueue(c)
      PROVE  PendingHasAttemptLeft' /\ AttemptsWithinLimit'
  BY <1>1 DEF Enqueue, Insert, Enqueued, TypeOK, WorkerShape, HeldIsProcessing, Holds, PendingHasAttemptLeft, AttemptsWithinLimit, table, workers, history, RowsIn, RowStatus
<1>2. CASE RetryFailed
  BY <1>2 DEF RetryFailed, Oldest, TypeOK, WorkerShape, HeldIsProcessing, Holds, PendingHasAttemptLeft, AttemptsWithinLimit, table, workers, history, RowsIn, RowStatus
<1>3. ASSUME NEW cutoff \in 1 .. Cardinality(Cmds), ClearCompleted(cutoff)
      PROVE  PendingHasAttemptLeft' /\ AttemptsWithinLimit'
  BY <1>3 DEF ClearCompleted, TypeOK, WorkerShape, HeldIsProcessing, Holds, PendingHasAttemptLeft, AttemptsWithinLimit, table, workers, history, RowsIn, RowStatus
<1>4. ASSUME NEW c \in Cmds, ClaimAges(c)
      PROVE  PendingHasAttemptLeft' /\ AttemptsWithinLimit'
  BY <1>4 DEF ClaimAges, TypeOK, WorkerShape, HeldIsProcessing, Holds, PendingHasAttemptLeft, AttemptsWithinLimit, table, workers, history, RowsIn, RowStatus
<1>5. CASE ReclaimStaleProcessing
  BY <1>5 DEF ReclaimStaleProcessing, TypeOK, WorkerShape, HeldIsProcessing, Holds, PendingHasAttemptLeft, AttemptsWithinLimit, table, workers, history, RowsIn, RowStatus
<1>6. ASSUME NEW w \in Workers, StartReplay(w)
      PROVE  PendingHasAttemptLeft' /\ AttemptsWithinLimit'
  BY <1>6 DEF StartReplay, TypeOK, WorkerShape, HeldIsProcessing, Holds, PendingHasAttemptLeft, AttemptsWithinLimit, table, workers, history, RowsIn, RowStatus
<1>7. ASSUME NEW w \in Workers, StartFlush(w)
      PROVE  PendingHasAttemptLeft' /\ AttemptsWithinLimit'
  BY <1>7 DEF StartFlush, TypeOK, WorkerShape, HeldIsProcessing, Holds, PendingHasAttemptLeft, AttemptsWithinLimit, table, workers, history, RowsIn, RowStatus
<1>8. ASSUME NEW w \in Workers, Crash(w)
      PROVE  PendingHasAttemptLeft' /\ AttemptsWithinLimit'
  BY <1>8 DEF Crash, TypeOK, WorkerShape, HeldIsProcessing, Holds, PendingHasAttemptLeft, AttemptsWithinLimit, table, workers, history, RowsIn, RowStatus
<1>9. ASSUME NEW w \in Workers, Dequeue(w)
      PROVE  PendingHasAttemptLeft' /\ AttemptsWithinLimit'
  BY <1>9, ClaimableArePending DEF Dequeue, TypeOK, WorkerShape, HeldIsProcessing, Holds, PendingHasAttemptLeft, AttemptsWithinLimit, table, workers, history, RowsIn, RowStatus
<1>10. ASSUME NEW w \in Workers, Return(w)
      PROVE  PendingHasAttemptLeft' /\ AttemptsWithinLimit'
  BY <1>10 DEF Return, TypeOK, WorkerShape, HeldIsProcessing, Holds, PendingHasAttemptLeft, AttemptsWithinLimit, table, workers, history, RowsIn, RowStatus
<1>11. ASSUME NEW w \in Workers, NEW c \in Cmds, MarkProcessing(w, c)
      PROVE  PendingHasAttemptLeft' /\ AttemptsWithinLimit'
  <2>1. status[c] = "pending" => c \in reclaimed
    BY <1>11 DEF MarkProcessing, HeldIsProcessing, Holds
  <2>2. CASE status[c] = "pending"
    BY <1>11, <2>1, <2>2 DEF MarkProcessing, TypeOK, PendingHasAttemptLeft, AttemptsWithinLimit, history
  <2>3. CASE status[c] # "pending"
    BY <1>11, <2>3 DEF MarkProcessing, PendingHasAttemptLeft, AttemptsWithinLimit, history
  <2> QED
    BY <2>2, <2>3
<1>12. ASSUME NEW w \in Workers, ExecutorSucceeds(w)
      PROVE  PendingHasAttemptLeft' /\ AttemptsWithinLimit'
  BY <1>12 DEF ExecutorSucceeds, MarkedCompleted, ReportCompleted, NextInBatch, TypeOK, WorkerShape, HeldIsProcessing, Holds, PendingHasAttemptLeft, AttemptsWithinLimit, table, workers, history, RowsIn, RowStatus
<1>13. ASSUME NEW w \in Workers, ExecutorRaises(w)
      PROVE  PendingHasAttemptLeft' /\ AttemptsWithinLimit'
  BY <1>13 DEF ExecutorRaises, MarkedFailed, NextInBatch, TypeOK, WorkerShape, HeldIsProcessing, Holds, PendingHasAttemptLeft, AttemptsWithinLimit, table, workers, history, RowsIn, RowStatus
<1>14. ASSUME NEW w \in Workers, EngineSwallowsFailure(w)
      PROVE  PendingHasAttemptLeft' /\ AttemptsWithinLimit'
  BY <1>14 DEF EngineSwallowsFailure, MarkedCompleted, ReportCompleted, NextInBatch, TypeOK, WorkerShape, HeldIsProcessing, Holds, PendingHasAttemptLeft, AttemptsWithinLimit, table, workers, history, RowsIn, RowStatus
<1>15. ASSUME NEW w \in Workers, NEW copy \in Cmds, EngineRequeuesFailure(w, copy)
      PROVE  PendingHasAttemptLeft' /\ AttemptsWithinLimit'
  BY <1>15 DEF EngineRequeuesFailure, Insert, Enqueued, MarkedCompleted, ReportCompleted, NextInBatch, TypeOK, WorkerShape, HeldIsProcessing, Holds, PendingHasAttemptLeft, AttemptsWithinLimit, table, workers, history, RowsIn, RowStatus
<1>16. CASE UNCHANGED vars
  BY <1>16 DEF vars, TypeOK, WorkerShape, HeldIsProcessing, Holds, PendingHasAttemptLeft, AttemptsWithinLimit, table, workers, history, RowsIn, RowStatus
<1> QED
  BY <1>1, <1>2, <1>3, <1>4, <1>5, <1>6, <1>7, <1>8, <1>9, <1>10, <1>11, <1>12, <1>13, <1>14, <1>15, <1>16
  DEF Next, Environment, Reclaiming, WorkerStep

\* A claim finds the dependencies completed, hence reported, and a report is
\* never taken back.
LEMMA DependenciesStep == TypeOK /\ WorkerShape /\ CompletedWasReported /\ DependenciesReportedFirst /\ [Next]_vars => CompletedWasReported' /\ DependenciesReportedFirst'
<1> SUFFICES ASSUME TypeOK, WorkerShape, CompletedWasReported, DependenciesReportedFirst, [Next]_vars PROVE CompletedWasReported' /\ DependenciesReportedFirst'
  OBVIOUS
<1> USE ConstantsAssumption
<1>1. ASSUME NEW c \in Cmds, Enqueue(c)
      PROVE  CompletedWasReported' /\ DependenciesReportedFirst'
  BY <1>1 DEF Enqueue, Insert, Enqueued, TypeOK, WorkerShape, CompletedWasReported, DependenciesReportedFirst, Holds, table, workers, history, RowsIn, RowStatus
<1>2. CASE RetryFailed
  BY <1>2 DEF RetryFailed, Oldest, TypeOK, WorkerShape, CompletedWasReported, DependenciesReportedFirst, Holds, table, workers, history, RowsIn, RowStatus
<1>3. ASSUME NEW cutoff \in 1 .. Cardinality(Cmds), ClearCompleted(cutoff)
      PROVE  CompletedWasReported' /\ DependenciesReportedFirst'
  BY <1>3 DEF ClearCompleted, TypeOK, WorkerShape, CompletedWasReported, DependenciesReportedFirst, Holds, table, workers, history, RowsIn, RowStatus
<1>4. ASSUME NEW c \in Cmds, ClaimAges(c)
      PROVE  CompletedWasReported' /\ DependenciesReportedFirst'
  BY <1>4 DEF ClaimAges, TypeOK, WorkerShape, CompletedWasReported, DependenciesReportedFirst, Holds, table, workers, history, RowsIn, RowStatus
<1>5. CASE ReclaimStaleProcessing
  BY <1>5 DEF ReclaimStaleProcessing, TypeOK, WorkerShape, CompletedWasReported, DependenciesReportedFirst, Holds, table, workers, history, RowsIn, RowStatus
<1>6. ASSUME NEW w \in Workers, StartReplay(w)
      PROVE  CompletedWasReported' /\ DependenciesReportedFirst'
  BY <1>6 DEF StartReplay, TypeOK, WorkerShape, CompletedWasReported, DependenciesReportedFirst, Holds, table, workers, history, RowsIn, RowStatus
<1>7. ASSUME NEW w \in Workers, StartFlush(w)
      PROVE  CompletedWasReported' /\ DependenciesReportedFirst'
  BY <1>7 DEF StartFlush, TypeOK, WorkerShape, CompletedWasReported, DependenciesReportedFirst, Holds, table, workers, history, RowsIn, RowStatus
<1>8. ASSUME NEW w \in Workers, Crash(w)
      PROVE  CompletedWasReported' /\ DependenciesReportedFirst'
  BY <1>8 DEF Crash, TypeOK, WorkerShape, CompletedWasReported, DependenciesReportedFirst, Holds, table, workers, history, RowsIn, RowStatus
<1>9. ASSUME NEW w \in Workers, Dequeue(w)
      PROVE  CompletedWasReported' /\ DependenciesReportedFirst'
  BY <1>9, ClaimableDepsCompleted DEF Dequeue, DepsSatisfied, TypeOK, WorkerShape, CompletedWasReported, DependenciesReportedFirst, Holds, table, workers, history, RowsIn, RowStatus
<1>10. ASSUME NEW w \in Workers, Return(w)
      PROVE  CompletedWasReported' /\ DependenciesReportedFirst'
  BY <1>10 DEF Return, TypeOK, WorkerShape, CompletedWasReported, DependenciesReportedFirst, Holds, table, workers, history, RowsIn, RowStatus
<1>11. ASSUME NEW w \in Workers, NEW c \in Cmds, MarkProcessing(w, c)
      PROVE  CompletedWasReported' /\ DependenciesReportedFirst'
  BY <1>11 DEF MarkProcessing, TypeOK, WorkerShape, CompletedWasReported, DependenciesReportedFirst, Holds, table, workers, history, RowsIn, RowStatus
<1>12. ASSUME NEW w \in Workers, ExecutorSucceeds(w)
      PROVE  CompletedWasReported' /\ DependenciesReportedFirst'
  BY <1>12 DEF ExecutorSucceeds, MarkedCompleted, ReportCompleted, NextInBatch, TypeOK, WorkerShape, CompletedWasReported, DependenciesReportedFirst, Holds, table, workers, history, RowsIn, RowStatus
<1>13. ASSUME NEW w \in Workers, ExecutorRaises(w)
      PROVE  CompletedWasReported' /\ DependenciesReportedFirst'
  BY <1>13 DEF ExecutorRaises, MarkedFailed, NextInBatch, TypeOK, WorkerShape, CompletedWasReported, DependenciesReportedFirst, Holds, table, workers, history, RowsIn, RowStatus
<1>14. ASSUME NEW w \in Workers, EngineSwallowsFailure(w)
      PROVE  CompletedWasReported' /\ DependenciesReportedFirst'
  BY <1>14 DEF EngineSwallowsFailure, MarkedCompleted, ReportCompleted, NextInBatch, TypeOK, WorkerShape, CompletedWasReported, DependenciesReportedFirst, Holds, table, workers, history, RowsIn, RowStatus
<1>15. ASSUME NEW w \in Workers, NEW copy \in Cmds, EngineRequeuesFailure(w, copy)
      PROVE  CompletedWasReported' /\ DependenciesReportedFirst'
  BY <1>15 DEF EngineRequeuesFailure, Insert, Enqueued, MarkedCompleted, ReportCompleted, NextInBatch, TypeOK, WorkerShape, CompletedWasReported, DependenciesReportedFirst, Holds, table, workers, history, RowsIn, RowStatus
<1>16. CASE UNCHANGED vars
  BY <1>16 DEF vars, TypeOK, WorkerShape, CompletedWasReported, DependenciesReportedFirst, Holds, table, workers, history, RowsIn, RowStatus
<1> QED
  BY <1>1, <1>2, <1>3, <1>4, <1>5, <1>6, <1>7, <1>8, <1>9, <1>10, <1>11, <1>12, <1>13, <1>14, <1>15, <1>16
  DEF Next, Environment, Reclaiming, WorkerStep

IInv ==
  /\ TypeOK
  /\ WorkerShape
  /\ UnbornAbsent
  /\ HeldIsProcessing
  /\ ClaimIsExclusive
  /\ PendingHasAttemptLeft
  /\ AttemptsWithinLimit
  /\ CompletedWasReported
  /\ DependenciesReportedFirst

LEMMA InitIInv == Init => IInv
  BY ConstantsAssumption
  DEF Init, IInv, TypeOK, WorkerShape, UnbornAbsent, HeldIsProcessing, ClaimIsExclusive,
      PendingHasAttemptLeft, AttemptsWithinLimit, CompletedWasReported,
      DependenciesReportedFirst, Holds, RowsIn, RowStatus

\* The inductive invariant of the queue and its workers.
THEOREM Invariance == Spec => []IInv
<1>1. Init => IInv
  BY InitIInv
<1>2. IInv /\ [Next]_vars => IInv'
  BY TypeOKStep, WorkerShapeStep, UnbornAbsentStep, HeldIsProcessingStep,
     ClaimIsExclusiveStep, AttemptsStep, DependenciesStep DEF IInv
<1> QED
  BY <1>1, <1>2, PTL DEF Spec

\* Type correctness: the columns and the workers' variables keep their types.
THEOREM TypeCorrect == Spec => []TypeOK
<1>1. IInv => TypeOK
  BY DEF IInv
<1> QED
  BY <1>1, Invariance, PTL

\* dequeue's promise: no two workers hold one command, unless a reclaim took
\* it from one of them.
THEOREM ExclusiveClaims == Spec => []ClaimIsExclusive
<1>1. IInv => ClaimIsExclusive
  BY DEF IInv
<1> QED
  BY <1>1, Invariance, PTL

\* max_attempts: a row no reclaim touched is never attempted more often than
\* its limit, and no row is given up before its limit.
THEOREM AttemptsBounded == Spec => []AttemptsWithinLimit
<1>1. IInv => AttemptsWithinLimit
  BY DEF IInv
<1> QED
  BY <1>1, Invariance, PTL

\* A command is only taken up after every dependency was reported completed,
\* whatever retries, reclaims and clears did to the dependency's row since.
THEOREM DependenciesFirst == Spec => []DependenciesReportedFirst
<1>1. IInv => DependenciesReportedFirst
  BY DEF IInv
<1> QED
  BY <1>1, Invariance, PTL

\* What a step may do to a completed row.
OnlyReclaimedReopen ==
  \A c \in Cmds : (status[c] = "completed" /\ status'[c] # "completed")
                     => (status'[c] = "absent" \/ c \in reclaimed)

\* A report that reopens a completed row comes from a claim that was reclaimed.
LEMMA CompletedStaysStep == IInv /\ [Next]_vars => OnlyReclaimedReopen
<1> SUFFICES ASSUME IInv, [Next]_vars PROVE OnlyReclaimedReopen
  OBVIOUS
<1> USE ConstantsAssumption
<1>1. ASSUME NEW c \in Cmds, Enqueue(c)
      PROVE  OnlyReclaimedReopen
  BY <1>1 DEF Enqueue, Insert, UnbornAbsent, OnlyReclaimedReopen, IInv, TypeOK, WorkerShape, HeldIsProcessing, Holds, table, workers, history, RowsIn
<1>2. CASE RetryFailed
  BY <1>2 DEF RetryFailed, Oldest, OnlyReclaimedReopen, IInv, TypeOK, WorkerShape, HeldIsProcessing, Holds, table, workers, history, RowsIn
<1>3. ASSUME NEW cutoff \in 1 .. Cardinality(Cmds), ClearCompleted(cutoff)
      PROVE  OnlyReclaimedReopen
  BY <1>3 DEF ClearCompleted, IInv, TypeOK, WorkerShape, HeldIsProcessing, Holds, table, workers, history, RowsIn, OnlyReclaimedReopen
<1>4. ASSUME NEW c \in Cmds, ClaimAges(c)
      PROVE  OnlyReclaimedReopen
  BY <1>4 DEF ClaimAges, IInv, TypeOK, WorkerShape, HeldIsProcessing, Holds, table, workers, history, RowsIn, OnlyReclaimedReopen
<1>5. CASE ReclaimStaleProcessing
  BY <1>5 DEF ReclaimStaleProcessing, IInv, TypeOK, WorkerShape, HeldIsProcessing, Holds, table, workers, history, RowsIn, OnlyReclaimedReopen
<1>6. ASSUME NEW w \in Workers, StartReplay(w)
      PROVE  OnlyReclaimedReopen
  BY <1>6 DEF StartReplay, IInv, TypeOK, WorkerShape, HeldIsProcessing, Holds, table, workers, history, RowsIn, OnlyReclaimedReopen
<1>7. ASSUME NEW w \in Workers, StartFlush(w)
      PROVE  OnlyReclaimedReopen
  BY <1>7 DEF StartFlush, IInv, TypeOK, WorkerShape, HeldIsProcessing, Holds, table, workers, history, RowsIn, OnlyReclaimedReopen
<1>8. ASSUME NEW w \in Workers, Crash(w)
      PROVE  OnlyReclaimedReopen
  BY <1>8 DEF Crash, IInv, TypeOK, WorkerShape, HeldIsProcessing, Holds, table, workers, history, RowsIn, OnlyReclaimedReopen
<1>9. ASSUME NEW w \in Workers, Dequeue(w)
      PROVE  OnlyReclaimedReopen
  BY <1>9, ClaimableArePending DEF Dequeue, OnlyReclaimedReopen, IInv, TypeOK, WorkerShape, HeldIsProcessing, Holds, table, workers, history, RowsIn
<1>10. ASSUME NEW w \in Workers, Return(w)
      PROVE  OnlyReclaimedReopen
  BY <1>10 DEF Return, IInv, TypeOK, WorkerShape, HeldIsProcessing, Holds, table, workers, history, RowsIn, OnlyReclaimedReopen
<1>11. ASSUME NEW w \in Workers, NEW c \in Cmds, MarkProcessing(w, c)
      PROVE  OnlyReclaimedReopen
  BY <1>11 DEF MarkProcessing, IInv, TypeOK, WorkerShape, HeldIsProcessing, Holds, table, workers, history, RowsIn, OnlyReclaimedReopen
<1>12. ASSUME NEW w \in Workers, ExecutorSucceeds(w)
      PROVE  OnlyReclaimedReopen
  BY <1>12 DEF ExecutorSucceeds, MarkedCompleted, ReportCompleted, NextInBatch, IInv, TypeOK, WorkerShape, HeldIsProcessing, Holds, table, workers, history, RowsIn, OnlyReclaimedReopen
<1>13. ASSUME NEW w \in Workers, ExecutorRaises(w)
      PROVE  OnlyReclaimedReopen
  BY <1>13 DEF ExecutorRaises, MarkedFailed, NextInBatch, IInv, TypeOK, WorkerShape, HeldIsProcessing, Holds, table, workers, history, RowsIn, OnlyReclaimedReopen
<1>14. ASSUME NEW w \in Workers, EngineSwallowsFailure(w)
      PROVE  OnlyReclaimedReopen
  BY <1>14 DEF EngineSwallowsFailure, MarkedCompleted, ReportCompleted, NextInBatch, IInv, TypeOK, WorkerShape, HeldIsProcessing, Holds, table, workers, history, RowsIn, OnlyReclaimedReopen
<1>15. ASSUME NEW w \in Workers, NEW copy \in Cmds, EngineRequeuesFailure(w, copy)
      PROVE  OnlyReclaimedReopen
  BY <1>15 DEF EngineRequeuesFailure, Insert, MarkedCompleted, ReportCompleted, NextInBatch, UnbornAbsent,
     OnlyReclaimedReopen, IInv, TypeOK, WorkerShape, HeldIsProcessing, Holds, table, workers, history, RowsIn
<1>16. CASE UNCHANGED vars
  BY <1>16 DEF vars, IInv, TypeOK, WorkerShape, HeldIsProcessing, Holds, table, workers, history, RowsIn, OnlyReclaimedReopen
<1> QED
  BY <1>1, <1>2, <1>3, <1>4, <1>5, <1>6, <1>7, <1>8, <1>9, <1>10, <1>11, <1>12, <1>13, <1>14, <1>15, <1>16
  DEF Next, Environment, Reclaiming, WorkerStep

\* A completed row is only opened again by the late report of a worker whose
\* claim had been reclaimed.
THEOREM CompletedStays == Spec => CompletedStaysCompleted
<1>1. IInv /\ [Next]_vars => [OnlyReclaimedReopen]_vars
  BY CompletedStaysStep
<1> QED
  BY <1>1, Invariance, PTL DEF CompletedStaysCompleted, OnlyReclaimedReopen, Spec

-----------------------------------------------------------------------------
(***************************************************************************)
(* Progress: what of DrainEnds is safety                                   *)
(***************************************************************************)
\* What is left of the batch a drain works on: each claimed command is taken up
\* and reported on, and the drain returns.
BatchStepsLeft(w) ==
  IF pc[w] = "idle" THEN 0
  ELSE 1 + 2 * Cardinality(batch[w]) + (IF pc[w] = "exec" THEN 1 ELSE 0)

\* A drain that runs comes closer to its end with each step its worker takes,
\* whatever is enqueued, retried or reclaimed meanwhile: a dequeue costs a
\* cycle, and the other steps take something from the batch.
DrainsAdvance ==
  \A w \in Workers :
    \/ pc[w] = "idle"
    \/ UNCHANGED <<pc[w], cycles[w], batch[w], running[w]>>
    \/ cycles'[w] < cycles[w]
    \/ cycles'[w] = cycles[w] /\ BatchStepsLeft(w)' < BatchStepsLeft(w)

\* A drain has no more cycles than the rows of the table allow, and it does not
\* turn to a batch that is empty.
DrainsAreBounded ==
  \A w \in Workers :
    /\ cycles[w] <= MinCycles \/ cycles[w] <= CycleFactor * Cardinality(Cmds)
    /\ pc[w] = "batch" => batch[w] # {}

\* Where a step takes its worker; it leaves the other workers where they are.
LEMMA WorkerMoves ==
  ASSUME IInv, NEW w \in Workers, WorkerStep(w) \/ Crash(w)
  PROVE  /\ \A u \in Workers \ {w} : UNCHANGED <<pc[u], cycles[u], batch[u], running[u]>>
         /\ \/ /\ pc[w] = "loop" /\ cycles[w] > 0 /\ cycles'[w] = cycles[w] - 1
               /\ pc'[w] = "batch" /\ batch'[w] # {}
            \/ pc[w] # "idle" /\ pc'[w] = "idle" /\ cycles'[w] = cycles[w]
            \/ /\ pc[w] = "batch" /\ pc'[w] = "exec" /\ cycles'[w] = cycles[w]
               /\ \E c \in batch[w] : batch'[w] = batch[w] \ {c}
            \/ /\ pc[w] = "exec" /\ pc'[w] \in {"loop", "batch"} /\ cycles'[w] = cycles[w]
               /\ batch'[w] = batch[w] /\ (pc'[w] = "batch" => batch[w] # {})
<1>1. /\ pc \in [Workers -> {"idle", "loop", "batch", "exec"}] /\ cycles \in [Workers -> Nat]
      /\ batch \in [Workers -> SUBSET Cmds] /\ running \in [Workers -> Cmds \cup {None}]
  BY DEF IInv, TypeOK
<1>2. CASE Dequeue(w)
  BY <1>1, <1>2 DEF Dequeue
<1>3. CASE Return(w) \/ Crash(w)
  BY <1>1, <1>3 DEF Return, Crash, table
<1>4. CASE \E c \in Cmds : MarkProcessing(w, c)
  BY <1>1, <1>4 DEF MarkProcessing
<1>5. CASE \/ ExecutorSucceeds(w) \/ ExecutorRaises(w) \/ EngineSwallowsFailure(w)
           \/ \E copy \in Cmds : EngineRequeuesFailure(w, copy)
  <2>1. pc[w] = "exec" /\ NextInBatch(w)
    BY <1>5 DEF ExecutorSucceeds, ExecutorRaises, EngineSwallowsFailure, EngineRequeuesFailure,
                ReportCompleted
  <2>2. QED
    BY <1>1, <2>1 DEF NextInBatch
<1>6. QED
  BY <1>2, <1>3, <1>4, <1>5 DEF WorkerStep

LEMMA BatchIsFinite ==
  ASSUME IInv, NEW w \in Workers
  PROVE  IsFiniteSet(batch[w]) /\ Cardinality(batch[w]) \in Nat
  BY ConstantsAssumption, FS_Subset, FS_CardinalityType DEF IInv, TypeOK

LEMMA WorkerAdvances ==
  ASSUME IInv, NEW w \in Workers, WorkerStep(w) \/ Crash(w)
  PROVE  cycles'[w] < cycles[w] \/ (cycles'[w] = cycles[w] /\ BatchStepsLeft(w)' < BatchStepsLeft(w))
<1>1. PICK n \in Nat : n = Cardinality(batch[w])
  BY BatchIsFinite
<1>2. cycles[w] \in Nat
  BY DEF IInv, TypeOK
<1>3. CASE cycles[w] > 0 /\ cycles'[w] = cycles[w] - 1
  BY <1>2, <1>3
<1>4. CASE pc[w] # "idle" /\ pc'[w] = "idle" /\ cycles'[w] = cycles[w]
  BY <1>1, <1>4 DEF BatchStepsLeft
<1>5. CASE /\ pc[w] = "batch" /\ pc'[w] = "exec" /\ cycles'[w] = cycles[w]
           /\ \E c \in batch[w] : batch'[w] = batch[w] \ {c}
  <2>1. PICK c \in batch[w] : batch'[w] = batch[w] \ {c}
    BY <1>5
  <2>2. Cardinality(batch'[w]) = n - 1
    BY <1>1, <2>1, BatchIsFinite, FS_RemoveElement
  <2>3. BatchStepsLeft(w)' = 1 + 2 * (n - 1) + 1 /\ BatchStepsLeft(w) = 1 + 2 * n
    BY <1>1, <1>5, <2>2 DEF BatchStepsLeft
  <2>4. QED
    BY <1>5, <2>3
<1>6. CASE /\ pc[w] = "exec" /\ pc'[w] \in {"loop", "batch"} /\ cycles'[w] = cycles[w]
           /\ batch'[w] = batch[w]
  BY <1>1, <1>6 DEF BatchStepsLeft
<1>7. QED
  BY <1>3, <1>4, <1>5, <1>6, WorkerMoves

\* What is not a step of a worker leaves all of them alone, but for one that starts.
LEMMA OthersStandStill ==
  ASSUME Environment \/ Reclaiming \/ UNCHANGED vars
  PROVE  UNCHANGED workers
  BY DEF Environment, Reclaiming, Enqueue, RetryFailed, ClearCompleted, ClaimAges,
         ReclaimStaleProcessing, vars

\* A drain has finitely many steps, whatever is done to the table while it runs.
THEOREM DrainsComeCloser == Spec => [][DrainsAdvance]_vars
<1>1. ASSUME IInv, [Next]_vars PROVE DrainsAdvance
  <2>1. CASE Environment \/ Reclaiming \/ UNCHANGED vars
    BY <2>1, OthersStandStill DEF workers, DrainsAdvance
  <2>2. ASSUME NEW w \in Workers, StartReplay(w) \/ StartFlush(w) PROVE DrainsAdvance
    BY <1>1, <2>2 DEF StartReplay, StartFlush, DrainsAdvance, IInv, TypeOK
  <2>3. ASSUME NEW w \in Workers, WorkerStep(w) \/ Crash(w) PROVE DrainsAdvance
    BY <1>1, <2>3, WorkerMoves, WorkerAdvances DEF DrainsAdvance
  <2>4. QED
    BY <1>1, <2>1, <2>2, <2>3 DEF Next
<1>2. IInv /\ [Next]_vars => [DrainsAdvance]_vars
  BY <1>1
<1>3. QED
  BY <1>2, Invariance, PTL DEF Spec

LEMMA FactorGrows ==
  ASSUME NEW m \in Nat, NEW n \in Nat, m <= n, NEW f \in Nat
  PROVE  f * m <= f * n
<1>1. PICK d \in Nat : n = m + d
  <2>1. n - m \in Nat /\ n = m + (n - m)
    OBVIOUS
  <2>2. QED
    BY <2>1
<1>2. f * n = f * m + f * d /\ f * m \in Nat /\ f * d \in Nat
  BY <1>1
<1>3. QED
  BY <1>2

LEMMA FewCycles == MaxCycles <= MinCycles \/ MaxCycles <= CycleFactor * Cardinality(Cmds)
<1> DEFINE waiting == RowsIn("pending") \cup RowsIn("processing")
<1>1. waiting \subseteq Cmds /\ IsFiniteSet(Cmds)
  BY ConstantsAssumption DEF RowsIn
<1>2. Cardinality(waiting) \in Nat /\ Cardinality(Cmds) \in Nat /\ Cardinality(waiting) <= Cardinality(Cmds)
  BY <1>1, FS_Subset, FS_CardinalityType
<1>3. MaxCycles = MinCycles \/ MaxCycles = CycleFactor * Cardinality(waiting)
  BY DEF MaxCycles
<1> HIDE DEF waiting
<1>4. CycleFactor * Cardinality(waiting) <= CycleFactor * Cardinality(Cmds)
  BY <1>2, ConstantsAssumption, FactorGrows
<1>5. MinCycles \in Nat
  BY ConstantsAssumption
<1>6. QED
  BY <1>3, <1>4, <1>5

\* The number of times a drain goes to the table is bounded from its start.
THEOREM DrainsBounded == Spec => []DrainsAreBounded
<1>1. ASSUME Init PROVE DrainsAreBounded
  BY <1>1, ConstantsAssumption DEF Init, DrainsAreBounded
<1>2. ASSUME IInv, DrainsAreBounded, [Next]_vars PROVE DrainsAreBounded'
  <2>1. CASE Environment \/ Reclaiming \/ UNCHANGED vars
    BY <1>2, <2>1, OthersStandStill DEF workers, DrainsAreBounded
  <2>2. ASSUME NEW w \in Workers, StartReplay(w) \/ StartFlush(w) PROVE DrainsAreBounded'
    <3>1. \A u \in Workers \ {w} : UNCHANGED <<pc[u], cycles[u], batch[u]>>
      BY <1>2, <2>2 DEF StartReplay, StartFlush, IInv, TypeOK
    <3>2. pc'[w] = "loop" /\ cycles'[w] \in {MaxCycles, 1}
      BY <1>2, <2>2 DEF StartReplay, StartFlush, IInv, TypeOK
    <3>3. 1 <= MinCycles
      BY ConstantsAssumption
    <3>4. cycles'[w] <= MinCycles \/ cycles'[w] <= CycleFactor * Cardinality(Cmds)
      BY <3>2, <3>3, FewCycles
    <3>5. QED
      BY <1>2, <3>1, <3>2, <3>4 DEF DrainsAreBounded
  <2>3. ASSUME NEW w \in Workers, WorkerStep(w) \/ Crash(w) PROVE DrainsAreBounded'
    <3>1. pc'[w] = "batch" => batch'[w] # {}
      BY <1>2, <2>3, WorkerMoves
    <3>2. cycles'[w] \in {cycles[w], cycles[w] - 1}
      BY <1>2, <2>3, WorkerMoves
    <3>3. cycles[w] \in Nat /\ MinCycles \in Nat /\ CycleFactor * Cardinality(Cmds) \in Nat
      BY <1>2, ConstantsAssumption, FS_CardinalityType DEF IInv, TypeOK
    <3>4. cycles'[w] <= MinCycles \/ cycles'[w] <= CycleFactor * Cardinality(Cmds)
      BY <1>2, <3>2, <3>3 DEF DrainsAreBounded
    <3>5. \A u \in Workers \ {w} : UNCHANGED <<pc[u], cycles[u], batch[u]>>
      BY <1>2, <2>3, WorkerMoves
    <3>6. QED
      BY <1>2, <3>1, <3>4, <3>5 DEF DrainsAreBounded
  <2>4. QED
    BY <1>2, <2>1, <2>2, <2>3 DEF Next
<1>3. QED
  BY <1>1, <1>2, Invariance, PTL DEF Spec

-----------------------------------------------------------------------------
(***************************************************************************)
(* Without a flush                                                         *)
(***************************************************************************)
\* Only replays are under way, and what was reported completed was executed.
ReplayInv ==
  /\ \A w \in Workers : pc[w] # "idle" => kind[w] = "replay"
  /\ reported \subseteq succeeded

\* A command is only taken up after every dependency was executed.
DependenciesExecuted == \A w \in Workers : \A c \in Holds(w) : Deps[c] \subseteq succeeded

\* A replay reports what it executed and nothing else.
LEMMA ReplayStep ==
  ASSUME "flush" \notin Kinds
  PROVE  IInv /\ ReplayInv /\ [Next]_vars => ReplayInv'
<1> SUFFICES ASSUME IInv, ReplayInv, [Next]_vars PROVE ReplayInv'
  OBVIOUS
<1> USE DEF ReplayInv, IInv, TypeOK, WorkerShape,
            table, workers, history
<1>1. CASE Environment
  <2>1. ASSUME NEW c \in Cmds, Enqueue(c) PROVE ReplayInv'
    BY <2>1 DEF Enqueue, Insert
  <2>2. CASE RetryFailed
    BY <2>2 DEF RetryFailed
  <2>3. ASSUME NEW cutoff \in 1 .. Cardinality(Cmds), ClearCompleted(cutoff) PROVE ReplayInv'
    BY <2>3 DEF ClearCompleted
  <2> QED
    BY <1>1, <2>1, <2>2, <2>3 DEF Environment
<1>2. CASE Reclaiming
  <2>1. ASSUME NEW c \in Cmds, ClaimAges(c) PROVE ReplayInv'
    BY <2>1 DEF ClaimAges
  <2>2. CASE ReclaimStaleProcessing
    BY <2>2 DEF ReclaimStaleProcessing
  <2> QED
    BY <1>2, <2>1, <2>2 DEF Reclaiming
<1>3. ASSUME NEW w \in Workers, StartReplay(w) \/ StartFlush(w) \/ Crash(w)
      PROVE  ReplayInv'
  <2>1. CASE StartReplay(w)
    BY <2>1 DEF StartReplay
  <2>2. CASE StartFlush(w)
    BY <2>2 DEF StartFlush
  <2>3. CASE Crash(w)
    BY <2>3 DEF Crash
  <2> QED
    BY <1>3, <2>1, <2>2, <2>3
<1>4. ASSUME NEW w \in Workers, WorkerStep(w) PROVE ReplayInv'
  <2>1. CASE Dequeue(w)
    BY <2>1 DEF Dequeue
  <2>2. CASE Return(w)
    BY <2>2 DEF Return
  <2>3. ASSUME NEW c \in Cmds, MarkProcessing(w, c) PROVE ReplayInv'
    BY <2>3 DEF MarkProcessing
  <2>4. CASE ExecutorSucceeds(w)
    BY <2>4 DEF ExecutorSucceeds, MarkedCompleted, ReportCompleted, NextInBatch
  <2>5. CASE ExecutorRaises(w)
    BY <2>5 DEF ExecutorRaises, MarkedFailed, NextInBatch
  <2>6. ~EngineSwallowsFailure(w) /\ \A copy \in Cmds : ~EngineRequeuesFailure(w, copy)
    BY DEF EngineSwallowsFailure, EngineRequeuesFailure
  <2> QED
    BY <1>4, <2>1, <2>2, <2>3, <2>4, <2>5, <2>6 DEF WorkerStep
<1>5. CASE UNCHANGED vars
  BY <1>5 DEF vars
<1> QED
  BY <1>1, <1>2, <1>3, <1>4, <1>5 DEF Next

\* Where no session flushes, a completed row was executed without an error, and
\* so was each dependency of a command before it was taken up: reclaims, crashes,
\* retries and late reports of several replays included.  It is the flush alone
\* that makes "completed" say something else (OfflineQueue_flush.cfg).
THEOREM ReplaysExecute ==
  ASSUME "flush" \notin Kinds
  PROVE  Spec => [](CompletedMeansExecuted /\ DependenciesExecuted)
<1>1. Init => ReplayInv
  BY DEF Init, ReplayInv
<1>2. IInv /\ ReplayInv /\ [Next]_vars => ReplayInv'
  BY ReplayStep
<1>3. IInv /\ ReplayInv => CompletedMeansExecuted /\ DependenciesExecuted
  BY DEF IInv, ReplayInv, CompletedWasReported, CompletedMeansExecuted, RowsIn,
         DependenciesReportedFirst, DependenciesExecuted
<1> QED
  BY <1>1, <1>2, <1>3, Invariance, PTL DEF Spec

-----------------------------------------------------------------------------
(***************************************************************************)
(* An undisturbed drain.                                                   *)
(***************************************************************************)
\* The claims that are still possible, one pair for each attempt that is left
\* of a row.
AttemptsLeft ==
  {p \in Cmds \X (1 .. CycleFactor) :
     /\ status[p[1]] \in {"pending", "processing"}
     /\ attempts[p[1]] < p[2] /\ p[2] <= MaxAttempts[p[1]]}

\* One worker runs at a time.
OneDrains == \A w, v \in Workers : pc[w] # "idle" /\ pc[v] # "idle" => w = v

\* Each claimed row has someone who will report on it.
ProcessingIsHeld == \A c \in RowsIn("processing") : \E w \in Workers : c \in Holds(w)

\* A replay has a cycle left for every attempt that is left.
CyclesSuffice ==
  \A w \in Workers :
    pc[w] # "idle" /\ kind[w] = "replay" => Cardinality(AttemptsLeft) <= cycles[w]

SoloInv ==
  /\ IInv
  /\ reclaimed = {}
  /\ stale = {}
  /\ OneDrains
  /\ ProcessingIsHeld
  /\ CyclesSuffice

\* The attempts left are finitely many, and fewer when some were taken away.
LEMMA AttemptsLeftFinite ==
  /\ IsFiniteSet(AttemptsLeft) /\ Cardinality(AttemptsLeft) \in Nat
  /\ Cardinality(AttemptsLeft)
       <= CycleFactor * Cardinality(RowsIn("pending") \cup RowsIn("processing"))
<1> DEFINE waiting == RowsIn("pending") \cup RowsIn("processing")
           factors == 1 .. CycleFactor
<1>1. IsFiniteSet(waiting) /\ Cardinality(waiting) \in Nat
  BY MaxCyclesIsNat
<1>2. AttemptsLeft \subseteq waiting \X factors
  BY DEF AttemptsLeft, RowsIn
<1>3. CycleFactor \in Nat \ {0}
  BY ConstantsAssumption
<1>4. IsFiniteSet(factors) /\ Cardinality(factors) = CycleFactor
  BY <1>3, FS_Interval
<1> HIDE DEF waiting, factors
<1>5. /\ IsFiniteSet(waiting \X factors)
      /\ Cardinality(waiting \X factors) = Cardinality(waiting) * Cardinality(factors)
  BY <1>1, <1>4, FS_Product
<1>6. /\ IsFiniteSet(AttemptsLeft)
      /\ Cardinality(AttemptsLeft) <= Cardinality(waiting) * Cardinality(factors)
  BY <1>2, <1>5, FS_Subset
<1>7. Cardinality(waiting) * CycleFactor = CycleFactor * Cardinality(waiting)
  BY <1>1, <1>3
<1>8. Cardinality(AttemptsLeft) \in Nat
  BY <1>6, FS_CardinalityType
<1> QED
  BY <1>4, <1>6, <1>7, <1>8 DEF waiting

\* A worker that is not at a dequeue takes no attempt and adds none.
LEMMA FewerLeft ==
  ASSUME AttemptsLeft' \subseteq AttemptsLeft
  PROVE  /\ Cardinality(AttemptsLeft') <= Cardinality(AttemptsLeft)
         /\ Cardinality(AttemptsLeft') \in Nat
<1> DEFINE new == AttemptsLeft'
<1>1. new \subseteq AttemptsLeft /\ IsFiniteSet(AttemptsLeft)
  BY AttemptsLeftFinite
<1> HIDE DEF new
<1>2. /\ IsFiniteSet(new) /\ Cardinality(new) <= Cardinality(AttemptsLeft)
      /\ Cardinality(new) \in Nat
  BY <1>1, FS_Subset, FS_CardinalityType
<1> QED
  BY <1>2 DEF new

LEMMA OneLessLeft ==
  ASSUME AttemptsLeft' \subseteq AttemptsLeft, NEW p \in AttemptsLeft, p \notin AttemptsLeft'
  PROVE  /\ Cardinality(AttemptsLeft') < Cardinality(AttemptsLeft)
         /\ Cardinality(AttemptsLeft') \in Nat
<1> DEFINE new == AttemptsLeft'
<1>1. new \subseteq AttemptsLeft \ {p} /\ IsFiniteSet(AttemptsLeft)
  BY AttemptsLeftFinite
<1> HIDE DEF new
<1>2. /\ IsFiniteSet(AttemptsLeft \ {p})
      /\ Cardinality(AttemptsLeft \ {p}) = Cardinality(AttemptsLeft) - 1
  BY <1>1, FS_RemoveElement
<1>3. /\ IsFiniteSet(new) /\ Cardinality(new) <= Cardinality(AttemptsLeft \ {p})
      /\ Cardinality(new) \in Nat
  BY <1>1, <1>2, FS_Subset, FS_CardinalityType
<1>4. Cardinality(AttemptsLeft) \in Nat
  BY AttemptsLeftFinite
<1>5. Cardinality(new) < Cardinality(AttemptsLeft)
  BY <1>2, <1>3, <1>4
<1> QED
  BY <1>3, <1>5 DEF new

\* A row that may be claimed still has an attempt.
LEMMA PendingLeft ==
  ASSUME SoloInv, NEW c \in RowsIn("pending")
  PROVE  <<c, attempts[c] + 1>> \in AttemptsLeft
<1>1. /\ c \in Cmds /\ status[c] = "pending" /\ attempts[c] \in Nat
      /\ attempts[c] < MaxAttempts[c]
  BY DEF SoloInv, IInv, TypeOK, PendingHasAttemptLeft, RowsIn
<1>2. MaxAttempts[c] \in Nat /\ MaxAttempts[c] <= CycleFactor /\ CycleFactor \in Nat
  BY <1>1, ConstantsAssumption, ReplayAssumption
<1>3. attempts[c] + 1 \in 1 .. CycleFactor /\ attempts[c] + 1 <= MaxAttempts[c]
  BY <1>1, <1>2
<1> QED
  BY <1>1, <1>3 DEF AttemptsLeft

LEMMA SoloIsNext == SoloNext => Next
  BY DEF SoloNext, Next

\* A dequeue takes an attempt of the row it claims.
LEMMA DequeueSuffices ==
  ASSUME SoloInv, NEW w \in Workers, Dequeue(w)
  PROVE  CyclesSuffice'
<1> USE DEF SoloInv, IInv
<1>1. PICK c \in Claimable : TRUE
  BY DEF Dequeue
<1>2. c \in RowsIn("pending") /\ c \in Cmds
  BY ClaimableArePending, ClaimableDepsCompleted
<1>3. Claimable \subseteq RowsIn("pending")
  BY ClaimableArePending
<1>4. \A d \in Cmds : attempts'[d] = IF d \in Claimable THEN attempts[d] + 1 ELSE attempts[d]
  BY DEF Dequeue
<1>5. \A d \in Cmds : status'[d] \in {"pending", "processing"}
                        => status[d] \in {"pending", "processing"}
  BY <1>3 DEF Dequeue, RowsIn
<1>6. \A d \in Cmds : attempts[d] \in Nat
  BY DEF TypeOK
<1>7. AttemptsLeft' \subseteq AttemptsLeft
  BY <1>4, <1>5, <1>6 DEF AttemptsLeft
<1>8. <<c, attempts[c] + 1>> \notin AttemptsLeft'
  BY <1>2, <1>4, <1>6 DEF AttemptsLeft
<1>9. /\ Cardinality(AttemptsLeft') < Cardinality(AttemptsLeft)
      /\ Cardinality(AttemptsLeft') \in Nat /\ Cardinality(AttemptsLeft) \in Nat
  BY <1>2, <1>7, <1>8, PendingLeft, OneLessLeft, AttemptsLeftFinite
<1> HIDE DEF SoloInv, IInv
<1> SUFFICES ASSUME NEW v \in Workers, pc'[v] # "idle", kind'[v] = "replay"
             PROVE  Cardinality(AttemptsLeft') <= cycles'[v]
  BY DEF CyclesSuffice
<1>10. v = w /\ kind[w] = "replay" /\ pc[w] = "loop"
  BY DEF Dequeue, SoloInv, OneDrains, IInv, TypeOK
<1>11. Cardinality(AttemptsLeft) <= cycles[w] /\ cycles[w] \in Nat /\ cycles'[w] = cycles[w] - 1
  BY <1>10 DEF Dequeue, SoloInv, CyclesSuffice, IInv, TypeOK
<1> QED
  BY <1>9, <1>10, <1>11

\* No other step of a replay takes an attempt or a cycle.
LEMMA RestSuffices ==
  ASSUME SoloInv, UNCHANGED <<kind, cycles>>, AttemptsLeft' \subseteq AttemptsLeft,
         \A v \in Workers : pc'[v] # "idle" => pc[v] # "idle"
  PROVE  CyclesSuffice'
<1> SUFFICES ASSUME NEW v \in Workers, pc'[v] # "idle", kind'[v] = "replay"
             PROVE  Cardinality(AttemptsLeft') <= cycles'[v]
  BY DEF CyclesSuffice
<1>1. Cardinality(AttemptsLeft) <= cycles[v] /\ cycles[v] \in Nat
  BY DEF SoloInv, CyclesSuffice, IInv, TypeOK
<1>2. cycles'[v] = cycles[v]
  OBVIOUS
<1>3. /\ Cardinality(AttemptsLeft') <= Cardinality(AttemptsLeft)
      /\ Cardinality(AttemptsLeft') \in Nat /\ Cardinality(AttemptsLeft) \in Nat
  BY FewerLeft, AttemptsLeftFinite
<1> QED
  BY <1>1, <1>2, <1>3

\* A flush that reports leaves no replay to count for.
LEMMA FlushSuffices ==
  ASSUME SoloInv, NEW w \in Workers, pc[w] # "idle", kind[w] = "flush", kind' = kind,
         \A v \in Workers : pc'[v] # "idle" => pc[v] # "idle"
  PROVE  CyclesSuffice'
  BY DEF SoloInv, OneDrains, CyclesSuffice

\* Every step of an undisturbed drain leaves cycles enough.
LEMMA CyclesStep == SoloInv /\ [SoloNext]_vars => CyclesSuffice'
<1> SUFFICES ASSUME SoloInv, [SoloNext]_vars PROVE CyclesSuffice'
  OBVIOUS
<1>1. CASE Undisturbed /\ Environment
  BY <1>1 DEF Undisturbed, Environment, CyclesSuffice, Enqueue, RetryFailed, ClearCompleted, workers
<1>2. ASSUME NEW w \in Workers, Undisturbed, StartReplay(w)
      PROVE  CyclesSuffice'
  <2> SUFFICES ASSUME NEW v \in Workers, pc'[v] # "idle"
               PROVE  Cardinality(AttemptsLeft') <= cycles'[v]
    BY DEF CyclesSuffice
  <2>1. v = w
    BY <1>2 DEF StartReplay, Undisturbed, SoloInv, IInv, TypeOK
  <2>2. cycles'[v] = MaxCycles
    BY <1>2, <2>1 DEF StartReplay, SoloInv, IInv, TypeOK
  <2>3. AttemptsLeft' = AttemptsLeft
    BY <1>2 DEF StartReplay, table, AttemptsLeft
  <2> DEFINE n == CycleFactor * Cardinality(RowsIn("pending") \cup RowsIn("processing"))
  <2>4. Cardinality(AttemptsLeft) <= n /\ Cardinality(AttemptsLeft) \in Nat
    BY AttemptsLeftFinite
  <2>5. n <= MaxCycles /\ MaxCycles \in Nat
    BY MaxCyclesIsNat
  <2>6. n \in Nat
    BY MaxCyclesIsNat, ConstantsAssumption
  <2> HIDE DEF n
  <2> QED
    BY <2>2, <2>3, <2>4, <2>5, <2>6
<1>3. ASSUME NEW w \in Workers, Undisturbed, StartFlush(w)
      PROVE  CyclesSuffice'
  BY <1>3 DEF StartFlush, Undisturbed, CyclesSuffice, SoloInv, IInv, TypeOK
<1>4. ASSUME NEW w \in Workers, Dequeue(w)
      PROVE  CyclesSuffice'
  BY <1>4, DequeueSuffices
<1>5. ASSUME NEW w \in Workers, Return(w)
      PROVE  CyclesSuffice'
  <2>1. AttemptsLeft' \subseteq AttemptsLeft
    BY <1>5 DEF Return, table, AttemptsLeft
  <2>2. \A v \in Workers : pc'[v] # "idle" => pc[v] # "idle"
    BY <1>5 DEF Return, SoloInv, IInv, TypeOK
  <2> QED
    BY <1>5, <2>1, <2>2, RestSuffices DEF Return
<1>6. ASSUME NEW w \in Workers, NEW c \in Cmds, MarkProcessing(w, c)
      PROVE  CyclesSuffice'
  <2>1. status[c] = "processing"
    BY <1>6 DEF MarkProcessing, SoloInv, IInv, HeldIsProcessing, Holds
  <2>2. AttemptsLeft' \subseteq AttemptsLeft
    BY <1>6, <2>1 DEF MarkProcessing, AttemptsLeft
  <2>3. \A v \in Workers : pc'[v] # "idle" => pc[v] # "idle"
    BY <1>6 DEF MarkProcessing, SoloInv, IInv, TypeOK
  <2> QED
    BY <1>6, <2>2, <2>3, RestSuffices DEF MarkProcessing
<1>7. ASSUME NEW w \in Workers, ExecutorSucceeds(w)
      PROVE  CyclesSuffice'
  <2>1. \A c \in Cmds : status'[c] \in {"pending", "processing"} => status'[c] = status[c]
    BY <1>7 DEF ExecutorSucceeds, MarkedCompleted, SoloInv, IInv, TypeOK
  <2>2. AttemptsLeft' \subseteq AttemptsLeft
    BY <1>7, <2>1 DEF ExecutorSucceeds, AttemptsLeft
  <2>3. \A v \in Workers : pc'[v] # "idle" => pc[v] # "idle"
    BY <1>7 DEF ExecutorSucceeds, ReportCompleted, NextInBatch, SoloInv, IInv, TypeOK
  <2> QED
    BY <1>7, <2>2, <2>3, RestSuffices DEF ExecutorSucceeds, ReportCompleted, NextInBatch
<1>8. ASSUME NEW w \in Workers, ExecutorRaises(w)
      PROVE  CyclesSuffice'
  <2>1. \A c \in Cmds : status'[c] \in {"pending", "processing"}
                          => status[c] \in {"pending", "processing"}
    <3>1. running[w] \in Cmds /\ status[running[w]] = "processing"
      BY <1>8, ConstantsAssumption DEF ExecutorRaises, SoloInv, IInv, HeldIsProcessing, Holds, WorkerShape
    <3>2. \A c \in Cmds : c # running[w] => status'[c] = status[c]
      BY <1>8 DEF ExecutorRaises, MarkedFailed, SoloInv, IInv, TypeOK
    <3> QED
      BY <3>1, <3>2
  <2>2. AttemptsLeft' \subseteq AttemptsLeft
    BY <1>8, <2>1 DEF ExecutorRaises, AttemptsLeft
  <2>3. \A v \in Workers : pc'[v] # "idle" => pc[v] # "idle"
    BY <1>8 DEF ExecutorRaises, NextInBatch, SoloInv, IInv, TypeOK
  <2> QED
    BY <1>8, <2>2, <2>3, RestSuffices DEF ExecutorRaises, NextInBatch
<1>9. ASSUME NEW w \in Workers,
             EngineSwallowsFailure(w) \/ \E copy \in Cmds : EngineRequeuesFailure(w, copy)
      PROVE  CyclesSuffice'
  <2>1. \A v \in Workers : pc'[v] # "idle" => pc[v] # "idle"
    BY <1>9 DEF EngineSwallowsFailure, EngineRequeuesFailure, ReportCompleted, NextInBatch,
                SoloInv, IInv, TypeOK
  <2> QED
    BY <1>9, <2>1, FlushSuffices
    DEF EngineSwallowsFailure, EngineRequeuesFailure, ReportCompleted, NextInBatch
<1>10. CASE UNCHANGED vars
  BY <1>10 DEF vars, table, workers, CyclesSuffice, SoloInv, AttemptsLeft
<1> QED
  BY <1>1, <1>2, <1>3, <1>4, <1>5, <1>6, <1>7, <1>8, <1>9, <1>10 DEF SoloNext, WorkerStep
\* No claim is left over when nobody drains.
LEMMA IdleHoldNothing ==
  ASSUME SoloInv, Undisturbed
  PROVE  RowsIn("processing") = {}
<1>1. \A w \in Workers : Holds(w) = {}
  BY DEF Undisturbed, Holds, SoloInv, IInv, WorkerShape
<1> QED
  BY <1>1 DEF SoloInv, ProcessingIsHeld

\* A report settles the row its worker awaited, and touches no other claim.
LEMMA ReportKeepsHeld ==
  ASSUME SoloInv, NEW w \in Workers, pc[w] = "exec", NextInBatch(w),
         status'[running[w]] # "processing",
         \A c \in Cmds : status'[c] = "processing" => status[c] = "processing"
  PROVE  ProcessingIsHeld'
<1> SUFFICES ASSUME NEW c \in Cmds, status'[c] = "processing"
             PROVE  \E v \in Workers : c \in Holds(v)'
  BY DEF ProcessingIsHeld, RowsIn
<1>1. PICK v \in Workers : c \in Holds(v)
  BY DEF SoloInv, ProcessingIsHeld, RowsIn
<1>2. c # running[w] /\ c # None
  BY ConstantsAssumption
<1>3. CASE v = w
  BY <1>1, <1>2, <1>3 DEF Holds, NextInBatch
<1>4. CASE v # w
  BY <1>1, <1>4 DEF Holds, NextInBatch, SoloInv, IInv, TypeOK
<1> QED
  BY <1>3, <1>4

\* Nobody joins a drain, nothing is reclaimed, and each claim stays with its worker.
LEMMA HeldStep ==
  SoloInv /\ [SoloNext]_vars
    => reclaimed' = {} /\ stale' = {} /\ OneDrains' /\ ProcessingIsHeld'
<1> DEFINE Goal == reclaimed' = {} /\ stale' = {} /\ OneDrains' /\ ProcessingIsHeld'
<1> SUFFICES ASSUME SoloInv, [SoloNext]_vars PROVE Goal
  OBVIOUS
<1> USE DEF SoloInv, IInv
<1>1. CASE Undisturbed /\ Environment
  <2>1. RowsIn("processing") = {}
    BY <1>1, IdleHoldNothing
  <2>2. UNCHANGED <<workers, stale, reclaimed>>
    BY <1>1 DEF Environment, Enqueue, RetryFailed, ClearCompleted, history
  <2>3. RowsIn("processing")' = {}
    BY <1>1, <2>1 DEF Environment, Enqueue, RetryFailed, ClearCompleted, RowsIn, TypeOK
  <2> QED
    BY <2>2, <2>3 DEF workers, OneDrains, ProcessingIsHeld
<1>2. ASSUME NEW w \in Workers, Undisturbed, StartReplay(w) \/ StartFlush(w)
      PROVE  Goal
  <2>1. UNCHANGED <<table, batch, running, history>>
    BY <1>2 DEF StartReplay, StartFlush
  <2>2. OneDrains'
    BY <1>2 DEF StartReplay, StartFlush, Undisturbed, OneDrains, TypeOK
  <2> QED
    BY <2>1, <2>2 DEF table, history, ProcessingIsHeld, RowsIn, Holds
<1>3. ASSUME NEW w \in Workers, Dequeue(w)
      PROVE  Goal
  <2>1. stale' = {} /\ reclaimed' = {} /\ OneDrains'
    BY <1>3 DEF Dequeue, history, OneDrains, TypeOK
  <2>2. ASSUME NEW c \in Cmds, status'[c] = "processing"
        PROVE  \E v \in Workers : c \in Holds(v)'
    <3>1. CASE c \in Claimable
      BY <1>3, <3>1 DEF Dequeue, Holds, TypeOK
    <3>2. CASE c \notin Claimable
      <4>1. PICK v \in Workers : c \in Holds(v)
        BY <1>3, <2>2, <3>2 DEF Dequeue, ProcessingIsHeld, RowsIn
      <4>2. v # w
        BY <1>3, <4>1 DEF Dequeue, Holds, WorkerShape
      <4> QED
        BY <1>3, <4>1, <4>2 DEF Dequeue, Holds, TypeOK
    <3> QED
      BY <3>1, <3>2
  <2> QED
    BY <2>1, <2>2 DEF ProcessingIsHeld, RowsIn
<1>4. ASSUME NEW w \in Workers, Return(w)
      PROVE  Goal
  BY <1>4 DEF Return, table, history, OneDrains, ProcessingIsHeld, RowsIn, Holds, TypeOK
<1>5. ASSUME NEW w \in Workers, NEW c \in Cmds, MarkProcessing(w, c)
      PROVE  Goal
  <2>1. stale' = {} /\ reclaimed' = {} /\ OneDrains'
    BY <1>5 DEF MarkProcessing, history, OneDrains, TypeOK
  <2>2. status' = status
    BY <1>5 DEF MarkProcessing, HeldIsProcessing, Holds
  <2>3. \A v \in Workers : Holds(v) \subseteq Holds(v)'
    BY <1>5, ConstantsAssumption DEF MarkProcessing, Holds, WorkerShape, TypeOK
  <2> QED
    BY <2>1, <2>2, <2>3 DEF ProcessingIsHeld, RowsIn
<1>6. ASSUME NEW w \in Workers, ExecutorSucceeds(w) \/ EngineSwallowsFailure(w)
      PROVE  Goal
  <2>1. /\ stale' = {} /\ reclaimed' = {} /\ pc[w] = "exec" /\ NextInBatch(w)
        /\ status' = MarkedCompleted(running[w])
    BY <1>6 DEF ExecutorSucceeds, EngineSwallowsFailure, StaleAfter, ReportCompleted
  <2>2. OneDrains'
    BY <2>1 DEF NextInBatch, OneDrains, TypeOK
  <2>3. /\ status'[running[w]] # "processing"
        /\ \A c \in Cmds : status'[c] = "processing" => status[c] = "processing"
    BY <2>1 DEF MarkedCompleted, WorkerShape, TypeOK
  <2> QED
    BY <2>1, <2>2, <2>3, ReportKeepsHeld
<1>7. ASSUME NEW w \in Workers, ExecutorRaises(w)
      PROVE  Goal
  <2>1. /\ stale' = {} /\ reclaimed' = {} /\ pc[w] = "exec" /\ NextInBatch(w)
        /\ status' = MarkedFailed(running[w])
    BY <1>7 DEF ExecutorRaises, StaleAfter, history
  <2>2. OneDrains'
    BY <2>1 DEF NextInBatch, OneDrains, TypeOK
  <2>3. /\ status'[running[w]] # "processing"
        /\ \A c \in Cmds : status'[c] = "processing" => status[c] = "processing"
    BY <2>1 DEF MarkedFailed, WorkerShape, TypeOK
  <2> QED
    BY <2>1, <2>2, <2>3, ReportKeepsHeld
<1>8. ASSUME NEW w \in Workers, NEW copy \in Cmds, EngineRequeuesFailure(w, copy)
      PROVE  Goal
  <2>1. /\ stale' = {} /\ reclaimed' = {} /\ pc[w] = "exec" /\ NextInBatch(w)
        /\ status' = [MarkedCompleted(running[w]) EXCEPT ![copy] = "pending"]
    BY <1>8 DEF EngineRequeuesFailure, StaleAfter, ReportCompleted
  <2>2. OneDrains'
    BY <2>1 DEF NextInBatch, OneDrains, TypeOK
  <2>3. /\ status'[running[w]] # "processing"
        /\ \A c \in Cmds : status'[c] = "processing" => status[c] = "processing"
    BY <2>1 DEF MarkedCompleted, WorkerShape, TypeOK
  <2> QED
    BY <2>1, <2>2, <2>3, ReportKeepsHeld
<1>9. CASE UNCHANGED vars
  BY <1>9 DEF vars, table, workers, history, OneDrains, ProcessingIsHeld, RowsIn, Holds
<1> QED
  BY <1>1, <1>2, <1>3, <1>4, <1>5, <1>6, <1>7, <1>8, <1>9 DEF SoloNext, WorkerStep

LEMMA InitSoloInv == Init => SoloInv
<1> SUFFICES ASSUME Init PROVE SoloInv
  OBVIOUS
<1>1. IInv
  BY InitIInv
<1>2. reclaimed = {} /\ stale = {} /\ OneDrains /\ ProcessingIsHeld
  BY DEF Init, OneDrains, ProcessingIsHeld, RowsIn
<1>3. CyclesSuffice
  BY DEF Init, CyclesSuffice
<1> QED
  BY <1>1, <1>2, <1>3 DEF SoloInv

\* The inductive invariant of an undisturbed drain: a replay has a cycle left
\* for every attempt that is left of the rows it may claim.
THEOREM SoloInvariance == SoloSpec => []SoloInv
<1>1. Init => SoloInv
  BY InitSoloInv
<1>2. SoloInv /\ [SoloNext]_vars => SoloInv'
  <2>1. IInv /\ [Next]_vars => IInv'
    BY TypeOKStep, WorkerShapeStep, UnbornAbsentStep, HeldIsProcessingStep,
       ClaimIsExclusiveStep, AttemptsStep, DependenciesStep DEF IInv
  <2>2. SoloInv => IInv
    BY DEF SoloInv
  <2> QED
    BY <2>1, <2>2, SoloIsNext, CyclesStep, HeldStep DEF SoloInv
<1> QED
  BY <1>1, <1>2, PTL DEF SoloSpec

\* Some row of a set was created first.
LEMMA FirstCreated ==
  ASSUME TypeOK, NEW rows \in SUBSET Cmds, rows # {}
  PROVE  \E c \in rows : \A d \in rows : created[c] <= created[d]
<1> DEFINE ranks == {created[c] : c \in rows}
<1>1. ranks \subseteq Nat /\ ranks # {}
  BY DEF TypeOK
<1>2. \E n \in ranks : \A m \in ranks : ~(<<m, n>> \in OpToRel(<, Nat))
  BY <1>1, NatLessThanWellFounded, WFMin
<1>3. PICK c \in rows : \A m \in ranks : ~(<<m, created[c]>> \in OpToRel(<, Nat))
  BY <1>2
<1>4. \A d \in rows : ~(created[d] < created[c])
  BY <1>1, <1>3 DEF OpToRel
<1> QED
  BY <1>4 DEF TypeOK

\* A dequeue that looks at rows at all claims the first one that is ready.
LEMMA OldestNotEmpty ==
  ASSUME TypeOK, NEW rows \in SUBSET Cmds, rows # {}, NEW n \in Nat \ {0}
  PROVE  Oldest(rows, n) # {}
<1>1. PICK c \in rows : \A d \in rows : created[c] <= created[d]
  BY FirstCreated
<1>2. {d \in rows : created[d] < created[c]} = {}
  BY <1>1 DEF TypeOK
<1>3. Cardinality({d \in rows : created[d] < created[c]}) = 0
  BY <1>2, FS_EmptySet
<1> QED
  BY <1>3 DEF Oldest

\* What a dequeue that claims nothing leaves ready is hidden by blocked rows.
LEMMA NothingClaimable ==
  ASSUME TypeOK, Claimable = {}, NEW c \in RowsIn("pending"), DepsSatisfied(c)
  PROVE  HiddenByBlocked(c)
<1> DEFINE pending == RowsIn("pending")
           size == BatchSize * OverFetch
           window == Oldest(pending, size)
           ready == {d \in window : DepsSatisfied(d)}
           older == {d \in pending : created[d] < created[c]}
<1>1. pending \subseteq Cmds /\ window \subseteq pending
  BY DEF RowsIn, Oldest
<1>2. size \in Nat /\ BatchSize \in Nat \ {0}
  BY ConstantsAssumption
<1>3. ready = {}
  <2>1. Oldest(ready, BatchSize) = {}
    BY DEF Claimable
  <2>2. ready \subseteq Cmds
    BY <1>1
  <2> HIDE DEF ready
  <2> QED
    BY <1>2, <2>1, <2>2, OldestNotEmpty
<1>4. c \notin window
  BY <1>3
<1>5. IsFiniteSet(older) /\ Cardinality(older) \in Nat
  BY <1>1, ConstantsAssumption, FS_Subset, FS_CardinalityType
<1>6. Cardinality(older) >= size
  <2>1. ~(Cardinality(older) < size)
    BY <1>4 DEF Oldest
  <2> HIDE DEF older, size
  <2> QED
    BY <1>2, <1>5, <2>1
<1>7. ASSUME NEW d \in Oldest(older, size)
      PROVE  ~DepsSatisfied(d)
  <2>1. d \in older /\ Cardinality({e \in older : created[e] < created[d]}) < size
    BY <1>7 DEF Oldest
  <2>2. \A e \in pending : created[e] \in Nat
    BY <1>1 DEF TypeOK
  <2>3. {e \in older : created[e] < created[d]} = {e \in pending : created[e] < created[d]}
    BY <2>1, <2>2
  <2>4. d \in window
    BY <2>1, <2>3 DEF Oldest
  <2> QED
    BY <1>3, <2>4
<1> QED
  BY <1>6, <1>7 DEF HiddenByBlocked

\* A replay out of cycles has nothing left to do.
LEMMA OutOfCycles ==
  ASSUME SoloInv, NEW w \in Workers, pc[w] = "loop", kind[w] = "replay", cycles[w] = 0
  PROVE  RowsIn("pending") = {}
<1>1. Cardinality(AttemptsLeft) <= 0
  BY DEF SoloInv, CyclesSuffice
<1>2. Cardinality(AttemptsLeft) = 0
  BY <1>1, AttemptsLeftFinite
<1>3. AttemptsLeft = {}
  BY <1>2, AttemptsLeftFinite, FS_EmptySet
<1> QED
  BY <1>3, PendingLeft

\* What an undisturbed drain leaves behind, for any number of rows, any window
\* and any order of failures: a replay leaves no ready row that dequeue can
\* see, its cycle bound never cuts it short, and no row stays claimed.
THEOREM DrainsLeaveNothing == SoloSpec => []DrainLeavesNothing
<1>1. SoloInv => DrainLeavesNothing
  <2> SUFFICES ASSUME SoloInv PROVE DrainLeavesNothing
    OBVIOUS
  <2>1. NothingLeftProcessing
    BY IdleHoldNothing DEF NothingLeftProcessing
  <2>2. ASSUME NEW w \in Workers, pc[w] = "loop", kind[w] = "replay",
               cycles[w] = 0 \/ Claimable = {},
               NEW c \in RowsIn("pending"), DepsSatisfied(c)
        PROVE  HiddenByBlocked(c)
    <3>1. CASE cycles[w] = 0
      BY <2>2, <3>1, OutOfCycles
    <3>2. CASE Claimable = {}
      BY <2>2, <3>2, NothingClaimable DEF SoloInv, IInv
    <3> QED
      BY <2>2, <3>1, <3>2
  <2> QED
    BY <2>1, <2>2 DEF DrainLeavesNothing, ReplayDrains
<1> QED
  BY <1>1, SoloInvariance, PTL
=============================================================================
