---------------------------- MODULE OfflineQueue ----------------------------
(***************************************************************************)
(* The offline command queue (offline_queue.py) and the two clients that   *)
(* drain it: OfflineCommandReplay.replay_all and the /queue flush command  *)
(* (chat/handlers.py).  The table lives in one SQLite file that every      *)
(* session opens, and each queue method is one BEGIN IMMEDIATE             *)
(* transaction, so each is one atomic action here; what interleaves are    *)
(* the steps BETWEEN the transactions of several draining workers, of the  *)
(* user's /queue commands, of crashes and of the reclaim of stale claims.  *)
(***************************************************************************)
EXTENDS Naturals, FiniteSets

CONSTANTS
  Cmds,         \* row ids (uuid4: fresh at each enqueue, never reused)
  Workers,      \* sessions that may run a flush or a replay
  None,         \* no command
  Deps,         \* Deps[c]: the dependency ids row c is enqueued with
  MaxAttempts,  \* MaxAttempts[c]: the max_attempts row c is enqueued with
  BatchSize,    \* dequeue's batch_size (10 in a flush, 3 in a replay)
  OverFetch,    \* dequeue looks at BatchSize * OverFetch rows (5 in the code)
  CycleFactor,  \* replay cycles allowed per pending row (8 in the code)
  MinCycles,    \* replay cycles allowed whatever is pending (32 in the code)
  Kinds,        \* the clients in use, of "flush" and "replay"
  RetryLimit,   \* retry_failed's max_items (10 in the code)
  ReclaimCap    \* bound of the model: rows claimed more often are not reclaimed

ASSUME ConstantsAssumption ==
  /\ None \notin Cmds
  /\ IsFiniteSet(Cmds)
  /\ Deps \in [Cmds -> SUBSET Cmds]
  /\ MaxAttempts \in [Cmds -> Nat \ {0}]
  /\ BatchSize \in Nat \ {0}
  /\ OverFetch \in Nat \ {0}
  /\ CycleFactor \in Nat \ {0}
  /\ MinCycles \in Nat /\ MinCycles >= CycleFactor
  /\ RetryLimit \in Nat \ {0}
  /\ ReclaimCap \in Nat
  /\ Kinds \subseteq {"flush", "replay"}

VARIABLES
  status,     \* the status column; "absent" where there is no such row
  attempts,   \* the attempts column
  created,    \* creation rank (created_at order); 0 = never enqueued
  stale,      \* processing rows whose claim is older than the reclaim cutoff
  pc,         \* where each worker stands: "idle", "loop", "batch", "exec"
  kind,       \* what the worker is running: "flush" or "replay"
  cycles,     \* dequeue cycles the worker has left
  batch,      \* claimed commands the worker has still to take up
  running,    \* the command whose executor the worker awaits
  reclaimed,  \* history: rows some reclaim returned to pending
  reported,   \* history: rows some worker reported completed
  succeeded   \* history: rows whose instruction was executed without an error

table   == <<status, attempts, created, stale>>
workers == <<pc, kind, cycles, batch, running>>
history == <<reclaimed, reported, succeeded>>
vars    == <<table, workers, history>>

RowStatus == {"absent", "pending", "processing", "completed", "failed"}

(***************************************************************************)
(* The rows, in the terms the SQL statements select them by.               *)
(***************************************************************************)
RowsIn(s)  == {c \in Cmds : status[c] = s}
Enqueued   == {c \in Cmds : created[c] > 0}

\* ORDER BY created_at ASC LIMIT n
Oldest(S, n) ==
  {c \in S : Cardinality({d \in S : created[d] < created[c]}) < n}

\* Variant: a dependency that is merely taken up counts.
DepsTakenUp(c) == \A d \in Deps[c] : status[d] # "pending"

DepsSatisfied(c) == \A d \in Deps[c] : status[d] = "completed"

\* Variant: the SELECT does not ask for pending rows.
ClaimableUnfiltered ==
  LET window == Oldest(RowsIn("pending") \cup RowsIn("processing"), BatchSize * OverFetch)
  IN  Oldest({c \in window : \A d \in Deps[c] : status[d] = "completed"}, BatchSize)

\* The rows one dequeue claims: it looks at the oldest pending rows only,
\* keeps those whose dependencies are completed, and stops at BatchSize.
Claimable ==
  LET window == Oldest(RowsIn("pending"), BatchSize * OverFetch)
  IN  Oldest({c \in window : DepsSatisfied(c)}, BatchSize)

\* The commands worker w has claimed and not reported on.
Holds(w) == batch[w] \cup ({running[w]} \ {None})

Init ==
  /\ status = [c \in Cmds |-> "absent"]
  /\ attempts = [c \in Cmds |-> 0]
  /\ created = [c \in Cmds |-> 0]
  /\ stale = {}
  /\ pc = [w \in Workers |-> "idle"]
  /\ kind = [w \in Workers |-> "flush"]
  /\ cycles = [w \in Workers |-> 0]
  /\ batch = [w \in Workers |-> {}]
  /\ running = [w \in Workers |-> None]
  /\ reclaimed = {}
  /\ reported = {}
  /\ succeeded = {}

(***************************************************************************)
(* Users and callers.                                                      *)
(***************************************************************************)
\* An id names a row the caller has already enqueued, so a row's
\* dependencies were created before it.
Insert(c) ==
  /\ created[c] = 0
  /\ Deps[c] \subseteq Enqueued
  /\ created' = [created EXCEPT ![c] = Cardinality(Enqueued) + 1]
  /\ attempts' = [attempts EXCEPT ![c] = 0]

Enqueue(c) ==
  /\ Insert(c)
  /\ status' = [status EXCEPT ![c] = "pending"]
  /\ UNCHANGED <<stale, workers, history>>

\* Variant: the retry resets every settled row.
RetrySettled ==
  LET ids == Oldest(RowsIn("failed") \cup RowsIn("completed"), RetryLimit)
  IN  /\ ids # {}
      /\ status' = [c \in Cmds |-> IF c \in ids THEN "pending" ELSE status[c]]
      /\ attempts' = [c \in Cmds |-> IF c \in ids THEN 0 ELSE attempts[c]]
      /\ UNCHANGED <<created, stale, workers, history>>

RetryFailed ==
  LET ids == Oldest(RowsIn("failed"), RetryLimit)
  IN  /\ ids # {}
      /\ status' = [c \in Cmds |-> IF c \in ids THEN "pending" ELSE status[c]]
      /\ attempts' = [c \in Cmds |-> IF c \in ids THEN 0 ELSE attempts[c]]
      /\ UNCHANGED <<created, stale, workers, history>>

\* Completed rows created before some cutoff are deleted.
ClearCompleted(cutoff) ==
  LET gone == {c \in RowsIn("completed") : created[c] <= cutoff}
  IN  /\ gone # {}
      /\ status' = [c \in Cmds |-> IF c \in gone THEN "absent" ELSE status[c]]
      /\ UNCHANGED <<attempts, created, stale, workers, history>>

\* Time passes: the claim of c is now older than the cutoff.
ClaimAges(c) ==
  /\ status[c] = "processing"
  /\ c \notin stale
  /\ stale' = stale \cup {c}
  /\ UNCHANGED <<status, attempts, created, workers, history>>

ReclaimStaleProcessing ==
  /\ stale # {}
  /\ \A c \in stale : attempts[c] <= ReclaimCap
  /\ status' = [c \in Cmds |-> IF c \in stale THEN "pending" ELSE status[c]]
  /\ stale' = {}
  /\ reclaimed' = reclaimed \cup stale
  /\ UNCHANGED <<attempts, created, workers, reported, succeeded>>

(***************************************************************************)
(* The draining workers.                                                   *)
(***************************************************************************)
\* Variant: the bound does not grow with the queue.
FixedCycles == MinCycles

\* A replay bounds its cycles by the work it sees when it starts.
MaxCycles ==
  LET pendingHint == Cardinality(RowsIn("pending") \cup RowsIn("processing"))
      cyclesAllowed == CycleFactor * pendingHint
  IN  IF cyclesAllowed < MinCycles THEN MinCycles ELSE cyclesAllowed

StartReplay(w) ==
  /\ "replay" \in Kinds
  /\ pc[w] = "idle"
  /\ pc' = [pc EXCEPT ![w] = "loop"]
  /\ kind' = [kind EXCEPT ![w] = "replay"]
  /\ cycles' = [cycles EXCEPT ![w] = MaxCycles]
  /\ UNCHANGED <<table, batch, running, history>>

\* A flush dequeues once.
StartFlush(w) ==
  /\ "flush" \in Kinds
  /\ pc[w] = "idle"
  /\ pc' = [pc EXCEPT ![w] = "loop"]
  /\ kind' = [kind EXCEPT ![w] = "flush"]
  /\ cycles' = [cycles EXCEPT ![w] = 1]
  /\ UNCHANGED <<table, batch, running, history>>

\* Variant: the cycle is not counted.
DequeueUncounted(w) ==
  /\ pc[w] = "loop"
  /\ cycles[w] > 0
  /\ Claimable # {}
  /\ status' = [c \in Cmds |-> IF c \in Claimable THEN "processing" ELSE status[c]]
  /\ attempts' = [c \in Cmds |-> IF c \in Claimable THEN attempts[c] + 1
                                                     ELSE attempts[c]]
  /\ pc' = [pc EXCEPT ![w] = "batch"]
  /\ batch' = [batch EXCEPT ![w] = Claimable]
  /\ UNCHANGED <<created, stale, kind, cycles, running, history>>

Dequeue(w) ==
  /\ pc[w] = "loop"
  /\ cycles[w] > 0
  /\ Claimable # {}
  /\ status' = [c \in Cmds |-> IF c \in Claimable THEN "processing" ELSE status[c]]
  /\ attempts' = [c \in Cmds |-> IF c \in Claimable THEN attempts[c] + 1
                                                     ELSE attempts[c]]
  /\ pc' = [pc EXCEPT ![w] = "batch"]
  /\ cycles' = [cycles EXCEPT ![w] = @ - 1]
  /\ batch' = [batch EXCEPT ![w] = Claimable]
  /\ UNCHANGED <<created, stale, kind, running, history>>

\* Nothing to claim, or no cycle left: the drain returns to its caller.
Return(w) ==
  /\ pc[w] = "loop"
  /\ cycles[w] = 0 \/ Claimable = {}
  /\ pc' = [pc EXCEPT ![w] = "idle"]
  /\ UNCHANGED <<table, kind, cycles, batch, running, history>>

\* mark_processing, and the call of the executor.
MarkProcessing(w, c) ==
  /\ pc[w] = "batch"
  /\ c \in batch[w]
  /\ IF status[c] = "pending"
       THEN /\ status' = [status EXCEPT ![c] = "processing"]
            /\ attempts' = [attempts EXCEPT ![c] = @ + 1]
       ELSE UNCHANGED <<status, attempts>>
  /\ pc' = [pc EXCEPT ![w] = "exec"]
  /\ batch' = [batch EXCEPT ![w] = @ \ {c}]
  /\ running' = [running EXCEPT ![w] = c]
  /\ UNCHANGED <<created, stale, kind, cycles, history>>

\* The worker turns from the command it ran to the rest of its batch.
NextInBatch(w) ==
  /\ pc' = [pc EXCEPT ![w] = IF batch[w] = {} THEN "loop" ELSE "batch"]
  /\ running' = [running EXCEPT ![w] = None]
  /\ UNCHANGED <<kind, cycles, batch>>

\* UPDATE ... SET status = 'completed' WHERE id = ?, whatever the status.
MarkedCompleted(c) ==
  [status EXCEPT ![c] = IF @ = "absent" THEN "absent" ELSE "completed"]

\* Variant: one attempt too many.
MarkedFailedLate(c) ==
  [status EXCEPT ![c] = CASE @ = "absent" -> "absent"
                          [] @ # "absent" /\ attempts[c] > MaxAttempts[c] -> "failed"
                          [] OTHER -> "pending"]

MarkedFailed(c) ==
  [status EXCEPT ![c] = CASE @ = "absent" -> "absent"
                          [] @ # "absent" /\ attempts[c] >= MaxAttempts[c] -> "failed"
                          [] OTHER -> "pending"]

\* Variant: the age of a claim outlives the claim.
StaleForEver(newStatus) == stale

\* A row that leaves "processing" is no longer a stale claim.
StaleAfter(newStatus) == {c \in stale : newStatus[c] = "processing"}

\* The worker reports the command it ran completed.
ReportCompleted(w) ==
  /\ reported' = reported \cup {running[w]}
  /\ NextInBatch(w)

ExecutorSucceeds(w) ==
  /\ pc[w] = "exec"
  /\ status' = MarkedCompleted(running[w])
  /\ stale' = StaleAfter(status')
  /\ succeeded' = succeeded \cup {running[w]}
  /\ ReportCompleted(w)
  /\ UNCHANGED <<attempts, created, reclaimed>>

ExecutorRaises(w) ==
  /\ pc[w] = "exec"
  /\ status' = MarkedFailed(running[w])
  /\ stale' = StaleAfter(status')
  /\ NextInBatch(w)
  /\ UNCHANGED <<attempts, created, history>>

\* In a flush the executor is the chat engine, which catches a failed
\* execution and returns normally, so that the flush reports the row completed.
\* In the registry and offline modes it first enqueues the instruction as a
\* NEW row without dependencies; in other modes it only prints the error.
EngineSwallowsFailure(w) ==
  /\ pc[w] = "exec"
  /\ kind[w] = "flush"
  /\ status' = MarkedCompleted(running[w])
  /\ stale' = StaleAfter(status')
  /\ ReportCompleted(w)
  /\ UNCHANGED <<attempts, created, reclaimed, succeeded>>

EngineRequeuesFailure(w, copy) ==
  /\ pc[w] = "exec"
  /\ kind[w] = "flush"
  /\ Deps[copy] = {}
  /\ Insert(copy)
  /\ status' = [MarkedCompleted(running[w]) EXCEPT ![copy] = "pending"]
  /\ stale' = StaleAfter(status')
  /\ ReportCompleted(w)
  /\ UNCHANGED <<reclaimed, succeeded>>

\* The session dies, or its task is cancelled: CancelledError is no Exception,
\* so nothing is reported and the claimed rows stay as they are.
Crash(w) ==
  /\ pc[w] # "idle"
  /\ pc' = [pc EXCEPT ![w] = "idle"]
  /\ batch' = [batch EXCEPT ![w] = {}]
  /\ running' = [running EXCEPT ![w] = None]
  /\ UNCHANGED <<table, kind, cycles, history>>

Environment ==
  \/ \E c \in Cmds : Enqueue(c)
  \/ RetryFailed
  \/ \E cutoff \in 1 .. Cardinality(Cmds) : ClearCompleted(cutoff)

Reclaiming ==
  \/ \E c \in Cmds : ClaimAges(c)
  \/ ReclaimStaleProcessing

WorkerStep(w) ==
  \/ Dequeue(w)
  \/ Return(w)
  \/ \E c \in Cmds : MarkProcessing(w, c)
  \/ ExecutorSucceeds(w)
  \/ ExecutorRaises(w)
  \/ EngineSwallowsFailure(w)
  \/ \E copy \in Cmds : EngineRequeuesFailure(w, copy)

Next ==
  \/ Environment
  \/ Reclaiming
  \/ \E w \in Workers : \/ StartReplay(w) \/ StartFlush(w)
                        \/ WorkerStep(w) \/ Crash(w)

Spec == Init /\ [][Next]_vars

\* A drain is a loop of the event loop: it goes on as long as it can, and the
\* executor it awaits answers or raises.  Nobody is obliged to start one.
FairSpec == Spec /\ \A w \in Workers : WF_vars(WorkerStep(w))

-----------------------------------------------------------------------------
(***************************************************************************)
(* Properties.                                                             *)
(***************************************************************************)
\* Type invariant.
TypeOK ==
  /\ status \in [Cmds -> RowStatus]
  /\ attempts \in [Cmds -> Nat]
  /\ created \in [Cmds -> Nat]
  /\ stale \subseteq RowsIn("processing")
  /\ pc \in [Workers -> {"idle", "loop", "batch", "exec"}]
  /\ kind \in [Workers -> {"flush", "replay"}]
  /\ cycles \in [Workers -> Nat]
  /\ batch \in [Workers -> SUBSET Cmds]
  /\ running \in [Workers -> Cmds \cup {None}]
  /\ reclaimed \subseteq Cmds
  /\ reported \subseteq Cmds
  /\ succeeded \subseteq Cmds

\* dequeue's promise, "concurrent flush/replay workers cannot dequeue the same
\* row twice": two workers hold one command only if a reclaim took it from one
\* of them.  It must survive failures, retries, crashes and clears of others.
ClaimIsExclusive ==
  \A w1, w2 \in Workers :
    w1 # w2 => Holds(w1) \cap Holds(w2) \subseteq reclaimed

\* A command is only taken up after every dependency was reported completed
\* by some worker, although mark_processing never looks at dependencies.
DependenciesReportedFirst ==
  \A w \in Workers : \A c \in Holds(w) : Deps[c] \subseteq reported

\* The attempt count, which mark_failed alone compares with max_attempts,
\* stays within it for a row no reclaim touched, whatever order claims,
\* failures and retries come in; and a row is given up only at its limit.
AttemptsWithinLimit ==
  \A c \in Cmds :
    /\ c \notin reclaimed => attempts[c] <= MaxAttempts[c]
    /\ status[c] = "failed" => attempts[c] >= MaxAttempts[c]

\* A completed row is opened again only by the late report of a worker whose
\* claim had been reclaimed (mark_failed does not look at the status).
CompletedStaysCompleted ==
  [][\A c \in Cmds :
       (status[c] = "completed" /\ status'[c] # "completed")
         => (status'[c] = "absent" \/ c \in reclaimed)]_vars

\* What a completed row says, "Replayed successfully": its instruction was
\* executed without an error, and so were those of its dependencies.
CompletedMeansExecuted == RowsIn("completed") \subseteq succeeded

\* "Bound retries so a poisoned/misconfigured queue cannot spin forever":
\* a drain that started ends, even while users enqueue and retry commands.
DrainEnds == \A w \in Workers : pc[w] = "loop" ~> pc[w] = "idle"
=============================================================================
