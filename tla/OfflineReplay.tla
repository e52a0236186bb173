--------------------------- MODULE OfflineReplay ---------------------------
(***************************************************************************)
(* One undisturbed drain of the offline queue: users enqueue, retry and    *)
(* clear between drains, nothing crashes and nothing is reclaimed while a  *)
(* worker runs.  In this setting the cycle bound of replay_all             *)
(* (max(pending * 8, batch * 8, 32)) is only a guard against a poisoned    *)
(* queue and must never cut a healthy replay short.                        *)
(***************************************************************************)
EXTENDS OfflineQueue

\* A row is enqueued with 3 attempts by default, with 2 by the engine, and
\* replay_all allows 8 cycles per pending row.
ASSUME ReplayAssumption == \A c \in Cmds : MaxAttempts[c] <= CycleFactor

Undisturbed == \A w \in Workers : pc[w] = "idle"

SoloNext ==
  \/ Undisturbed /\ Environment
  \/ \E w \in Workers : Undisturbed /\ (StartReplay(w) \/ StartFlush(w))
  \/ \E w \in Workers : WorkerStep(w)

SoloSpec == Init /\ [][SoloNext]_vars /\ \A w \in Workers : WF_vars(WorkerStep(w))

\* dequeue never gets to see c: older pending rows, all of them waiting for
\* a dependency, fill the window it looks through.
HiddenByBlocked(c) ==
  LET older == {d \in RowsIn("pending") : created[d] < created[c]}
  IN  /\ Cardinality(older) >= BatchSize * OverFetch
      /\ \A d \in Oldest(older, BatchSize * OverFetch) : ~DepsSatisfied(d)

\* A replay that returns leaves no pending row whose dependencies are
\* completed, but those that blocked rows hide from dequeue: its cycle bound
\* (replay_all's max_cycles) never ends it before its work is done.
ReplayDrains ==
  \A w \in Workers :
    (pc[w] = "loop" /\ kind[w] = "replay" /\ (cycles[w] = 0 \/ Claimable = {}))
      => \A c \in RowsIn("pending") : DepsSatisfied(c) => HiddenByBlocked(c)

\* Without reclaims and crashes every row of the table is settled or waits,
\* once the workers are idle: no row is left "processing" with no one to
\* report on it, since nothing in the program calls the reclaim.
NothingLeftProcessing == Undisturbed => RowsIn("processing") = {}

\* A drain nothing disturbs leaves nothing behind, ready or claimed.
DrainLeavesNothing == ReplayDrains /\ NothingLeftProcessing
=============================================================================
