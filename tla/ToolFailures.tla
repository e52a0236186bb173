---------------------------- MODULE ToolFailures ----------------------------
(***************************************************************************)
(* The file of the tool-call trackers (ToolCallTracker of executor.py).    *)
(* Each executor has a tracker of its own; it reads tool_failures.json     *)
(* when it is made and rewrites all of it at every SaveEvery-th record.    *)
(* A tool whose count reaches a threshold is refused, and every tool when  *)
(* the last call that succeeded was repeated in vain as often.  The two    *)
(* counts of a tool, _failure_counts and _consecutive_same, are always     *)
(* written together and kept as one.                                       *)
(***************************************************************************)
EXTENDS Naturals, Sequences

CONSTANTS
  Tools,
  RecordsPerSave,  \* 10 in the code
  MaxTrackers,     \* bound of the model: trackers of a process
  MaxFailures      \* bound of the model: failures recorded of each tool

ASSUME TrackerAssumption ==
  /\ RecordsPerSave \in Nat \ {0}
  /\ {MaxTrackers, MaxFailures} \subseteq Nat

NoFailures == [count |-> [t \in Tools |-> 0], stuck |-> 0, last |-> {}]

VARIABLES
  trackers,  \* trackers of the process: [counts |-> what is saved, records |->
             \* _debounce_counter modulo RecordsPerSave]
  saved,     \* tool_failures.json: count of each tool, _no_progress_count and the
             \* tool of _last_mutation, if any
  recorded   \* history: failures recorded of each tool, in all trackers so far

failureVars == <<trackers, saved, recorded>>

FailuresInit ==
  /\ trackers = <<>>
  /\ saved = NoFailures
  /\ recorded = [t \in Tools |-> 0]

\* __init__ and _load_state.
NewTracker ==
  /\ Len(trackers) < MaxTrackers
  /\ trackers' = Append(trackers, [counts |-> saved, records |-> 0])
  /\ UNCHANGED <<saved, recorded>>

\* _save_state: the file may stay as it was, or be left half-written, which a
\* later load takes for empty.
SaveState(k, counts) ==
  LET records == (trackers[k].records + 1) % RecordsPerSave
  IN /\ trackers' = [trackers EXCEPT ![k] = [counts |-> counts, records |-> records]]
     /\ saved' \in IF records = 0 THEN {counts, saved, NoFailures} ELSE {saved}

\* Variant: what was repeated in vain is not forgotten.
SucceededStuck(counts, t) ==
  [count |-> [counts.count EXCEPT ![t] = 0], stuck |-> counts.stuck, last |-> {t}]

Succeeded(counts, t) ==
  [count |-> [counts.count EXCEPT ![t] = 0], stuck |-> 0, last |-> {t}]

\* The call may have the arguments of the last that succeeded.
Failed(counts, t, repeated) ==
  [count |-> [counts.count EXCEPT ![t] = @ + 1],
   stuck |-> IF counts.last = {t} /\ repeated THEN counts.stuck + 1 ELSE counts.stuck,
   last |-> counts.last]

\* The last mutation stays.
Reset(counts) == [count |-> [t \in Tools |-> 0], stuck |-> 0, last |-> counts.last]

RecordSucceeds(k, t) ==
  /\ SaveState(k, Succeeded(trackers[k].counts, t))
  /\ UNCHANGED recorded

\* A call failed, was refused, or timed out, or an alternative is about to run.
RecordFails(k, t) ==
  /\ recorded[t] < MaxFailures
  /\ recorded' = [recorded EXCEPT ![t] = @ + 1]
  /\ \E repeated \in BOOLEAN : SaveState(k, Failed(trackers[k].counts, t, repeated))

ResetTracker(k) ==
  /\ SaveState(k, Reset(trackers[k].counts))
  /\ UNCHANGED recorded

\* Nothing is written at exit.
TrackersEnd ==
  /\ trackers # <<>>
  /\ trackers' = <<>>
  /\ UNCHANGED <<saved, recorded>>

-----------------------------------------------------------------------------
FailuresNext ==
  \/ NewTracker \/ TrackersEnd
  \/ \E k \in DOMAIN trackers : \/ ResetTracker(k)
                                \/ \E t \in Tools : RecordSucceeds(k, t) \/ RecordFails(k, t)

FailuresSpec == FailuresInit /\ [][FailuresNext]_failureVars

-----------------------------------------------------------------------------
Counts == [count : [Tools -> Nat], stuck : Nat, last : SUBSET Tools]

\* Type invariant.
FailuresTypeOK ==
  /\ trackers \in Seq([counts : Counts, records : 0 .. RecordsPerSave - 1])
  /\ saved \in Counts
  /\ recorded \in [Tools -> 0 .. MaxFailures]

Earned(counts) ==
  /\ \A t \in Tools : counts.count[t] <= recorded[t]
  /\ counts.stuck = 0 \/ \E t \in Tools : counts.last = {t} /\ counts.stuck <= counts.count[t]

\* No tool is refused without its failures: whichever tracker wrote the file
\* last, with others and later processes going on from it, a count does not
\* exceed the failures recorded of its tool, and when all tools are refused for
\* want of progress, the one that succeeded last has failed as often since.
BlockedJustly == Earned(saved) /\ \A k \in DOMAIN trackers : Earned(trackers[k].counts)
=============================================================================
