------------------------------ MODULE AuditLog ------------------------------
(***************************************************************************)
(* AuditLogger (audit_log.py): every event is linked to the hash of the    *)
(* logger's last one, kept in memory and appended to audit.jsonl; a new    *)
(* logger goes on from the last lines of the file, and verify_chain walks  *)
(* the file.  The lock of a logger makes log one step.  An event stands    *)
(* for its hash: two events never have the same, so a link is an identity. *)
(***************************************************************************)
EXTENDS Naturals, Sequences, FiniteSets

CONSTANTS
  Loggers,    \* AuditLogger objects, of one process or of several
  Window,     \* lines a new logger loads (1000 in the code)
  Sharing,    \* whether two loggers may exist at the same time
  MaxEvents   \* bound of the model: events logged

ASSUME AuditAssumption ==
  /\ Window \in Nat \ {0}
  /\ Sharing \in BOOLEAN
  /\ MaxEvents \in Nat

VARIABLES
  disk,        \* audit.jsonl: events [id, prev], prev 0 in the first of all; its
               \* lines that can be read
  torn,        \* a line of the file was cut: 1 when it is the last and has no end,
               \* n + 2 when it is followed by n others; 0 when there is none
  events,      \* self._events of each logger
  unflushed,   \* self._unflushed_events
  alive,       \* the loggers that exist
  memoryOnly,  \* loggers whose process is in the OPSEC mode memory_only
  created,     \* events logged so far: the ids are 1 .. created, in this order
  expired,     \* events older than the retention period: 1 .. expired
  discarded,   \* history: events dropped in the memory_only mode
  lost         \* history: "no", "gap" (a line in the middle of the file was
               \* lost, or one was written behind events that were dropped),
               \* "cleaned" (a cleanup wrote the file anew, or one that could
               \* not left the logger without its last hash) or "broken"
               \* (writing the file broke off)

history == <<discarded, lost>>
jsonl == <<disk, torn>>
vars == <<jsonl, events, unflushed, alive, memoryOnly, created, expired, history>>

LastHash(log) == IF log = <<>> THEN 0 ELSE log[Len(log)].id

\* Variant: the first lines of the file are loaded.
FirstLines == SubSeq(disk, 1, IF Len(disk) > Window THEN Window ELSE Len(disk))

\* A line that was cut, among the last, keeps all of them from being loaded.
LoadedEvents ==
  IF torn \in 1 .. Window + 1 THEN <<>>
  ELSE SubSeq(disk, IF Len(disk) > Window THEN Len(disk) - Window + 1 ELSE 1, Len(disk))

Init ==
  /\ disk = <<>> /\ torn = 0
  /\ events = [l \in Loggers |-> <<>>]
  /\ unflushed = [l \in Loggers |-> <<>>]
  /\ alive = {}
  /\ memoryOnly = {}
  /\ created = 0
  /\ expired = 0
  /\ discarded = {}
  /\ lost = "no"

\* The outcomes of _save_events for a buffer that is not empty: in the
\* memory_only mode it is dropped, otherwise appended to the file, unless the
\* file cannot be written, or not to the end.
Drop(l, buffer) ==
  /\ l \in memoryOnly
  /\ discarded' = discarded \cup {buffer[i].id : i \in 1 .. Len(buffer)}
  /\ UNCHANGED <<jsonl, lost>>

\* A line behind one without an end becomes a part of it.
Extended(lines) == disk \o SubSeq(lines, IF torn = 1 THEN 2 ELSE 1, Len(lines))
Behind(lines) == IF torn = 0 THEN 0 ELSE torn + Len(lines)

\* Variant: the file is written from what is in memory.
WriteAnew(l, buffer) ==
  /\ l \notin memoryOnly
  /\ disk' = events'[l]
  /\ torn' = 0
  /\ UNCHANGED history

Write(l, buffer) ==
  /\ l \notin memoryOnly
  /\ disk' = Extended(buffer)
  /\ torn' = Behind(buffer)
  /\ lost' = IF lost # "broken" /\ disk # <<>> /\ buffer[1].prev \in discarded
             THEN "gap" ELSE lost
  /\ UNCHANGED discarded

Fail(l, buffer) == l \notin memoryOnly /\ UNCHANGED <<jsonl, history>>

\* Some lines are written, and a part of the next one.
BreakOff(l, buffer) ==
  /\ l \notin memoryOnly
  /\ \E n \in 0 .. Len(buffer) - 1 : disk' = Extended(SubSeq(buffer, 1, n))
  /\ torn' = 1
  /\ lost' = "broken"
  /\ UNCHANGED discarded

Keeps(l, buffer) == Fail(l, buffer) \/ BreakOff(l, buffer)

\* Variant: what could not be written is forgotten.
SaveOnce(l, buffer) ==
  /\ Drop(l, buffer) \/ Write(l, buffer) \/ Keeps(l, buffer)
  /\ unflushed' = [unflushed EXCEPT ![l] = <<>>]

Save(l, buffer) ==
  \/ /\ Drop(l, buffer) \/ Write(l, buffer)
     /\ unflushed' = [unflushed EXCEPT ![l] = <<>>]
  \/ /\ Keeps(l, buffer)
     /\ unflushed' = [unflushed EXCEPT ![l] = buffer]

NewEvent(log) == [id |-> created + 1, prev |-> LastHash(log)]

\* The event goes into memory and, with what could not be written before, to
\* the file; log is what the logger has in memory.
Record(l, log) ==
  /\ created < MaxEvents
  /\ created' = created + 1
  /\ events' = [events EXCEPT ![l] = Append(log, NewEvent(log))]
  /\ Save(l, Append(unflushed[l], NewEvent(log)))

\* A logger loads the last lines of the file and logs its own start.
Open(l) ==
  /\ l \notin alive
  /\ Sharing \/ alive = {}
  /\ alive' = alive \cup {l}
  /\ Record(l, LoadedEvents)
  /\ UNCHANGED <<memoryOnly, expired>>

Log(l) ==
  /\ l \in alive
  /\ Record(l, events[l])
  /\ UNCHANGED <<alive, memoryOnly, expired>>

\* /opsec isolate, and /opsec disable or burn.
SetMemoryOnly(l) ==
  /\ l \in alive
  /\ memoryOnly' \in {memoryOnly \cup {l}, memoryOnly \ {l}}
  /\ UNCHANGED <<jsonl, events, unflushed, alive, created, expired, history>>

Forget(l) ==
  /\ l \in alive
  /\ alive' = alive \ {l}
  /\ memoryOnly' = memoryOnly \ {l}
  /\ events' = [events EXCEPT ![l] = <<>>]
  /\ unflushed' = [unflushed EXCEPT ![l] = <<>>]
  /\ UNCHANGED <<created, expired>>

\* atexit: a last attempt to write what could not be written before.
Exit(l) ==
  /\ Forget(l)
  /\ unflushed[l] # <<>>
  /\ Drop(l, unflushed[l]) \/ Write(l, unflushed[l]) \/ Keeps(l, unflushed[l])

\* The process ends with nothing to write, or is killed.
Crash(l) == Forget(l) /\ UNCHANGED <<jsonl, history>>

\* What is younger than the retention period: the last events, since a logger
\* has them in the order in which they were logged.
Retained(l) ==
  LET old == {i \in 1 .. Len(events[l]) : events[l][i].id <= expired}
  IN  SubSeq(events[l], Cardinality(old) + 1, Len(events[l]))

\* cleanup_old_events: the file is replaced by what the logger has in memory,
\* in the memory_only mode too.
Cleanup(l) ==
  /\ l \in alive
  /\ disk' = Retained(l) /\ torn' = 0
  /\ events' = [events EXCEPT ![l] = Retained(l)]
  /\ unflushed' = [unflushed EXCEPT ![l] = <<>>]
  /\ discarded' = discarded \ {Retained(l)[i].id : i \in 1 .. Len(Retained(l))}
  /\ lost' = IF lost \in {"no", "broken"} THEN lost ELSE "cleaned"
  /\ UNCHANGED <<alive, memoryOnly, created, expired>>

\* cleanup_old_events, when the file cannot be opened: memory is already cut.
CleanupFails(l) ==
  /\ l \in alive
  /\ events' = [events EXCEPT ![l] = Retained(l)]
  /\ lost' = IF lost = "no" /\ Retained(l) = <<>> /\ disk \o unflushed[l] # <<>>
             THEN "cleaned" ELSE lost
  /\ UNCHANGED <<jsonl, unflushed, alive, memoryOnly, created, expired, discarded>>

\* cleanup_old_events, when the file was emptied and writing it breaks off.
CleanupBreaksOff(l) ==
  /\ l \in alive
  /\ events' = [events EXCEPT ![l] = Retained(l)]
  /\ \E n \in 0 .. Len(Retained(l)) - 1 : disk' = SubSeq(Retained(l), 1, n)
  /\ torn' \in {0, 1}
  /\ lost' = "broken"
  /\ UNCHANGED <<unflushed, alive, memoryOnly, created, expired, discarded>>

\* Time passes.
Age ==
  /\ expired < created
  /\ expired' = expired + 1
  /\ UNCHANGED <<jsonl, events, unflushed, alive, memoryOnly, created, history>>

\* Something else loses a line in the middle of a file that is whole otherwise.
LoseLine ==
  /\ lost # "broken"
  /\ \E i \in 2 .. Len(disk) - 1 :
       disk' = SubSeq(disk, 1, i - 1) \o SubSeq(disk, i + 1, Len(disk))
  /\ lost' = "gap"
  /\ UNCHANGED <<torn, events, unflushed, alive, memoryOnly, created, expired, discarded>>

Next ==
  \/ \E l \in Loggers : \/ Open(l) \/ Log(l) \/ SetMemoryOnly(l)
                         \/ Exit(l) \/ Crash(l) \/ Cleanup(l) \/ CleanupFails(l)
                         \/ CleanupBreaksOff(l)
  \/ Age \/ LoseLine
  \/ alive = {} /\ UNCHANGED vars

Spec == Init /\ [][Next]_vars

-----------------------------------------------------------------------------
IsLog(s) == /\ s \in Seq([id : Nat, prev : Nat])
            /\ \A i \in 1 .. Len(s) : s[i].prev < s[i].id /\ s[i].id <= created

\* Type invariant; an event is linked to an earlier one.
TypeOK ==
  /\ created \in 0 .. MaxEvents
  /\ expired \in 0 .. created
  /\ alive \subseteq Loggers
  /\ memoryOnly \subseteq alive
  /\ discarded \subseteq 1 .. created
  /\ lost \in {"no", "gap", "cleaned", "broken"}
  /\ torn \in Nat
  /\ torn > 0 => lost = "broken"
  /\ IsLog(disk)
  /\ DOMAIN events = Loggers /\ DOMAIN unflushed = Loggers
  /\ \A l \in Loggers : IsLog(events[l]) /\ IsLog(unflushed[l])

\* The walk of verify_chain over the links.
ChainValid(log) == \A i \in 2 .. Len(log) : log[i].prev = log[i - 1].id

\* What verify_chain walks: memory, when the file cannot be read.
EventsForVerify(l) == IF torn > 0 THEN events[l] ELSE disk

\* One logger after the other leaves a chain that verifies: failed writes made
\* up for later, crashes, restarts that load only a part of the file, and
\* cleanups do not break it.
ChainIntact == lost = "no" => ChainValid(disk)

\* A gap in the file is noticed by every later verify_chain, whoever logs on and
\* restarts, until a cleanup writes the file anew: a line that was lost from its
\* middle, and what the memory_only mode dropped, once the same logger has
\* written a line behind it; no line that links to a dropped event ever follows
\* another one in a chain that verifies.  What a logger dropped or could not
\* write when it ended leaves no gap: the next one goes on from the last line of
\* the file, and nothing tells that there was more.
GapIsNoticed ==
  /\ lost = "gap" => ~ChainValid(disk)
  /\ lost # "broken" /\ (\E i \in 2 .. Len(disk) : disk[i].prev \in discarded) => ~ChainValid(disk)

\* What a logger has in memory is in the file or waits to be written, unless it
\* was dropped on purpose: neither a failed write nor a cleanup loses an event.
NothingSlips ==
  \A l \in alive : \A i \in 1 .. Len(events[l]) :
    \/ lost # "no"
    \/ events[l][i].id \in discarded
    \/ \E j \in 1 .. Len(disk) : disk[j] = events[l][i]
    \/ \E j \in 1 .. Len(unflushed[l]) : unflushed[l][j] = events[l][i]

\* _events_for_verify: "Prefer full on-disk JSONL so truncated in-memory windows
\* cannot hide deletes": every line of the file that can be read is verified.
VerifiesTheFile ==
  \A l \in alive : \A i \in 1 .. Len(disk) :
    \E j \in 1 .. Len(EventsForVerify(l)) : EventsForVerify(l)[j] = disk[i]
=============================================================================
