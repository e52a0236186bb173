--------------------------- MODULE AuditLogProofs ---------------------------
(***************************************************************************)
(* Theorems about the audit log, for any number of loggers, any window and *)
(* any history.  The argument: what a logger will write next is linked     *)
(* either to the last line of the file or to an event that was dropped on  *)
(* purpose; in the first case the chain goes on, in the second the write   *)
(* leaves a gap.  It holds as long as the loggers live one after the       *)
(* other: with two at once it is false (AuditLog_shared.cfg).              *)
(***************************************************************************)
EXTENDS AuditLog, FiniteSetTheorems, SequenceTheorems, TLAPS

Line == [id : Nat, prev : Nat]

\* A log of events 1 .. n, each linked to an earlier one.
IsLogUpTo(s, n) == /\ s \in Seq(Line)
                   /\ \A i \in 1 .. Len(s) : s[i].prev < s[i].id /\ s[i].id <= n

\* What the next line a logger writes is linked to: log is what it has in
\* memory, buffer what waits to be written.
Link(log, buffer) == IF buffer = <<>> THEN LastHash(log) ELSE buffer[1].prev

-----------------------------------------------------------------------------
\* What is known of the file beside its lines.
FileOK == /\ torn \in Nat /\ lost \in {"no", "gap", "cleaned", "broken"}
          /\ torn > 0 => lost = "broken"

\* Sequences of lines.
LEMMA IsLogIsUpTo == \A s : IsLog(s) <=> IsLogUpTo(s, created)
  BY DEF IsLog, IsLogUpTo, Line

LEMMA EmptyLog ==
  ASSUME NEW n \in Nat
  PROVE  IsLogUpTo(<<>>, n) /\ ChainValid(<<>>) /\ LastHash(<<>>) = 0
  BY EmptySeq DEF IsLogUpTo, ChainValid, LastHash

LEMMA LogGrows ==
  ASSUME NEW m \in Nat, NEW n \in Nat, m <= n, NEW s, IsLogUpTo(s, m)
  PROVE  IsLogUpTo(s, n)
<1>1. \A i \in 1 .. Len(s) : s[i] \in Line
  BY ElementOfSeq DEF IsLogUpTo
<1>2. \A i \in 1 .. Len(s) : s[i].id \in Nat
  BY <1>1 DEF Line
<1> QED
  BY <1>2 DEF IsLogUpTo

LEMMA LastHashBounded ==
  ASSUME NEW n \in Nat, NEW s, IsLogUpTo(s, n)
  PROVE  LastHash(s) \in 0 .. n
<1>1. CASE s = <<>>
  BY <1>1 DEF LastHash
<1>2. CASE s # <<>>
  <2>1. Len(s) \in 1 .. Len(s)
    BY <1>2, EmptySeq DEF IsLogUpTo
  <2>2. s[Len(s)] \in Line
    BY <2>1, ElementOfSeq DEF IsLogUpTo
  <2> QED
    BY <1>2, <2>1, <2>2 DEF LastHash, IsLogUpTo, Line
<1> QED
  BY <1>1, <1>2

LEMMA AppendLog ==
  ASSUME NEW n \in Nat, NEW s, IsLogUpTo(s, n), NEW p \in 0 .. n
  PROVE  LET t == Append(s, [id |-> n + 1, prev |-> p])
         IN  /\ IsLogUpTo(t, n + 1)
             /\ t # <<>>
             /\ LastHash(t) = n + 1
             /\ t[1].prev = IF s = <<>> THEN p ELSE s[1].prev
             /\ (ChainValid(s) /\ (s # <<>> => p = LastHash(s))) => ChainValid(t)
<1> DEFINE e == [id |-> n + 1, prev |-> p]
           t == Append(s, e)
<1>0. e \in Line /\ s \in Seq(Line) /\ Len(s) \in Nat
  BY LenProperties DEF Line, IsLogUpTo
<1>e. e.id = n + 1 /\ e.prev = p
  OBVIOUS
<1>1. /\ t \in Seq(Line) /\ t # <<>> /\ Len(t) = Len(s) + 1
      /\ \A i \in 1 .. Len(s) : t[i] = s[i]
      /\ t[Len(s) + 1] = e
  BY <1>0, AppendProperties
<1> HIDE DEF e, t
<1>2. IsLogUpTo(t, n + 1)
  <2> SUFFICES ASSUME NEW i \in 1 .. Len(t) PROVE t[i].prev < t[i].id /\ t[i].id <= n + 1
    BY <1>1 DEF IsLogUpTo
  <2>1. CASE i \in 1 .. Len(s)
    <3>1. s[i] \in Line /\ s[i].prev < s[i].id /\ s[i].id <= n
      BY <2>1, <1>0, ElementOfSeq DEF IsLogUpTo
    <3> QED
      BY <2>1, <3>1, <1>1 DEF Line
  <2>2. CASE i = Len(s) + 1
    BY <2>2, <1>1, <1>e
  <2> QED
    BY <2>1, <2>2, <1>0, <1>1
<1>3. LastHash(t) = n + 1
  BY <1>1, <1>e DEF LastHash
<1>4. s = <<>> <=> Len(s) = 0
  BY <1>0, EmptySeq
<1>5. t[1].prev = IF s = <<>> THEN p ELSE s[1].prev
  <2>1. CASE s = <<>>
    BY <2>1, <1>1, <1>e, <1>4
  <2>2. CASE s # <<>>
    BY <2>2, <1>0, <1>1, <1>4
  <2> QED
    BY <2>1, <2>2
<1>6. ASSUME ChainValid(s), s # <<>> => p = LastHash(s)
      PROVE  ChainValid(t)
  <2> SUFFICES ASSUME NEW i \in 2 .. Len(t) PROVE t[i].prev = t[i - 1].id
    BY DEF ChainValid
  <2>1. CASE i \in 2 .. Len(s)
    BY <2>1, <1>0, <1>1, <1>6 DEF ChainValid
  <2>2. CASE i = Len(s) + 1
    BY <2>2, <1>0, <1>1, <1>e, <1>6, <1>4 DEF LastHash
  <2> QED
    BY <2>1, <2>2, <1>0, <1>1
<1> QED
  BY <1>1, <1>2, <1>3, <1>5, <1>6 DEF e, t

LEMMA ConcatLog ==
  ASSUME NEW n \in Nat, NEW s, NEW t, IsLogUpTo(s, n), IsLogUpTo(t, n)
  PROVE  /\ IsLogUpTo(s \o t, n)
         /\ t # <<>> => LastHash(s \o t) = LastHash(t)
         /\ (ChainValid(s) /\ ChainValid(t)
              /\ (s # <<>> /\ t # <<>> => t[1].prev = LastHash(s))) => ChainValid(s \o t)
<1> DEFINE u == s \o t
<1>0. s \in Seq(Line) /\ t \in Seq(Line) /\ Len(s) \in Nat /\ Len(t) \in Nat
  BY LenProperties DEF IsLogUpTo
<1>1. /\ u \in Seq(Line) /\ Len(u) = Len(s) + Len(t)
      /\ \A i \in 1 .. Len(s) + Len(t) : u[i] = IF i <= Len(s) THEN s[i] ELSE t[i - Len(s)]
  BY <1>0, ConcatProperties
<1>4. (s = <<>> <=> Len(s) = 0) /\ (t = <<>> <=> Len(t) = 0) /\ (u = <<>> <=> Len(u) = 0)
  BY <1>0, <1>1, EmptySeq
<1> HIDE DEF u
<1>2. IsLogUpTo(u, n)
  <2> SUFFICES ASSUME NEW i \in 1 .. Len(u) PROVE u[i].prev < u[i].id /\ u[i].id <= n
    BY <1>1 DEF IsLogUpTo
  <2>1. CASE i \in 1 .. Len(s)
    BY <2>1, <1>0, <1>1 DEF IsLogUpTo
  <2>2. CASE i - Len(s) \in 1 .. Len(t)
    BY <2>2, <1>0, <1>1 DEF IsLogUpTo
  <2> QED
    BY <2>1, <2>2, <1>0, <1>1
<1>3. t # <<>> => LastHash(u) = LastHash(t)
  BY <1>0, <1>1, <1>4 DEF LastHash
<1>5. ASSUME ChainValid(s), ChainValid(t), s # <<>> /\ t # <<>> => t[1].prev = LastHash(s)
      PROVE  ChainValid(u)
  <2> SUFFICES ASSUME NEW i \in 2 .. Len(u) PROVE u[i].prev = u[i - 1].id
    BY DEF ChainValid
  <2>1. CASE i \in 2 .. Len(s)
    <3>1. u[i] = s[i] /\ u[i - 1] = s[i - 1]
      BY <2>1, <1>0, <1>1
    <3> QED
      BY <2>1, <3>1, <1>5 DEF ChainValid
  <2>2. CASE i = Len(s) + 1
    BY <2>2, <1>0, <1>1, <1>4, <1>5 DEF LastHash
  <2>3. CASE i - Len(s) \in 2 .. Len(t)
    <3> DEFINE k == i - Len(s)
    <3>1. k \in 2 .. Len(t) /\ i \in Nat /\ i - 1 \in Nat
      BY <2>3, <1>0, <1>1
    <3>2. i - 1 - Len(s) = k - 1 /\ i \in 1 .. Len(s) + Len(t) /\ i - 1 \in 1 .. Len(s) + Len(t)
      BY <3>1, <1>0
    <3>3. ~(i <= Len(s)) /\ ~(i - 1 <= Len(s))
      BY <3>1, <1>0
    <3>4. u[i] = t[k] /\ u[i - 1] = t[k - 1]
      BY <3>2, <3>3, <1>1
    <3> QED
      BY <3>1, <3>4, <1>5 DEF ChainValid
  <2> QED
    BY <2>1, <2>2, <2>3, <1>0, <1>1
<1> QED
  BY <1>2, <1>3, <1>5 DEF u

\* The last lines of a log.
LEMMA LastLines ==
  ASSUME NEW n \in Nat, NEW s, IsLogUpTo(s, n), NEW k \in Nat \ {0}
  PROVE  LET t == SubSeq(s, k, Len(s))
         IN  /\ IsLogUpTo(t, n)
             /\ t # <<>> => LastHash(t) = LastHash(s)
             /\ ChainValid(s) => ChainValid(t)
             /\ \A i \in 1 .. Len(t) : \E j \in 1 .. Len(s) : t[i] = s[j]
             /\ k <= Len(s) => t # <<>>
<1> DEFINE t == SubSeq(s, k, Len(s))
<1>0. s \in Seq(Line) /\ Len(s) \in Nat
  BY LenProperties DEF IsLogUpTo
<1>1. /\ t \in Seq(Line)
      /\ Len(t) = IF k <= Len(s) THEN Len(s) - k + 1 ELSE 0
      /\ \A i \in 1 .. Len(s) - k + 1 : t[i] = s[k + i - 1]
  <2>1. \A i \in k .. Len(s) : s[i] \in Line
    BY <1>0, ElementOfSeq
  <2> QED
    BY <2>1, <1>0, SubSeqProperties
<1>4. (s = <<>> <=> Len(s) = 0) /\ (t = <<>> <=> Len(t) = 0)
  BY <1>0, <1>1, EmptySeq
<1> HIDE DEF t
<1>2. \A i \in 1 .. Len(t) : k + i - 1 \in 1 .. Len(s) /\ t[i] = s[k + i - 1]
  BY <1>0, <1>1
<1>3. IsLogUpTo(t, n)
  BY <1>1, <1>2 DEF IsLogUpTo
<1>5. t # <<>> => LastHash(t) = LastHash(s)
  BY <1>0, <1>1, <1>2, <1>4 DEF LastHash
<1>6. ASSUME ChainValid(s) PROVE ChainValid(t)
  <2> SUFFICES ASSUME NEW i \in 2 .. Len(t) PROVE t[i].prev = t[i - 1].id
    BY DEF ChainValid
  <2>1. k + i - 1 \in 2 .. Len(s) /\ t[i] = s[k + i - 1] /\ t[i - 1] = s[k + i - 2]
    <3>1. i \in 1 .. Len(t) /\ i - 1 \in 1 .. Len(t)
      BY <1>0, <1>1
    <3>2. k + (i - 1) - 1 = k + i - 2
      BY <1>0, <1>1
    <3> QED
      BY <3>1, <3>2, <1>0, <1>1, <1>2
  <2>2. (k + i - 1) - 1 = k + i - 2
    BY <1>0, <1>1
  <2> QED
    BY <2>1, <2>2, <1>6 DEF ChainValid
<1> QED
  BY <1>0, <1>1, <1>2, <1>3, <1>4, <1>5, <1>6 DEF t

\* The first lines of a log.
LEMMA FirstLinesAreLog ==
  ASSUME NEW n \in Nat, NEW s, IsLogUpTo(s, n), NEW k \in 0 .. Len(s)
  PROVE  /\ IsLogUpTo(SubSeq(s, 1, k), n) /\ Len(SubSeq(s, 1, k)) = k
         /\ k = Len(s) => SubSeq(s, 1, k) = s
<1>0. s \in Seq(Line) /\ Len(s) \in Nat
  BY LenProperties DEF IsLogUpTo
<1> DEFINE t == SubSeq(s, 1, k)
<1>1. \A j \in 1 .. k : s[j] \in Line
  BY <1>0, ElementOfSeq
<1>2. t \in Seq(Line) /\ Len(t) = k /\ \A j \in 1 .. k : t[j] = s[j]
  BY <1>1, <1>0, SubSeqProperties
<1>3. IsLogUpTo(t, n)
  BY <1>2, <1>0 DEF IsLogUpTo
<1>4. k = Len(s) => t = s
  BY <1>0, SubSeqFull
<1> QED
  BY <1>2, <1>3, <1>4

LEMMA WithoutALine ==
  ASSUME NEW n \in Nat, NEW s, IsLogUpTo(s, n), NEW i \in 2 .. Len(s) - 1
  PROVE  IsLogUpTo(SubSeq(s, 1, i - 1) \o SubSeq(s, i + 1, Len(s)), n)
<1>0. s \in Seq(Line) /\ Len(s) \in Nat
  BY LenProperties DEF IsLogUpTo
<1>1. IsLogUpTo(SubSeq(s, 1, i - 1), n)
  BY <1>0, FirstLinesAreLog
<1>2. IsLogUpTo(SubSeq(s, i + 1, Len(s)), n)
  BY <1>0, LastLines
<1> QED
  BY <1>1, <1>2, ConcatLog

-----------------------------------------------------------------------------
\* Types.
LEMMA EventsBornUpTo ==
  ASSUME NEW n \in Nat, NEW s, IsLogUpTo(s, n)
  PROVE  {s[i].id : i \in 1 .. Len(s)} \subseteq 1 .. n
<1>1. \A i \in 1 .. Len(s) : s[i] \in Line
  BY ElementOfSeq DEF IsLogUpTo
<1> QED
  BY <1>1 DEF IsLogUpTo, Line

LEMMA LoadedIsLog ==
  ASSUME TypeOK
  PROVE  /\ IsLogUpTo(LoadedEvents, created)
         /\ torn = 0 =>
              /\ LastHash(LoadedEvents) = LastHash(disk)
              /\ ChainValid(disk) => ChainValid(LoadedEvents)
              /\ \A i \in 1 .. Len(LoadedEvents) : \E j \in 1 .. Len(disk) : LoadedEvents[i] = disk[j]
<1> DEFINE k == IF Len(disk) > Window THEN Len(disk) - Window + 1 ELSE 1
<1>1. created \in Nat /\ IsLogUpTo(disk, created) /\ Len(disk) \in Nat
  BY IsLogIsUpTo, LenProperties DEF TypeOK, IsLogUpTo
<1>2. k \in Nat \ {0}
  BY <1>1, AuditAssumption
<1>3. Len(disk) # 0 => k <= Len(disk)
  BY <1>1, AuditAssumption
<1> DEFINE lines == SubSeq(disk, k, Len(disk))
<1>4. LoadedEvents \in {<<>>, lines} /\ (torn = 0 => LoadedEvents = lines)
  <2>1. LoadedEvents = IF torn \in 1 .. Window + 1 THEN <<>> ELSE lines
    BY DEF LoadedEvents
  <2> HIDE DEF lines
  <2> QED
    BY <2>1, AuditAssumption
<1>e. IsLogUpTo(<<>>, created)
  BY <1>1, EmptyLog
<1> HIDE DEF k
<1>5. /\ IsLogUpTo(lines, created)
      /\ lines # <<>> => LastHash(lines) = LastHash(disk)
      /\ ChainValid(disk) => ChainValid(lines)
      /\ \A i \in 1 .. Len(lines) : \E j \in 1 .. Len(disk) : lines[i] = disk[j]
      /\ k <= Len(disk) => lines # <<>>
  BY <1>1, <1>2, LastLines
<1>6. disk = <<>> <=> Len(disk) = 0
  BY <1>1, EmptySeq DEF IsLogUpTo
<1>7. lines = <<>> => LastHash(lines) = LastHash(disk)
  BY <1>3, <1>5, <1>6 DEF LastHash
<1> HIDE DEF lines
<1> QED
  BY <1>4, <1>5, <1>7, <1>e

LEMMA RetainedIsLog ==
  ASSUME TypeOK, NEW l \in Loggers
  PROVE  /\ IsLogUpTo(Retained(l), created)
         /\ Retained(l) # <<>> => LastHash(Retained(l)) = LastHash(events[l])
         /\ ChainValid(events[l]) => ChainValid(Retained(l))
         /\ \A i \in 1 .. Len(Retained(l)) :
              \E j \in 1 .. Len(events[l]) : Retained(l)[i] = events[l][j]
<1> DEFINE old == {i \in 1 .. Len(events[l]) : events[l][i].id <= expired}
           k == Cardinality(old) + 1
<1>1. created \in Nat /\ IsLogUpTo(events[l], created) /\ Len(events[l]) \in Nat
  BY IsLogIsUpTo, LenProperties DEF TypeOK, IsLogUpTo
<1>2. Cardinality(old) \in Nat
  <2>1. old \subseteq 1 .. Len(events[l])
    OBVIOUS
  <2>2. IsFiniteSet(1 .. Len(events[l]))
    BY <1>1, FS_Interval
  <2> QED
    BY <2>1, <2>2, FS_Subset, FS_CardinalityType
<1>3. Retained(l) = SubSeq(events[l], k, Len(events[l]))
  BY DEF Retained
<1>4. k \in Nat \ {0}
  BY <1>2
<1> DEFINE last == SubSeq(events[l], k, Len(events[l]))
<1> HIDE DEF k, old
<1>5. /\ IsLogUpTo(last, created)
      /\ last # <<>> => LastHash(last) = LastHash(events[l])
      /\ ChainValid(events[l]) => ChainValid(last)
      /\ \A i \in 1 .. Len(last) : \E j \in 1 .. Len(events[l]) : last[i] = events[l][j]
      /\ k <= Len(events[l]) => last # <<>>
  BY <1>1, <1>4, LastLines
<1>6. last = Retained(l)
  BY <1>3
<1> QED
  BY <1>5, <1>6

\* What an event that is logged, and the outcomes of _save_events, do to the types.
LEMMA ExtendedIsLog ==
  ASSUME NEW n \in Nat, IsLogUpTo(disk, n), torn \in Nat, NEW lines, IsLogUpTo(lines, n)
  PROVE  /\ IsLogUpTo(Extended(lines), n) /\ Behind(lines) \in Nat
         /\ torn = 0 => Extended(lines) = disk \o lines /\ Behind(lines) = 0
<1>1. lines \in Seq(Line) /\ Len(lines) \in Nat
  BY LenProperties DEF IsLogUpTo
<1>2. SubSeq(lines, 1, Len(lines)) = lines
  BY <1>1, SubSeqFull
<1>3. IsLogUpTo(SubSeq(lines, 2, Len(lines)), n)
  BY LastLines
<1>4. Behind(lines) \in Nat
  BY <1>1 DEF Behind
<1> DEFINE rest == SubSeq(lines, IF torn = 1 THEN 2 ELSE 1, Len(lines))
<1>5. rest = SubSeq(lines, 2, Len(lines)) \/ (torn # 1 /\ rest = lines)
  BY <1>2
<1>6. IsLogUpTo(rest, n)
  BY <1>3, <1>5
<1>7. Extended(lines) = disk \o rest /\ (torn = 0 => rest = lines)
  BY <1>2 DEF Extended
<1>8. torn = 0 => Behind(lines) = 0
  BY DEF Behind
<1> HIDE DEF rest
<1> QED
  BY <1>4, <1>6, <1>7, <1>8, ConcatLog

LEMMA SaveTypes ==
  ASSUME TypeOK, NEW l \in Loggers, NEW buffer, NEW n \in Nat, created <= n,
         IsLogUpTo(buffer, n), buffer # <<>>,
         Drop(l, buffer) \/ Write(l, buffer) \/ Keeps(l, buffer)
  PROVE  IsLogUpTo(disk', n) /\ discarded' \subseteq 1 .. n /\ FileOK'
<1>0. created \in Nat /\ IsLogUpTo(disk, created) /\ FileOK
  BY IsLogIsUpTo DEF TypeOK, FileOK
<1>1. created \in Nat /\ IsLogUpTo(disk, n) /\ FileOK
  BY <1>0, LogGrows
<1>2. discarded \subseteq 1 .. n
  BY <1>1 DEF TypeOK
<1>3. CASE Drop(l, buffer)
  BY <1>1, <1>2, <1>3, EventsBornUpTo DEF Drop, jsonl, FileOK
<1>4. CASE Write(l, buffer)
  <2>1. IsLogUpTo(Extended(buffer), n) /\ Behind(buffer) \in Nat
        /\ (torn = 0 => Behind(buffer) = 0)
    BY <1>1, ExtendedIsLog DEF FileOK
  <2> QED
    BY <1>1, <1>2, <1>4, <2>1 DEF Write, FileOK
<1>5. CASE Fail(l, buffer)
  BY <1>1, <1>2, <1>5 DEF Fail, history, jsonl, FileOK
<1>6. CASE BreakOff(l, buffer)
  <2>1. PICK k \in 0 .. Len(buffer) - 1 : disk' = Extended(SubSeq(buffer, 1, k))
    BY <1>6 DEF BreakOff
  <2>2. k \in 0 .. Len(buffer)
    BY LenProperties DEF IsLogUpTo
  <2>3. IsLogUpTo(SubSeq(buffer, 1, k), n)
    BY <2>2, FirstLinesAreLog
  <2>4. IsLogUpTo(Extended(SubSeq(buffer, 1, k)), n)
    BY <1>1, <2>3, ExtendedIsLog DEF FileOK
  <2> QED
    BY <1>1, <1>2, <1>6, <2>1, <2>4 DEF BreakOff, FileOK
<1> QED
  BY <1>3, <1>4, <1>5, <1>6 DEF Keeps

LEMMA RecordTypes ==
  ASSUME TypeOK, NEW l \in Loggers, NEW log, IsLogUpTo(log, created), Record(l, log)
  PROVE  /\ created' = created + 1 /\ created' \in 1 .. MaxEvents
         /\ IsLog(disk)' /\ discarded' \subseteq 1 .. created'
         /\ FileOK'
         /\ DOMAIN events' = Loggers /\ DOMAIN unflushed' = Loggers
         /\ \A k \in Loggers : IsLog(events[k])' /\ IsLog(unflushed[k])'
<1> DEFINE e == NewEvent(log)
           buffer == Append(unflushed[l], e)
<1>1. created \in Nat /\ created' = created + 1 /\ created' \in 1 .. MaxEvents
  BY AuditAssumption DEF TypeOK, Record
<1>2. e = [id |-> created + 1, prev |-> LastHash(log)] /\ LastHash(log) \in 0 .. created
  BY <1>1, LastHashBounded DEF NewEvent
<1>3. IsLogUpTo(Append(log, e), created + 1)
  BY <1>1, <1>2, AppendLog
<1>4. IsLogUpTo(unflushed[l], created)
  BY IsLogIsUpTo DEF TypeOK
<1>5. IsLogUpTo(buffer, created + 1) /\ buffer # <<>>
  BY <1>1, <1>2, <1>4, AppendLog
<1>6. events' = [events EXCEPT ![l] = Append(log, e)]
  BY DEF Record
<1>7. /\ Drop(l, buffer) \/ Write(l, buffer) \/ Keeps(l, buffer)
      /\ \E u \in {<<>>, buffer} : unflushed' = [unflushed EXCEPT ![l] = u]
  BY DEF Record, Save
<1> HIDE DEF e, buffer
<1>8. IsLogUpTo(disk', created + 1) /\ discarded' \subseteq 1 .. created + 1
      /\ FileOK'
  BY <1>1, <1>5, <1>7, SaveTypes
<1>9. ASSUME NEW k \in Loggers
      PROVE  IsLogUpTo(events'[k], created + 1) /\ IsLogUpTo(unflushed'[k], created + 1)
  <2>1. IsLogUpTo(events[k], created + 1) /\ IsLogUpTo(unflushed[k], created + 1)
    BY <1>1, IsLogIsUpTo, LogGrows DEF TypeOK
  <2>2. IsLogUpTo(<<>>, created + 1)
    BY <1>1, EmptyLog
  <2> QED
    BY <2>1, <2>2, <1>3, <1>5, <1>6, <1>7 DEF TypeOK
<1> QED
  BY <1>1, <1>6, <1>7, <1>8, <1>9 DEF TypeOK, IsLog, IsLogUpTo, Line

\* Every step keeps the types, whether loggers share the file or not.
LEMMA TypeOKStep == TypeOK /\ [Next]_vars => TypeOK'
<1> SUFFICES ASSUME TypeOK, [Next]_vars PROVE TypeOK'
  OBVIOUS
<1>0. /\ FileOK /\ created \in Nat /\ IsLogUpTo(disk, created) /\ IsLogUpTo(<<>>, created)
      /\ \A l \in Loggers : IsLogUpTo(events[l], created) /\ IsLogUpTo(unflushed[l], created)
  BY IsLogIsUpTo, EmptyLog DEF TypeOK, FileOK
<1>1. ASSUME NEW l \in Loggers, Open(l)
      PROVE  TypeOK'
  BY <1>0, <1>1, LoadedIsLog, RecordTypes DEF Open, TypeOK, FileOK
<1>2. ASSUME NEW l \in Loggers, Log(l)
      PROVE  TypeOK'
  BY <1>0, <1>2, RecordTypes DEF Log, TypeOK, FileOK
<1>3. ASSUME NEW l \in Loggers, SetMemoryOnly(l)
      PROVE  TypeOK'
  BY <1>3 DEF SetMemoryOnly, history, jsonl, TypeOK, IsLog
<1>4. ASSUME NEW l \in Loggers, Exit(l)
      PROVE  TypeOK'
  <2>1. /\ IsLogUpTo(disk', created) /\ discarded' \subseteq 1 .. created
        /\ FileOK'
    BY <1>0, <1>4, SaveTypes DEF Exit
  <2>2. \A k \in Loggers : /\ events'[k] \in {events[k], <<>>}
                           /\ unflushed'[k] \in {unflushed[k], <<>>}
    BY <1>4 DEF Exit, Forget, TypeOK
  <2> QED
    BY <1>0, <1>4, <2>1, <2>2 DEF Exit, Forget, FileOK, TypeOK, IsLog, IsLogUpTo, Line
<1>5. ASSUME NEW l \in Loggers, Crash(l)
      PROVE  TypeOK'
  <2>1. \A k \in Loggers : /\ events'[k] \in {events[k], <<>>}
                           /\ unflushed'[k] \in {unflushed[k], <<>>}
    BY <1>5 DEF Crash, Forget, TypeOK
  <2> QED
    BY <1>0, <1>5, <2>1 DEF Crash, Forget, history, jsonl, TypeOK, IsLog, IsLogUpTo, Line
<1>6. ASSUME NEW l \in Loggers, Cleanup(l)
      PROVE  TypeOK'
  <2>1. IsLogUpTo(Retained(l), created)
    BY RetainedIsLog
  <2>2. \A k \in Loggers : /\ events'[k] \in {events[k], Retained(l)}
                           /\ unflushed'[k] \in {unflushed[k], <<>>}
    BY <1>6 DEF Cleanup, TypeOK
  <2>3. FileOK'
    BY <1>0, <1>6 DEF Cleanup, FileOK
  <2>4. discarded' \subseteq 1 .. created
    BY <1>0, <1>6 DEF Cleanup, TypeOK
  <2> QED
    BY <1>0, <1>6, <2>1, <2>2, <2>3, <2>4 DEF Cleanup, FileOK, TypeOK, IsLog, IsLogUpTo, Line
<1>7. ASSUME NEW l \in Loggers, CleanupFails(l)
      PROVE  TypeOK'
  <2>1. IsLogUpTo(Retained(l), created)
    BY RetainedIsLog
  <2>2. \A k \in Loggers : events'[k] \in {events[k], Retained(l)}
    BY <1>7 DEF CleanupFails, TypeOK
  <2> QED
    BY <1>0, <1>7, <2>1, <2>2 DEF CleanupFails, FileOK, jsonl, TypeOK, IsLog, IsLogUpTo, Line
<1>11. ASSUME NEW l \in Loggers, CleanupBreaksOff(l)
       PROVE  TypeOK'
  <2>1. IsLogUpTo(Retained(l), created) /\ Len(Retained(l)) \in Nat
    BY RetainedIsLog, LenProperties DEF IsLogUpTo
  <2>2. \A k \in Loggers : events'[k] \in {events[k], Retained(l)}
    BY <1>11 DEF CleanupBreaksOff, TypeOK
  <2>3. PICK n \in 0 .. Len(Retained(l)) - 1 : disk' = SubSeq(Retained(l), 1, n)
    BY <1>11 DEF CleanupBreaksOff
  <2>4. IsLogUpTo(disk', created)
    <3> DEFINE kept == Retained(l)
    <3>1. n \in 0 .. Len(kept) /\ IsLogUpTo(kept, created) /\ disk' = SubSeq(kept, 1, n)
      BY <2>1, <2>3
    <3> HIDE DEF kept
    <3> QED
      BY <1>0, <3>1, FirstLinesAreLog
  <2>5. FileOK'
    BY <1>11 DEF CleanupBreaksOff, FileOK
  <2> QED
    BY <1>0, <1>11, <2>1, <2>2, <2>4, <2>5
    DEF CleanupBreaksOff, FileOK, TypeOK, IsLog, IsLogUpTo, Line
<1>8. CASE Age
  BY <1>0, <1>8 DEF Age, history, jsonl, TypeOK, IsLog
<1>9. CASE LoseLine
  <2>1. PICK i \in 2 .. Len(disk) - 1 :
          disk' = SubSeq(disk, 1, i - 1) \o SubSeq(disk, i + 1, Len(disk))
    BY <1>9 DEF LoseLine
  <2>2. IsLogUpTo(disk', created)
    BY <1>0, <2>1, WithoutALine
  <2> QED
    BY <1>0, <1>9, <2>2 DEF LoseLine, FileOK, TypeOK, IsLog, IsLogUpTo, Line
<1>10. CASE UNCHANGED vars
  BY <1>10 DEF vars, history, jsonl, TypeOK, IsLog
<1> QED
  BY <1>1, <1>2, <1>3, <1>4, <1>5, <1>6, <1>7, <1>8, <1>9, <1>10, <1>11 DEF Next

\* Type correctness: every log holds events in the order of their links.
THEOREM TypeCorrect == Spec => []TypeOK
<1>1. Init => TypeOK
  BY EmptyLog, IsLogIsUpTo, AuditAssumption DEF Init, TypeOK
<1> QED
  BY <1>1, TypeOKStep, PTL DEF Spec

-----------------------------------------------------------------------------
(***************************************************************************)
(* The chain, while there is at most one logger at a time.                 *)
(***************************************************************************)
Alone == \A l, k \in alive : l = k

\* A logger that does not exist holds nothing.
Fresh == \A l \in Loggers \ alive : events[l] = <<>> /\ unflushed[l] = <<>>

\* What a logger will write next goes on from the file, or is linked to an
\* event that was dropped.
GoesOn(log, buffer) ==
  /\ ChainValid(log) /\ ChainValid(buffer)
  /\ buffer # <<>> => LastHash(log) = LastHash(buffer)
  /\ disk # <<>> => Link(log, buffer) \in {LastHash(disk)} \cup discarded

ChainGoesOn ==
  lost = "no" => /\ ChainValid(disk)
                 /\ \A l \in alive : GoesOn(events[l], unflushed[l])

ChainInv == TypeOK /\ Alone /\ Fresh /\ ChainGoesOn

\* Writing a buffer: the chain goes on, or the gap is noted.
LEMMA WriteGoesOn ==
  ASSUME TypeOK, NEW l \in Loggers, NEW log, NEW buffer, NEW n \in Nat, created <= n,
         IsLogUpTo(buffer, n), buffer # <<>>,
         GoesOn(log, buffer), ChainValid(disk), Write(l, buffer), lost' = "no"
  PROVE  ChainValid(disk') /\ LastHash(disk') = LastHash(buffer)
<1>0. created \in Nat /\ IsLogUpTo(disk, created)
  BY IsLogIsUpTo DEF TypeOK
<1>1. IsLogUpTo(disk, n)
  BY <1>0, LogGrows
<1>2. disk' = disk \o buffer /\ ~(disk # <<>> /\ buffer[1].prev \in discarded)
  <2>1. lost # "broken"
    BY DEF Write
  <2>2. torn = 0
    BY <2>1 DEF TypeOK
  <2> QED
    BY <1>1, <2>1, <2>2, ExtendedIsLog DEF Write
<1>3. disk # <<>> => buffer[1].prev = LastHash(disk)
  BY <1>2 DEF GoesOn, Link
<1>4. ChainValid(buffer)
  BY DEF GoesOn
<1> QED
  BY <1>1, <1>2, <1>3, <1>4, ConcatLog

\* Logging an event, whether the buffer is dropped, written or kept.
LEMMA RecordGoesOn ==
  ASSUME TypeOK, NEW l \in Loggers, NEW log, IsLogUpTo(log, created),
         GoesOn(log, unflushed[l]), ChainValid(disk), Record(l, log), lost' = "no"
  PROVE  ChainValid(disk') /\ GoesOn(events[l], unflushed[l])'
<1> DEFINE e == NewEvent(log)
           buffer == Append(unflushed[l], e)
           newLog == Append(log, e)
<1>1. /\ created \in Nat
      /\ e = [id |-> created + 1, prev |-> LastHash(log)] /\ LastHash(log) \in 0 .. created
      /\ IsLogUpTo(unflushed[l], created)
  BY LastHashBounded, IsLogIsUpTo DEF NewEvent, TypeOK
<1>2. ChainValid(log) /\ ChainValid(unflushed[l])
      /\ (unflushed[l] # <<>> => LastHash(log) = LastHash(unflushed[l]))
  BY DEF GoesOn
<1>3. ChainValid(newLog) /\ LastHash(newLog) = created + 1
  BY <1>1, <1>2, AppendLog
<1>4. /\ IsLogUpTo(buffer, created + 1) /\ buffer # <<>>
      /\ ChainValid(buffer) /\ LastHash(buffer) = created + 1
      /\ buffer[1].prev = IF unflushed[l] = <<>> THEN LastHash(log) ELSE unflushed[l][1].prev
  BY <1>1, <1>2, AppendLog
<1>5. events'[l] = newLog
  BY DEF Record, TypeOK
<1>6. \/ Drop(l, buffer) /\ unflushed'[l] = <<>>
      \/ Write(l, buffer) /\ unflushed'[l] = <<>>
      \/ Fail(l, buffer) /\ unflushed'[l] = buffer
  BY DEF Record, Save, Keeps, BreakOff, TypeOK
<1> HIDE DEF e, buffer, newLog
<1>7. GoesOn(newLog, buffer)
  BY <1>3, <1>4 DEF GoesOn, Link
<1>8. ChainValid(<<>>)
  BY EmptyLog
<1>9. CASE Drop(l, buffer) /\ unflushed'[l] = <<>>
  <2>1. created + 1 \in discarded'
    <3>1. Len(buffer) \in 1 .. Len(buffer) /\ buffer[Len(buffer)].id = created + 1
      BY <1>4, EmptySeq DEF IsLogUpTo, LastHash
    <3> QED
      BY <1>9, <3>1 DEF Drop
  <2> QED
    BY <1>3, <1>5, <1>8, <1>9, <2>1 DEF Drop, jsonl, GoesOn, Link
<1>10. CASE Write(l, buffer) /\ unflushed'[l] = <<>>
  <2>1. ChainValid(disk') /\ LastHash(disk') = created + 1
    BY <1>1, <1>4, <1>7, <1>10, WriteGoesOn
  <2> QED
    BY <1>3, <1>5, <1>8, <1>10, <2>1 DEF GoesOn, Link
<1>11. CASE Fail(l, buffer) /\ unflushed'[l] = buffer
  BY <1>5, <1>7, <1>11 DEF Fail, history, jsonl, GoesOn
<1> QED
  BY <1>6, <1>9, <1>10, <1>11

\* At most one logger exists, and the others hold nothing.
LEMMA AloneStep ==
  ASSUME ~Sharing, TypeOK, Alone, Fresh, [Next]_vars
  PROVE  Alone' /\ Fresh'
<1>1. ASSUME NEW l \in Loggers, Open(l)
      PROVE  Alone' /\ Fresh'
  <2>1. alive' = {l}
    BY <1>1 DEF Open
  <2>2. \A k \in Loggers \ {l} : events'[k] = events[k] /\ unflushed'[k] = unflushed[k]
    BY <1>1 DEF Open, Record, Save, TypeOK
  <2>3. alive = {}
    BY <1>1 DEF Open
  <2> QED
    BY <2>1, <2>2, <2>3 DEF Alone, Fresh
<1>2. ASSUME NEW l \in Loggers, Log(l)
      PROVE  Alone' /\ Fresh'
  <2>1. \A k \in Loggers \ {l} : events'[k] = events[k] /\ unflushed'[k] = unflushed[k]
    BY <1>2 DEF Log, Record, Save, TypeOK
  <2> QED
    BY <1>2, <2>1 DEF Log, Alone, Fresh
<1>3. ASSUME NEW l \in Loggers, Exit(l) \/ Crash(l)
      PROVE  Alone' /\ Fresh'
  <2>1. Forget(l)
    BY <1>3 DEF Exit, Crash
  <2> QED
    BY <2>1 DEF Forget, Alone, Fresh, TypeOK
<1>4. ASSUME NEW l \in Loggers,
             SetMemoryOnly(l) \/ Cleanup(l) \/ CleanupFails(l) \/ CleanupBreaksOff(l)
      PROVE  Alone' /\ Fresh'
  BY <1>4 DEF SetMemoryOnly, Cleanup, CleanupFails, CleanupBreaksOff, Alone, Fresh, TypeOK
<1>5. CASE Age \/ LoseLine \/ UNCHANGED vars
  BY <1>5 DEF Age, LoseLine, vars, Alone, Fresh
<1> QED
  BY <1>1, <1>2, <1>3, <1>4, <1>5 DEF Next

\* Every step of a logger on its own goes on with the chain.
LEMMA ChainGoesOnStep ==
  ASSUME ~Sharing, ChainInv, [Next]_vars
  PROVE  ChainGoesOn'
<1> SUFFICES ASSUME lost' = "no"
             PROVE  ChainValid(disk') /\ \A k \in alive' : GoesOn(events[k], unflushed[k])'
  BY DEF ChainGoesOn
<1>0. TypeOK /\ Alone /\ Fresh /\ alive \subseteq Loggers
  BY DEF ChainInv, TypeOK
<1>a. lost = "no" => ChainValid(disk) /\ \A k \in alive : GoesOn(events[k], unflushed[k])
  BY DEF ChainInv, ChainGoesOn
<1>1. ASSUME NEW l \in Loggers, Open(l)
      PROVE  ChainValid(disk') /\ \A k \in alive' : GoesOn(events[k], unflushed[k])'
  <2>1. alive' = {l} /\ unflushed[l] = <<>> /\ Record(l, LoadedEvents)
    BY <1>0, <1>1 DEF Open, Fresh
  <2>2. lost = "no"
    BY <2>1 DEF Record, Save, Drop, Write, Keeps, Fail, BreakOff, history, jsonl
  <2>3. GoesOn(LoadedEvents, unflushed[l])
    <3>1. torn = 0
      BY <1>0, <2>2 DEF TypeOK
    <3> QED
      BY <1>0, <1>a, <2>1, <2>2, <3>1, LoadedIsLog, EmptyLog DEF GoesOn, Link
  <2> QED
    BY <1>0, <1>a, <2>1, <2>2, <2>3, LoadedIsLog, RecordGoesOn
<1>2. ASSUME NEW l \in Loggers, Log(l)
      PROVE  ChainValid(disk') /\ \A k \in alive' : GoesOn(events[k], unflushed[k])'
  <2>1. \A k \in alive' : k = l
    BY <1>0, <1>2 DEF Log, Alone
  <2>2. l \in alive /\ Record(l, events[l])
    BY <1>2 DEF Log
  <2>3. lost = "no"
    BY <2>2 DEF Record, Save, Drop, Write, Keeps, Fail, BreakOff, history, jsonl
  <2>4. IsLogUpTo(events[l], created)
    BY <1>0, IsLogIsUpTo DEF TypeOK
  <2> QED
    BY <1>0, <1>a, <2>1, <2>2, <2>3, <2>4, RecordGoesOn
<1>3. ASSUME NEW l \in Loggers, Exit(l)
      PROVE  ChainValid(disk') /\ \A k \in alive' : GoesOn(events[k], unflushed[k])'
  <2>1. l \in alive /\ alive' = {}
    BY <1>0, <1>3 DEF Exit, Forget, Alone
  <2>2. lost = "no"
    BY <1>3 DEF Exit, Drop, Write, Keeps, Fail, BreakOff, history, jsonl
  <2>3. ChainValid(disk) /\ GoesOn(events[l], unflushed[l])
    BY <1>a, <2>1, <2>2
  <2>4. CASE Write(l, unflushed[l])
    <3>1. IsLogUpTo(unflushed[l], created) /\ unflushed[l] # <<>> /\ created \in Nat
      BY <1>0, <1>3, IsLogIsUpTo DEF TypeOK, Exit
    <3> QED
      BY <1>0, <2>1, <2>3, <2>4, <3>1, WriteGoesOn
  <2> QED
    BY <1>3, <2>1, <2>3, <2>4 DEF Exit, Drop, Keeps, Fail, BreakOff, jsonl
<1>4. ASSUME NEW l \in Loggers, Crash(l)
      PROVE  ChainValid(disk') /\ \A k \in alive' : GoesOn(events[k], unflushed[k])'
  BY <1>0, <1>4, <1>a DEF Crash, Forget, Alone, history, jsonl
<1>5. ASSUME NEW l \in Loggers, SetMemoryOnly(l)
      PROVE  ChainValid(disk') /\ \A k \in alive' : GoesOn(events[k], unflushed[k])'
  BY <1>5, <1>a DEF SetMemoryOnly, history, jsonl, GoesOn
<1>6. ASSUME NEW l \in Loggers, Cleanup(l)
      PROVE  ChainValid(disk') /\ \A k \in alive' : GoesOn(events[k], unflushed[k])'
  <2>1. /\ \A k \in alive' : k = l
        /\ disk' = Retained(l) /\ events'[l] = Retained(l) /\ unflushed'[l] = <<>>
    BY <1>0, <1>6 DEF Cleanup, Alone, TypeOK
  <2>2. l \in alive /\ lost = "no"
    BY <1>6 DEF Cleanup
  <2>3. ChainValid(Retained(l))
    BY <1>0, <1>a, <2>2, RetainedIsLog DEF GoesOn
  <2> QED
    BY <2>1, <2>3, EmptyLog DEF GoesOn, Link
<1>7. ASSUME NEW l \in Loggers, CleanupFails(l)
      PROVE  ChainValid(disk') /\ \A k \in alive' : GoesOn(events[k], unflushed[k])'
  <2>1. /\ \A k \in alive' : k = l
        /\ events'[l] = Retained(l) /\ UNCHANGED <<disk, unflushed, discarded>>
    BY <1>0, <1>7 DEF CleanupFails, jsonl, Alone, TypeOK
  <2>2. l \in alive /\ lost = "no" /\ (Retained(l) # <<>> \/ disk \o unflushed[l] = <<>>)
    BY <1>7 DEF CleanupFails
  <2>3. /\ ChainValid(disk) /\ GoesOn(events[l], unflushed[l])
        /\ ChainValid(Retained(l))
        /\ Retained(l) # <<>> => LastHash(Retained(l)) = LastHash(events[l])
    BY <1>0, <1>a, <2>2, RetainedIsLog DEF GoesOn
  <2>4. disk \o unflushed[l] = <<>> => disk = <<>> /\ unflushed[l] = <<>>
    <3>1. disk \in Seq(Line) /\ unflushed[l] \in Seq(Line)
      BY <1>0, IsLogIsUpTo DEF TypeOK, IsLogUpTo
    <3> QED
      BY <3>1, ConcatEqualIffEmpty
  <2> QED
    BY <2>1, <2>2, <2>3, <2>4 DEF GoesOn, Link
<1>8. CASE Age \/ UNCHANGED vars
  BY <1>8, <1>a DEF Age, vars, history, jsonl, GoesOn
<1>9. CASE LoseLine \/ \E l \in Loggers : CleanupBreaksOff(l)
  BY <1>9 DEF LoseLine, CleanupBreaksOff
<1> QED
  BY <1>1, <1>2, <1>3, <1>4, <1>5, <1>6, <1>7, <1>8, <1>9 DEF Next

LEMMA InitChainInv == Init => ChainInv
<1>1. Init => TypeOK
  BY EmptyLog, IsLogIsUpTo, AuditAssumption DEF Init, TypeOK
<1> QED
  BY <1>1, EmptyLog DEF Init, ChainInv, Alone, Fresh, ChainGoesOn

\* The inductive invariant, for loggers that live one after the other.
THEOREM ChainInvariance == ASSUME ~Sharing PROVE Spec => []ChainInv
<1>1. ChainInv /\ [Next]_vars => ChainInv'
  BY TypeOKStep, AloneStep, ChainGoesOnStep DEF ChainInv
<1> QED
  BY <1>1, InitChainInv, PTL DEF Spec

\* One logger after the other leaves a chain that verifies: failed writes made
\* up for later, crashes, restarts and cleanups do not break it.
THEOREM ChainStaysIntact == ASSUME ~Sharing PROVE Spec => []ChainIntact
<1>1. ChainInv => ChainIntact
  BY DEF ChainInv, ChainGoesOn, ChainIntact
<1> QED
  BY <1>1, ChainInvariance, PTL

-----------------------------------------------------------------------------
(***************************************************************************)
(* No event slips away.                                                    *)
(***************************************************************************)
\* An event that was dropped on purpose, is in the file or waits to be written.
Stored(x, l) ==
  \/ x.id \in discarded
  \/ \E j \in 1 .. Len(disk) : disk[j] = x
  \/ \E j \in 1 .. Len(unflushed[l]) : unflushed[l][j] = x

\* Logging an event stores it, and leaves stored what was.
LEMMA RecordStores ==
  ASSUME TypeOK, NEW l \in Loggers, NEW log, IsLogUpTo(log, created), Record(l, log),
         \A i \in 1 .. Len(log) : Stored(log[i], l), lost' = "no",
         NEW i \in 1 .. Len(events'[l])
  PROVE  Stored(events[l][i], l)'
<1> DEFINE e == NewEvent(log)
           buffer == Append(unflushed[l], e)
<1>1. /\ unflushed[l] \in Seq(Line) /\ log \in Seq(Line) /\ disk \in Seq(Line)
      /\ IsLogUpTo(buffer, created + 1) /\ e \in Line
  <2>1. /\ created \in Nat /\ IsLogUpTo(unflushed[l], created) /\ IsLogUpTo(disk, created)
        /\ e = [id |-> created + 1, prev |-> LastHash(log)] /\ LastHash(log) \in 0 .. created
    BY LastHashBounded, IsLogIsUpTo DEF NewEvent, TypeOK
  <2>2. IsLogUpTo(buffer, created + 1)
    BY <2>1, AppendLog
  <2>3. e \in Line
    BY <2>1 DEF Line
  <2> HIDE DEF e, buffer
  <2> QED
    BY <2>1, <2>2, <2>3 DEF IsLogUpTo
<1>2. events'[l] = Append(log, e)
  BY DEF Record, TypeOK
<1>3. \/ Drop(l, buffer) /\ unflushed'[l] = <<>>
      \/ Write(l, buffer) /\ unflushed'[l] = <<>>
      \/ Fail(l, buffer) /\ unflushed'[l] = buffer
  BY DEF Record, Save, Keeps, BreakOff, TypeOK
<1> DEFINE x == events'[l][i]
<1>4. \/ x.id \in discarded
      \/ \E j \in 1 .. Len(disk) : disk[j] = x
      \/ \E j \in 1 .. Len(buffer) : buffer[j] = x
  <2>1. /\ Len(unflushed[l]) \in Nat /\ Len(log) \in Nat
        /\ Len(buffer) = Len(unflushed[l]) + 1 /\ buffer[Len(unflushed[l]) + 1] = e
        /\ \A j \in 1 .. Len(unflushed[l]) : buffer[j] = unflushed[l][j]
        /\ Len(events'[l]) = Len(log) + 1 /\ events'[l][Len(log) + 1] = e
        /\ \A j \in 1 .. Len(log) : events'[l][j] = log[j]
    BY <1>1, <1>2, AppendProperties, LenProperties
  <2>2. CASE i = Len(log) + 1
    <3>1. x = buffer[Len(buffer)] /\ Len(buffer) \in 1 .. Len(buffer)
      BY <2>1, <2>2
    <3> QED
      BY <3>1
  <2>3. CASE i \in 1 .. Len(log)
    <3>1. Stored(log[i], l) /\ x = log[i]
      BY <2>1, <2>3
    <3>2. \A j \in 1 .. Len(unflushed[l]) : j \in 1 .. Len(buffer) /\ buffer[j] = unflushed[l][j]
      BY <2>1
    <3> QED
      BY <3>1, <3>2 DEF Stored
  <2> QED
    BY <2>1, <2>2, <2>3
<1> HIDE DEF e, buffer, x
<1>5. CASE Drop(l, buffer)
  <2>1. /\ disk' = disk /\ discarded \subseteq discarded'
        /\ \A j \in 1 .. Len(buffer) : buffer[j].id \in discarded'
    BY <1>5 DEF Drop, jsonl
  <2> QED
    BY <1>4, <2>1 DEF Stored, x
<1>6. CASE Write(l, buffer)
  <2>1. discarded' = discarded /\ disk' = disk \o buffer
    <3>1. created \in Nat /\ IsLogUpTo(disk, created)
      BY IsLogIsUpTo DEF TypeOK
    <3>n. PICK n \in Nat : n = created + 1
      BY <3>1
    <3>2. IsLogUpTo(disk, n) /\ IsLogUpTo(buffer, n) /\ torn \in Nat
      BY <1>1, <3>1, <3>n, LogGrows DEF TypeOK
    <3>3. discarded' = discarded /\ disk' = Extended(buffer) /\ lost # "broken"
      BY <1>6 DEF Write
    <3>4. torn = 0
      BY <3>3 DEF TypeOK
    <3>5. disk \o buffer = Extended(buffer)
      BY <3>2, <3>4, ExtendedIsLog
    <3> QED
      BY <3>3, <3>5
  <2>2. /\ Len(disk) \in Nat /\ Len(buffer) \in Nat /\ Len(disk') = Len(disk) + Len(buffer)
        /\ \A j \in 1 .. Len(disk) + Len(buffer) :
              disk'[j] = IF j <= Len(disk) THEN disk[j] ELSE buffer[j - Len(disk)]
    BY <1>1, <2>1, ConcatProperties, LenProperties DEF IsLogUpTo
  <2>3. \A j \in 1 .. Len(disk) : j \in 1 .. Len(disk') /\ disk'[j] = disk[j]
    BY <2>2
  <2>4. \A j \in 1 .. Len(buffer) : /\ Len(disk) + j \in 1 .. Len(disk')
                                     /\ disk'[Len(disk) + j] = buffer[j]
    <3> TAKE j \in 1 .. Len(buffer)
    <3>1. /\ Len(disk) + j \in 1 .. Len(disk) + Len(buffer)
          /\ ~(Len(disk) + j <= Len(disk)) /\ (Len(disk) + j) - Len(disk) = j
      BY <2>2
    <3> QED
      BY <2>2, <3>1
  <2> QED
    BY <1>4, <2>1, <2>3, <2>4 DEF Stored, x
<1>7. CASE Fail(l, buffer) /\ unflushed'[l] = buffer
  BY <1>4, <1>7 DEF Fail, history, jsonl, Stored, x
<1> QED
  BY <1>3, <1>5, <1>6, <1>7

LEMMA NothingSlipsStep ==
  ASSUME ~Sharing, TypeOK, Alone, NothingSlips, [Next]_vars
  PROVE  NothingSlips'
<1> SUFFICES ASSUME NEW k \in alive', NEW i \in 1 .. Len(events'[k]), lost' = "no"
             PROVE  Stored(events[k][i], k)'
  BY DEF NothingSlips, Stored
<1>0. alive \subseteq Loggers
  BY DEF TypeOK
<1>a. ASSUME lost = "no", NEW l \in alive, NEW j \in 1 .. Len(events[l])
      PROVE  Stored(events[l][j], l)
  BY <1>a DEF NothingSlips, Stored
<1>1. ASSUME NEW l \in Loggers, Open(l)
      PROVE  Stored(events[k][i], k)'
  <2>1. k = l /\ Record(l, LoadedEvents)
    BY <1>1 DEF Open
  <2>2. lost # "broken"
    BY <2>1 DEF Record, Save, Drop, Write, Keeps, Fail, BreakOff, history
  <2>3. torn = 0
    BY <2>2 DEF TypeOK
  <2>4. IsLogUpTo(LoadedEvents, created)
        /\ \A j \in 1 .. Len(LoadedEvents) : Stored(LoadedEvents[j], l)
    BY <2>3, LoadedIsLog DEF Stored
  <2> QED
    BY <2>1, <2>4, RecordStores
<1>2. ASSUME NEW l \in Loggers, Log(l)
      PROVE  Stored(events[k][i], k)'
  <2>1. k = l /\ l \in alive /\ Record(l, events[l])
    BY <1>2 DEF Log, Alone
  <2>2. lost = "no"
    BY <2>1 DEF Record, Save, Drop, Write, Keeps, Fail, BreakOff, history, jsonl
  <2>3. IsLogUpTo(events[l], created)
    BY IsLogIsUpTo DEF TypeOK
  <2> QED
    BY <1>a, <2>1, <2>2, <2>3, RecordStores
<1>3. ASSUME NEW l \in Loggers, Exit(l) \/ Crash(l)
      PROVE  Stored(events[k][i], k)'
  BY <1>3 DEF Exit, Crash, Forget, Alone
<1>4. ASSUME NEW l \in Loggers, Cleanup(l)
      PROVE  Stored(events[k][i], k)'
  <2>1. k = l /\ events'[k] = disk'
    BY <1>0, <1>4 DEF Cleanup, Alone, TypeOK
  <2> QED
    BY <2>1 DEF Stored
<1>5. ASSUME NEW l \in Loggers, CleanupFails(l)
      PROVE  Stored(events[k][i], k)'
  <2>1. /\ k = l /\ l \in alive /\ lost = "no" /\ events'[l] = Retained(l)
        /\ UNCHANGED <<disk, unflushed, discarded>>
    BY <1>0, <1>5 DEF CleanupFails, jsonl, Alone, TypeOK
  <2>2. PICK j \in 1 .. Len(events[l]) : events'[l][i] = events[l][j]
    BY <2>1, RetainedIsLog
  <2> QED
    BY <1>a, <2>1, <2>2 DEF Stored
<1>6. CASE (\E l \in Loggers : SetMemoryOnly(l)) \/ Age \/ UNCHANGED vars
  <2>1. UNCHANGED <<disk, events, unflushed, alive, discarded, lost>>
    BY <1>6 DEF SetMemoryOnly, Age, vars, history, jsonl
  <2> QED
    BY <1>a, <2>1 DEF Stored
<1>7. CASE LoseLine \/ \E l \in Loggers : CleanupBreaksOff(l)
  BY <1>7 DEF LoseLine, CleanupBreaksOff
<1> QED
  BY <1>1, <1>2, <1>3, <1>4, <1>5, <1>6, <1>7 DEF Next

\* Neither a failed write nor a cleanup, a restart or a phase without files
\* makes an event disappear from memory and file alike.
THEOREM NothingSlipsAway == ASSUME ~Sharing PROVE Spec => []NothingSlips
<1>1. Init => NothingSlips
  BY DEF Init, NothingSlips
<1>2. ChainInv /\ NothingSlips /\ [Next]_vars => NothingSlips'
  BY NothingSlipsStep DEF ChainInv
<1> QED
  BY <1>1, <1>2, ChainInvariance, PTL DEF Spec

-----------------------------------------------------------------------------
(***************************************************************************)
(* A gap stays noticeable.                                                 *)
(***************************************************************************)
\* Ids grow along a log, and a line that is linked to an earlier one follows it
\* at once: no later line closes a gap.
Linear(s) ==
  /\ \A i, j \in 1 .. Len(s) : i < j => s[i].id < s[j].id
  /\ \A i, j \in 1 .. Len(s) : i < j /\ s[j].prev = s[i].id => j = i + 1

\* No line of s has one of the ids.
Apart(s, ids) == \A i \in 1 .. Len(s) : s[i].id \notin ids

\* What is linked to h is linked to the last line of s or to none of it.
Ends(s, h) == \A i \in 1 .. Len(s) : s[i].id = h => i = Len(s)

\* The file as it will be when the logger has written what waits.
File(l) == disk \o unflushed[l]

\* No line of the file was dropped, nor is one that waits, and what is logged
\* next goes on from the last of them or leaves a gap.
GapInv ==
  lost # "broken" =>
    /\ Linear(disk) /\ Apart(disk, discarded)
    /\ \A l \in alive : /\ Linear(File(l)) /\ Apart(File(l), discarded)
                        /\ Ends(File(l), LastHash(events[l]))
                        /\ Linear(events[l])
    /\ lost = "gap" => ~ChainValid(disk)

\* The lines of a log.
LEMMA LinesOf ==
  ASSUME NEW n \in Nat, NEW s, IsLogUpTo(s, n)
  PROVE  /\ Len(s) \in Nat /\ s \in Seq(Line) /\ (s = <<>> <=> Len(s) = 0)
         /\ \A i \in 1 .. Len(s) : s[i].id \in 1 .. n /\ s[i].prev \in 0 .. n
<1>1. s \in Seq(Line) /\ Len(s) \in Nat /\ (s = <<>> <=> Len(s) = 0)
  BY LenProperties, EmptySeq DEF IsLogUpTo
<1>2. \A i \in 1 .. Len(s) : s[i] \in Line
  BY <1>1, ElementOfSeq
<1>3. \A i \in 1 .. Len(s) : s[i].id \in Nat /\ s[i].prev \in Nat
  BY <1>2 DEF Line
<1> QED
  BY <1>1, <1>3 DEF IsLogUpTo

LEMMA ConcatLines ==
  ASSUME NEW n \in Nat, NEW s, NEW t, IsLogUpTo(s, n), IsLogUpTo(t, n)
  PROVE  /\ Len(s \o t) = Len(s) + Len(t)
         /\ \A i \in 1 .. Len(s) : i \in 1 .. Len(s \o t) /\ (s \o t)[i] = s[i]
         /\ \A i \in 1 .. Len(t) : /\ Len(s) + i \in 1 .. Len(s \o t)
                                   /\ (s \o t)[Len(s) + i] = t[i]
<1>1. s \in Seq(Line) /\ t \in Seq(Line) /\ Len(s) \in Nat /\ Len(t) \in Nat
  BY LinesOf
<1> DEFINE u == s \o t
<1>2. /\ Len(u) = Len(s) + Len(t)
      /\ \A i \in 1 .. Len(s) + Len(t) : u[i] = IF i <= Len(s) THEN s[i] ELSE t[i - Len(s)]
  BY <1>1, ConcatProperties
<1> HIDE DEF u
<1>3. \A i \in 1 .. Len(s) : i \in 1 .. Len(u) /\ u[i] = s[i]
  BY <1>1, <1>2
<1>4. \A i \in 1 .. Len(t) : Len(s) + i \in 1 .. Len(u) /\ u[Len(s) + i] = t[i]
  <2> TAKE i \in 1 .. Len(t)
  <2>1. /\ Len(s) + i \in 1 .. Len(s) + Len(t)
        /\ ~(Len(s) + i <= Len(s)) /\ (Len(s) + i) - Len(s) = i
    BY <1>1
  <2> QED
    BY <1>2, <2>1
<1> QED
  BY <1>2, <1>3, <1>4 DEF u

LEMMA LinearAppend ==
  ASSUME NEW n \in Nat, NEW s, IsLogUpTo(s, n), Linear(s), NEW p \in 0 .. n, Ends(s, p)
  PROVE  LET t == Append(s, [id |-> n + 1, prev |-> p])
         IN  Linear(t) /\ Ends(t, n + 1) /\ \A ids : Apart(s, ids) /\ n + 1 \notin ids => Apart(t, ids)
<1> DEFINE e == [id |-> n + 1, prev |-> p]
           t == Append(s, e)
<1>1. /\ Len(s) \in Nat /\ s \in Seq(Line)
      /\ \A i \in 1 .. Len(s) : s[i].id \in 1 .. n /\ s[i].prev \in 0 .. n
  BY LinesOf
<1>2. e.id = n + 1 /\ e.prev = p /\ e \in Line
  BY DEF Line
<1>3. /\ Len(t) = Len(s) + 1 /\ t[Len(s) + 1] = e
      /\ \A i \in 1 .. Len(s) : t[i] = s[i]
  BY <1>1, <1>2, AppendProperties
<1> HIDE DEF e, t
<1>4. \A i \in 1 .. Len(t) : i \in 1 .. Len(s) \/ i = Len(s) + 1
  BY <1>1, <1>3
<1>5. \A i \in 1 .. Len(s) : t[i].id = s[i].id /\ t[i].prev = s[i].prev
  BY <1>3
<1>6. t[Len(s) + 1].id = n + 1 /\ t[Len(s) + 1].prev = p
  BY <1>2, <1>3
<1>7. Linear(t)
  <2>1. ASSUME NEW i \in 1 .. Len(t), NEW j \in 1 .. Len(t), i < j
        PROVE  t[i].id < t[j].id /\ (t[j].prev = t[i].id => j = i + 1)
    <3>1. i \in 1 .. Len(s)
      BY <1>1, <1>3, <2>1
    <3>2. CASE j \in 1 .. Len(s)
      BY <1>5, <2>1, <3>1, <3>2 DEF Linear
    <3>3. CASE j = Len(s) + 1
      BY <1>1, <1>5, <1>6, <3>1, <3>3 DEF Ends
    <3> QED
      BY <1>4, <3>2, <3>3
  <2> QED
    BY <2>1 DEF Linear
<1>8. Ends(t, n + 1)
  BY <1>1, <1>3, <1>4, <1>5 DEF Ends
<1>9. ASSUME NEW ids, Apart(s, ids), n + 1 \notin ids
      PROVE  Apart(t, ids)
  BY <1>4, <1>5, <1>6, <1>9 DEF Apart
<1> QED
  BY <1>7, <1>8, <1>9 DEF e, t

LEMMA LinearEnds ==
  ASSUME NEW n \in Nat, NEW s, IsLogUpTo(s, n), Linear(s)
  PROVE  Ends(s, LastHash(s))
<1>1. Len(s) \in Nat /\ (s = <<>> <=> Len(s) = 0) /\ \A i \in 1 .. Len(s) : s[i].id \in 1 .. n
  BY LinesOf
<1> SUFFICES ASSUME NEW i \in 1 .. Len(s), s[i].id = LastHash(s), i # Len(s) PROVE FALSE
  BY DEF Ends
<1>2. i < Len(s) /\ Len(s) \in 1 .. Len(s) /\ s[i].id = s[Len(s)].id
  BY <1>1 DEF LastHash
<1>3. s[i].id < s[Len(s)].id
  BY <1>2 DEF Linear
<1> QED
  BY <1>1, <1>2, <1>3

\* The first part of a log.
LEMMA LinearParts ==
  ASSUME NEW n \in Nat, NEW s, NEW t, IsLogUpTo(s, n), IsLogUpTo(t, n), Linear(s \o t)
  PROVE  /\ Linear(s)
         /\ \A i \in 1 .. Len(s), j \in 1 .. Len(t) : s[i].id # t[j].id
         /\ \A ids : Apart(s \o t, ids) => Apart(s, ids)
<1> DEFINE u == s \o t
<1>1. /\ \A i \in 1 .. Len(s) : i \in 1 .. Len(u) /\ u[i] = s[i]
      /\ \A i \in 1 .. Len(t) : Len(s) + i \in 1 .. Len(u) /\ u[Len(s) + i] = t[i]
  BY ConcatLines
<1>2. Len(s) \in Nat /\ Len(t) \in Nat /\ \A i \in 1 .. Len(s) : s[i].id \in 1 .. n
  BY LinesOf
<1>3. Linear(u)
  OBVIOUS
<1> HIDE DEF u
<1>4. Linear(s)
  BY <1>1, <1>3 DEF Linear
<1>5. ASSUME NEW i \in 1 .. Len(s), NEW j \in 1 .. Len(t)
      PROVE  s[i].id # t[j].id
  <2>1. i < Len(s) + j
    BY <1>2
  <2>2. s[i].id < t[j].id
    BY <1>1, <1>3, <2>1 DEF Linear
  <2> QED
    BY <1>2, <2>2
<1>6. \A ids : Apart(u, ids) => Apart(s, ids)
  BY <1>1 DEF Apart
<1> QED
  BY <1>4, <1>5, <1>6 DEF u

\* The last lines of a log.
LEMMA LinearLast ==
  ASSUME NEW n \in Nat, NEW s, IsLogUpTo(s, n), Linear(s), NEW k \in Nat \ {0}
  PROVE  Linear(SubSeq(s, k, Len(s)))
<1> DEFINE t == SubSeq(s, k, Len(s))
<1>1. s \in Seq(Line) /\ Len(s) \in Nat
  BY LinesOf
<1>2. \A i \in k .. Len(s) : s[i] \in Line
  BY <1>1, ElementOfSeq
<1>3. /\ Len(t) = IF k <= Len(s) THEN Len(s) - k + 1 ELSE 0
      /\ \A i \in 1 .. Len(s) - k + 1 : t[i] = s[k + i - 1]
  BY <1>1, <1>2, SubSeqProperties
<1> HIDE DEF t
<1>4. \A i \in 1 .. Len(t) : k + i - 1 \in 1 .. Len(s) /\ t[i] = s[k + i - 1]
  BY <1>1, <1>3
<1>5. ASSUME NEW i \in 1 .. Len(t), NEW j \in 1 .. Len(t), i < j
      PROVE  t[i].id < t[j].id /\ (t[j].prev = t[i].id => j = i + 1)
  <2> DEFINE a == k + i - 1
             b == k + j - 1
  <2>1. a \in 1 .. Len(s) /\ b \in 1 .. Len(s) /\ t[i] = s[a] /\ t[j] = s[b]
    BY <1>4
  <2>2. a < b /\ (b = a + 1 => j = i + 1)
    BY <1>5, <1>1, <1>3
  <2> HIDE DEF a, b
  <2> QED
    BY <2>1, <2>2 DEF Linear
<1>6. Linear(t)
  BY <1>5 DEF Linear
<1> QED
  BY <1>6 DEF t

LEMMA RetainedIsLinear ==
  ASSUME TypeOK, NEW l \in Loggers, Linear(events[l])
  PROVE  Linear(Retained(l))
<1> DEFINE old == {i \in 1 .. Len(events[l]) : events[l][i].id <= expired}
           k == Cardinality(old) + 1
<1>1. created \in Nat /\ IsLogUpTo(events[l], created)
  BY IsLogIsUpTo DEF TypeOK
<1>2. Cardinality(old) \in Nat
  <2>1. old \subseteq 1 .. Len(events[l])
    OBVIOUS
  <2>2. IsFiniteSet(1 .. Len(events[l]))
    <3>1. Len(events[l]) \in Nat
      BY <1>1, LinesOf
    <3> QED
      BY <3>1, FS_Interval
  <2> QED
    BY <2>1, <2>2, FS_Subset, FS_CardinalityType
<1>3. Retained(l) = SubSeq(events[l], k, Len(events[l]))
  BY DEF Retained
<1>4. k \in Nat \ {0}
  BY <1>2
<1> HIDE DEF k, old
<1> QED
  BY <1>1, <1>3, <1>4, LinearLast

\* A log without one of its lines in the middle has a gap.
LEMMA LinearGap ==
  ASSUME NEW n \in Nat, NEW s, NEW t, IsLogUpTo(s, n), Linear(s), NEW i \in 2 .. Len(s) - 1,
         Len(t) = Len(s) - 1,
         \A k \in 1 .. Len(t) : t[k] = IF k < i THEN s[k] ELSE s[k + 1]
  PROVE  /\ Linear(t) /\ ~ChainValid(t)
         /\ \A ids : Apart(s, ids) => Apart(t, ids)
         /\ \A h : Ends(s, h) => Ends(t, h)
<1>1. Len(s) \in Nat /\ \A k \in 1 .. Len(s) : s[k].id \in 1 .. n
  BY LinesOf
<1> DEFINE at(k) == IF k < i THEN k ELSE k + 1
<1>2. \A k \in 1 .. Len(t) : at(k) \in 1 .. Len(s) /\ t[k] = s[at(k)]
  BY <1>1
<1>3. Linear(t)
  <2>1. ASSUME NEW j \in 1 .. Len(t), NEW k \in 1 .. Len(t), j < k
        PROVE  t[j].id < t[k].id /\ (t[k].prev = t[j].id => k = j + 1)
    <3>1. at(j) < at(k) /\ (at(k) = at(j) + 1 => k = j + 1)
      BY <1>1, <2>1
    <3>2. /\ at(j) \in 1 .. Len(s) /\ at(k) \in 1 .. Len(s)
          /\ t[j] = s[at(j)] /\ t[k] = s[at(k)]
      BY <1>2
    <3> HIDE DEF at
    <3> QED
      BY <3>1, <3>2 DEF Linear
  <2> QED
    BY <2>1 DEF Linear
<1>4. ~ChainValid(t)
  <2>1. /\ i \in 2 .. Len(t) /\ i - 1 \in 1 .. Len(s) /\ i + 1 \in 1 .. Len(s)
        /\ i - 1 < i + 1 /\ i + 1 # (i - 1) + 1
    BY <1>1
  <2>2. t[i] = s[i + 1] /\ t[i - 1] = s[i - 1]
    BY <1>1, <2>1
  <2>3. s[i + 1].prev # s[i - 1].id
    BY <2>1 DEF Linear
  <2> QED
    BY <2>1, <2>2, <2>3 DEF ChainValid
<1>5. \A ids : Apart(s, ids) => Apart(t, ids)
  BY <1>2 DEF Apart
<1>6. ASSUME NEW h, Ends(s, h)
      PROVE  Ends(t, h)
  <2> SUFFICES ASSUME NEW k \in 1 .. Len(t), t[k].id = h PROVE k = Len(t)
    BY DEF Ends
  <2>1. at(k) = Len(s)
    BY <1>2, <1>6 DEF Ends
  <2> QED
    BY <1>1, <2>1
<1> QED
  BY <1>3, <1>4, <1>5, <1>6

\* What a file without a line in the middle looks like.
LEMMA LineRemoved ==
  ASSUME NEW n \in Nat, NEW s, IsLogUpTo(s, n), NEW i \in 2 .. Len(s) - 1,
         NEW r, r = SubSeq(s, 1, i - 1) \o SubSeq(s, i + 1, Len(s))
  PROVE  /\ r \in Seq(Line) /\ Len(r) = Len(s) - 1
         /\ \A k \in 1 .. Len(r) : r[k] = IF k < i THEN s[k] ELSE s[k + 1]
<1> DEFINE a == SubSeq(s, 1, i - 1)
           b == SubSeq(s, i + 1, Len(s))
<1>1. s \in Seq(Line) /\ Len(s) \in Nat
  BY LinesOf
<1>2. \A k \in 1 .. Len(s) : s[k] \in Line
  BY <1>1, ElementOfSeq
<1>3. a \in Seq(Line) /\ Len(a) = i - 1 /\ \A k \in 1 .. i - 1 : a[k] = s[k]
  <2>1. \A k \in 1 .. i - 1 : s[k] \in Line
    BY <1>1, <1>2
  <2>2. 1 \in Int /\ i - 1 \in Int /\ 1 <= i - 1 /\ (i - 1) - 1 + 1 = i - 1
    BY <1>1
  <2>3. \A k \in 1 .. i - 1 : 1 + k - 1 = k
    BY <2>2
  <2> QED
    BY <2>1, <2>2, <2>3, SubSeqProperties
<1>4. b \in Seq(Line) /\ Len(b) = Len(s) - i /\ \A k \in 1 .. Len(s) - i : b[k] = s[i + k]
  <2>1. \A k \in i + 1 .. Len(s) : s[k] \in Line
    BY <1>1, <1>2
  <2>2. i + 1 \in Int /\ Len(s) \in Int /\ i + 1 <= Len(s) /\ Len(s) - (i + 1) + 1 = Len(s) - i
    BY <1>1
  <2>3. \A k \in 1 .. Len(s) - i : (i + 1) + k - 1 = i + k
    BY <2>2
  <2> QED
    BY <2>1, <2>2, <2>3, SubSeqProperties
<1> HIDE DEF a, b
<1>5. /\ a \o b \in Seq(Line) /\ Len(a \o b) = Len(a) + Len(b)
      /\ \A k \in 1 .. Len(a) + Len(b) : (a \o b)[k] = IF k <= Len(a) THEN a[k] ELSE b[k - Len(a)]
  <2>1. a \in Seq(Line) /\ b \in Seq(Line)
    BY <1>3, <1>4
  <2> QED
    BY <2>1, ConcatProperties
<1>6. /\ r \in Seq(Line) /\ Len(r) = Len(a) + Len(b)
      /\ \A k \in 1 .. Len(a) + Len(b) : r[k] = IF k <= Len(a) THEN a[k] ELSE b[k - Len(a)]
  <2>1. r = a \o b
    BY DEF a, b
  <2> QED
    BY <1>5, <2>1
<1>7. Len(r) = Len(s) - 1
  BY <1>1, <1>3, <1>4, <1>6
<1>8. ASSUME NEW k \in 1 .. Len(r)
      PROVE  r[k] = IF k < i THEN s[k] ELSE s[k + 1]
  <2>1. CASE k < i
    <3>1. k \in 1 .. i - 1 /\ k <= Len(a) /\ k \in 1 .. Len(a) + Len(b)
      BY <1>3, <1>6, <2>1
    <3>2. r[k] = a[k] /\ a[k] = s[k]
      BY <1>3, <1>6, <3>1
    <3> QED
      BY <2>1, <3>2
  <2>2. CASE ~(k < i)
    <3>1. /\ ~(k <= Len(a)) /\ k \in 1 .. Len(a) + Len(b)
          /\ k - Len(a) \in 1 .. Len(s) - i /\ i + (k - Len(a)) = k + 1
      BY <1>1, <1>3, <1>6, <1>7, <2>2
    <3>2. r[k] = b[k - Len(a)] /\ b[k - Len(a)] = s[k + 1]
      BY <1>4, <1>6, <3>1
    <3> QED
      BY <2>2, <3>2
  <2> QED
    BY <2>1, <2>2
<1> QED
  BY <1>6, <1>7, <1>8

\* Such a file with what waits for it.
LEMMA WithoutLines ==
  ASSUME NEW n \in Nat, NEW s, NEW u, IsLogUpTo(s, n), IsLogUpTo(u, n), NEW i \in 2 .. Len(s) - 1,
         NEW r, r = SubSeq(s, 1, i - 1) \o SubSeq(s, i + 1, Len(s)),
         NEW t, t = r \o u, NEW v, v = s \o u
  PROVE  /\ Len(t) = Len(v) - 1
         /\ \A k \in 1 .. Len(t) : t[k] = IF k < i THEN v[k] ELSE v[k + 1]
<1>1. s \in Seq(Line) /\ u \in Seq(Line) /\ Len(s) \in Nat /\ Len(u) \in Nat
  BY LinesOf
<1>2. /\ r \in Seq(Line) /\ Len(r) = Len(s) - 1
      /\ \A k \in 1 .. Len(r) : r[k] = IF k < i THEN s[k] ELSE s[k + 1]
  BY LineRemoved
<1>3. /\ Len(v) = Len(s) + Len(u)
      /\ \A k \in 1 .. Len(s) + Len(u) : v[k] = IF k <= Len(s) THEN s[k] ELSE u[k - Len(s)]
  BY <1>1, ConcatProperties
<1>4. /\ Len(t) = Len(r) + Len(u)
      /\ \A k \in 1 .. Len(r) + Len(u) : t[k] = IF k <= Len(r) THEN r[k] ELSE u[k - Len(r)]
  BY <1>1, <1>2, ConcatProperties
<1>5. ASSUME NEW k \in 1 .. Len(t)
      PROVE  t[k] = IF k < i THEN v[k] ELSE v[k + 1]
  <2>1. CASE k <= Len(r)
    <3>1. /\ k \in 1 .. Len(r) /\ k \in 1 .. Len(r) + Len(u)
          /\ k \in 1 .. Len(s) + Len(u) /\ k + 1 \in 1 .. Len(s) + Len(u)
          /\ k <= Len(s) /\ k + 1 <= Len(s)
      BY <1>1, <1>2, <1>4, <2>1
    <3>2. t[k] = r[k] /\ v[k] = s[k] /\ v[k + 1] = s[k + 1]
      BY <1>3, <1>4, <2>1, <3>1
    <3> QED
      BY <1>2, <3>1, <3>2
  <2>2. CASE ~(k <= Len(r))
    <3>1. /\ ~(k + 1 <= Len(s)) /\ ~(k < i) /\ k - Len(r) = k + 1 - Len(s)
          /\ k \in 1 .. Len(r) + Len(u) /\ k + 1 \in 1 .. Len(s) + Len(u)
      BY <1>1, <1>2, <1>4, <2>2
    <3> QED
      BY <1>3, <1>4, <2>2, <3>1
  <2> QED
    BY <2>1, <2>2
<1> QED
  BY <1>1, <1>2, <1>3, <1>4, <1>5

\* A gap stays, and one before what is appended shows.
LEMMA GapStays ==
  ASSUME NEW n \in Nat, NEW s, NEW t, IsLogUpTo(s, n), IsLogUpTo(t, n),
         ~ChainValid(s) \/ (s # <<>> /\ t # <<>> /\ t[1].prev # LastHash(s))
  PROVE  ~ChainValid(s \o t)
<1> DEFINE u == s \o t
<1>1. /\ Len(u) = Len(s) + Len(t)
      /\ \A i \in 1 .. Len(s) : u[i] = s[i]
      /\ \A i \in 1 .. Len(t) : u[Len(s) + i] = t[i]
  BY ConcatLines
<1>2. /\ Len(s) \in Nat /\ Len(t) \in Nat
      /\ (s = <<>> <=> Len(s) = 0) /\ (t = <<>> <=> Len(t) = 0)
  BY LinesOf
<1> HIDE DEF u
<1>3. CASE ~ChainValid(s)
  <2>1. PICK i \in 2 .. Len(s) : s[i].prev # s[i - 1].id
    BY <1>3 DEF ChainValid
  <2>2. i \in 2 .. Len(u) /\ i \in 1 .. Len(s) /\ i - 1 \in 1 .. Len(s)
    BY <1>1, <1>2
  <2>3. u[i].prev # u[i - 1].id
    BY <1>1, <2>1, <2>2
  <2> QED
    BY <2>2, <2>3 DEF ChainValid, u
<1>4. CASE s # <<>> /\ t # <<>> /\ t[1].prev # LastHash(s)
  <2>1. /\ Len(s) + 1 \in 2 .. Len(u) /\ (Len(s) + 1) - 1 = Len(s)
        /\ Len(s) \in 1 .. Len(s) /\ 1 \in 1 .. Len(t)
    BY <1>1, <1>2, <1>4
  <2>2. u[Len(s) + 1] = t[1] /\ u[Len(s)] = s[Len(s)]
    BY <1>1, <2>1
  <2>3. u[Len(s) + 1].prev # u[(Len(s) + 1) - 1].id
    BY <1>4, <2>1, <2>2 DEF LastHash
  <2> QED
    BY <2>1, <2>3 DEF ChainValid, u
<1> QED
  BY <1>3, <1>4

\* What is appended to the end of two logs is appended to the second.
With(s, e) == Append(s, e)
Then(s, t) == s \o t

LEMMA AppendBehind ==
  ASSUME NEW n \in Nat, NEW s, NEW t, IsLogUpTo(s, n), IsLogUpTo(t, n), NEW e \in Line
  PROVE  With(Then(s, t), e) = Then(s, With(t, e))
<1>1. s \in Seq(Line) /\ t \in Seq(Line) /\ s \o t \in Seq(Line) /\ <<e>> \in Seq(Line)
  BY LinesOf, ConcatProperties
<1>2. Append(s \o t, e) = (s \o t) \o <<e>> /\ Append(t, e) = t \o <<e>>
  BY <1>1, AppendIsConcat
<1>3. (s \o t) \o <<e>> = s \o (t \o <<e>>)
  BY <1>1, ConcatAssociative
<1> QED
  BY <1>2, <1>3 DEF With, Then

LEMMA EmptyIsLinear == Linear(<<>>) /\ \A ids : Apart(<<>>, ids)
<1>1. Len(<<>>) = 0
  BY EmptySeq
<1> QED
  BY <1>1 DEF Linear, Apart

\* What GapInv says of a logger that exists.
GapOf(l) ==
  /\ Linear(disk) /\ Apart(disk, discarded)
  /\ Linear(File(l)) /\ Apart(File(l), discarded) /\ Ends(File(l), LastHash(events[l]))
  /\ Linear(events[l])
  /\ lost = "gap" => ~ChainValid(disk)

\* The outcomes of _save_events: buffer is what waits, new events included.
LEMMA SaveGap ==
  ASSUME TypeOK, NEW l \in Loggers, NEW buffer, NEW n \in Nat, created <= n,
         IsLogUpTo(buffer, n), buffer # <<>>,
         Linear(disk \o buffer), Apart(disk \o buffer, discarded),
         lost = "gap" => ~ChainValid(disk),
         Drop(l, buffer) \/ Write(l, buffer) \/ Keeps(l, buffer), lost' # "broken"
  PROVE  /\ Linear(disk') /\ Apart(disk', discarded')
         /\ lost' = "gap" => ~ChainValid(disk')
         /\ Drop(l, buffer) => disk' = disk
         /\ Write(l, buffer) => disk' = disk \o buffer /\ discarded' = discarded
         /\ Keeps(l, buffer) => disk' = disk /\ discarded' = discarded
<1>1. created \in Nat /\ IsLogUpTo(disk, created)
  BY IsLogIsUpTo DEF TypeOK
<1>2. IsLogUpTo(disk, n)
  BY <1>1, LogGrows
<1>3. /\ Linear(disk) /\ Apart(disk, discarded)
      /\ \A i \in 1 .. Len(disk), j \in 1 .. Len(buffer) : disk[i].id # buffer[j].id
  BY <1>2, LinearParts
<1>4. ASSUME Drop(l, buffer)
      PROVE  /\ disk' = disk /\ lost' = lost
             /\ discarded' = discarded \cup {buffer[i].id : i \in 1 .. Len(buffer)}
  BY <1>4 DEF Drop, jsonl
<1>5. ASSUME Write(l, buffer)
      PROVE  disk' = disk \o buffer /\ discarded' = discarded
  <2>1. lost # "broken"
    BY <1>5 DEF Write
  <2>2. torn = 0 /\ torn \in Nat
    BY <2>1 DEF TypeOK
  <2>3. Extended(buffer) = disk \o buffer
    BY <1>2, <2>2, ExtendedIsLog
  <2> QED
    BY <1>5, <2>3 DEF Write
<1>6. ASSUME Keeps(l, buffer)
      PROVE  disk' = disk /\ discarded' = discarded /\ lost' = lost
  BY <1>6 DEF Keeps, Fail, BreakOff, jsonl, history
<1>7. CASE Drop(l, buffer)
  <2>1. Apart(disk', discarded')
    BY <1>3, <1>4, <1>7 DEF Apart
  <2> QED
    BY <1>3, <1>4, <1>5, <1>6, <1>7, <2>1
<1>8. CASE Write(l, buffer)
  <2>1. ASSUME lost' = "gap"
        PROVE  ~ChainValid(disk')
    <3>1. lost = "gap" \/ (disk # <<>> /\ buffer[1].prev \in discarded)
      BY <1>8, <2>1 DEF Write
    <3>2. ASSUME disk # <<>>, buffer[1].prev \in discarded
          PROVE  buffer[1].prev # LastHash(disk)
      <4>1. Len(disk) \in 1 .. Len(disk)
        BY <1>1, <3>2, LinesOf
      <4> QED
        BY <1>3, <3>2, <4>1 DEF Apart, LastHash
    <3> QED
      BY <1>2, <1>5, <1>8, <3>1, <3>2, GapStays
  <2> QED
    BY <1>4, <1>5, <1>6, <1>8, <2>1
<1>9. CASE Keeps(l, buffer)
  BY <1>3, <1>4, <1>5, <1>6, <1>9
<1> QED
  BY <1>7, <1>8, <1>9

LEMMA RecordGap ==
  ASSUME TypeOK, NEW l \in Loggers, NEW log, IsLogUpTo(log, created), Linear(log),
         Linear(File(l)), Apart(File(l), discarded), Ends(File(l), LastHash(log)),
         lost = "gap" => ~ChainValid(disk), Record(l, log), lost' # "broken"
  PROVE  GapOf(l)'
<1> DEFINE e == NewEvent(log)
           buffer == Append(unflushed[l], e)
           newLog == Append(log, e)
           file == File(l)
<1>1. /\ created \in Nat /\ IsLogUpTo(disk, created) /\ IsLogUpTo(unflushed[l], created)
      /\ e = [id |-> created + 1, prev |-> LastHash(log)] /\ LastHash(log) \in 0 .. created
      /\ discarded \subseteq 1 .. created
  BY LastHashBounded, IsLogIsUpTo DEF NewEvent, TypeOK
<1>n. PICK n \in Nat : n = created + 1
  BY <1>1
<1>2. IsLogUpTo(buffer, n) /\ buffer # <<>> /\ LastHash(newLog) = n
  BY <1>1, <1>n, AppendLog
<1>3. IsLogUpTo(file, created)
  BY <1>1, ConcatLog DEF File
<1>4. /\ Linear(Append(file, e)) /\ Ends(Append(file, e), n)
      /\ Apart(Append(file, e), discarded)
  <2>1. n \notin discarded
    BY <1>1, <1>n
  <2> HIDE DEF file
  <2> QED
    BY <1>1, <1>n, <1>3, <2>1, LinearAppend DEF file
<1>5. Append(file, e) = disk \o buffer
  <2>1. IsLogUpTo(disk, n) /\ IsLogUpTo(unflushed[l], n) /\ e \in Line
    BY <1>1, <1>n, LogGrows DEF Line
  <2> HIDE DEF e
  <2>2. With(Then(disk, unflushed[l]), e) = Then(disk, With(unflushed[l], e))
    BY <2>1, AppendBehind
  <2> QED
    BY <2>2 DEF With, Then, File
<1>6. Linear(newLog)
  <2>1. Ends(log, LastHash(log))
    BY <1>1, LinearEnds
  <2> QED
    BY <1>1, <2>1, LinearAppend
<1>7. /\ events'[l] = newLog
      /\ \/ (Drop(l, buffer) \/ Write(l, buffer)) /\ unflushed'[l] = <<>>
         \/ Keeps(l, buffer) /\ unflushed'[l] = buffer
  BY DEF Record, Save, TypeOK
<1> HIDE DEF e, buffer, newLog, file
<1>8. /\ Linear(disk') /\ Apart(disk', discarded')
      /\ lost' = "gap" => ~ChainValid(disk')
      /\ Drop(l, buffer) => disk' = disk
      /\ Write(l, buffer) => disk' = disk \o buffer /\ discarded' = discarded
      /\ Keeps(l, buffer) => disk' = disk /\ discarded' = discarded
  <2>1. /\ created <= n /\ Linear(disk \o buffer) /\ Apart(disk \o buffer, discarded)
        /\ Drop(l, buffer) \/ Write(l, buffer) \/ Keeps(l, buffer)
    <3>1. created <= n
      BY <1>1, <1>n
    <3>2. Drop(l, buffer) \/ Write(l, buffer) \/ Keeps(l, buffer)
      BY <1>7
    <3>3. Linear(disk \o buffer) /\ Apart(disk \o buffer, discarded)
      BY <1>4, <1>5
    <3> QED
      BY <3>1, <3>2, <3>3
  <2> QED
    BY <1>2, <2>1, SaveGap
<1>9. \/ unflushed'[l] = <<>> /\ (disk' = disk \/ disk' = disk \o buffer)
      \/ unflushed'[l] = buffer /\ disk' = disk /\ discarded' = discarded
  BY <1>7, <1>8
<1>10. Linear(File(l)') /\ Apart(File(l)', discarded') /\ Ends(File(l)', n)
  <2>1. disk \in Seq(Line) /\ disk \o buffer \in Seq(Line)
    BY <1>1, <1>2, LinesOf, ConcatProperties
  <2>2. File(l)' = disk' \o unflushed'[l]
    BY DEF File
  <2>3. ASSUME unflushed'[l] = <<>>
        PROVE  File(l)' = disk'
    BY <1>9, <2>1, <2>2, <2>3, ConcatEmptySeq
  <2>4. Ends(disk, n)
    BY <1>1, <1>n, LinesOf DEF Ends
  <2> QED
    BY <1>4, <1>5, <1>8, <1>9, <2>2, <2>3, <2>4
<1> QED
  BY <1>2, <1>6, <1>7, <1>8, <1>10 DEF GapOf, newLog

\* Every step keeps the gap visible.
LEMMA GapStep ==
  ASSUME ~Sharing, ChainInv, GapInv, [Next]_vars
  PROVE  GapInv'
<1> SUFFICES ASSUME lost' # "broken"
             PROVE  /\ Linear(disk') /\ Apart(disk', discarded')
                    /\ lost' = "gap" => ~ChainValid(disk')
                    /\ \A k \in alive' : GapOf(k)'
  BY DEF GapInv, GapOf
<1>0. TypeOK /\ Alone /\ Fresh /\ created \in Nat /\ IsLogUpTo(disk, created)
  BY IsLogIsUpTo DEF ChainInv, TypeOK
<1>a. ASSUME lost # "broken"
      PROVE  /\ torn = 0 /\ Linear(disk) /\ Apart(disk, discarded)
             /\ lost = "gap" => ~ChainValid(disk)
             /\ \A l \in alive : GapOf(l)
  BY <1>0, <1>a DEF GapInv, GapOf, TypeOK
<1>b. \A l \in Loggers : IsLogUpTo(events[l], created) /\ IsLogUpTo(unflushed[l], created)
  BY <1>0, IsLogIsUpTo DEF TypeOK
<1>1. ASSUME NEW l \in Loggers, Open(l)
      PROVE  /\ Linear(disk') /\ Apart(disk', discarded')
             /\ lost' = "gap" => ~ChainValid(disk')
             /\ \A k \in alive' : GapOf(k)'
  <2>1. alive' = {l} /\ unflushed[l] = <<>> /\ Record(l, LoadedEvents)
    BY <1>0, <1>1 DEF Open, Fresh
  <2>2. lost # "broken"
    BY <2>1 DEF Record, Save, Drop, Write, Keeps, Fail, BreakOff, history
  <2>3. /\ IsLogUpTo(LoadedEvents, created)
        /\ LastHash(LoadedEvents) = LastHash(disk)
    BY <1>0, <1>a, <2>2, LoadedIsLog
  <2>4. Linear(LoadedEvents)
    <3> DEFINE k == IF Len(disk) > Window THEN Len(disk) - Window + 1 ELSE 1
    <3>1. Len(disk) \in Nat
      BY <1>0, LinesOf
    <3>2. k \in Nat \ {0}
      BY <3>1, AuditAssumption
    <3> HIDE DEF k
    <3>3. Linear(SubSeq(disk, k, Len(disk)))
      BY <1>0, <1>a, <2>2, <3>2, LinearLast
    <3>4. torn \notin 1 .. Window + 1
      BY <1>a, <2>2
    <3> QED
      BY <3>3, <3>4 DEF LoadedEvents, k
  <2>5. File(l) = disk
    <3>1. disk \in Seq(Line)
      BY <1>0, LinesOf
    <3> QED
      BY <2>1, <3>1, ConcatEmptySeq DEF File
  <2>6. Ends(disk, LastHash(disk))
    BY <1>0, <1>a, <2>2, LinearEnds
  <2>7. GapOf(l)'
    BY <1>0, <1>a, <2>1, <2>2, <2>3, <2>4, <2>5, <2>6, RecordGap
  <2> QED
    BY <2>1, <2>7 DEF GapOf
<1>2. ASSUME NEW l \in Loggers, Log(l)
      PROVE  /\ Linear(disk') /\ Apart(disk', discarded')
             /\ lost' = "gap" => ~ChainValid(disk')
             /\ \A k \in alive' : GapOf(k)'
  <2>1. l \in alive /\ (\A k \in alive' : k = l) /\ Record(l, events[l])
    BY <1>0, <1>2 DEF Log, Alone
  <2>2. lost # "broken"
    BY <2>1 DEF Record, Save, Drop, Write, Keeps, Fail, BreakOff, history
  <2>3. GapOf(l)
    BY <1>a, <2>1, <2>2
  <2>4. GapOf(l)'
    BY <1>0, <1>b, <2>1, <2>3, RecordGap DEF GapOf
  <2> QED
    BY <2>1, <2>4 DEF GapOf
<1>3. ASSUME NEW l \in Loggers, Exit(l)
      PROVE  /\ Linear(disk') /\ Apart(disk', discarded')
             /\ lost' = "gap" => ~ChainValid(disk')
             /\ \A k \in alive' : GapOf(k)'
  <2>1. /\ l \in alive /\ alive' = {} /\ unflushed[l] # <<>>
        /\ Drop(l, unflushed[l]) \/ Write(l, unflushed[l]) \/ Keeps(l, unflushed[l])
    BY <1>0, <1>3 DEF Exit, Forget, Alone
  <2>2. lost # "broken"
    BY <2>1 DEF Drop, Write, Keeps, Fail, BreakOff, history
  <2>3. GapOf(l)
    BY <1>a, <2>1, <2>2
  <2>4. /\ Linear(disk') /\ Apart(disk', discarded')
        /\ lost' = "gap" => ~ChainValid(disk')
    BY <1>0, <1>b, <2>1, <2>3, SaveGap DEF GapOf, File
  <2> QED
    BY <2>1, <2>4
<1>4. ASSUME NEW l \in Loggers, Crash(l)
      PROVE  /\ Linear(disk') /\ Apart(disk', discarded')
             /\ lost' = "gap" => ~ChainValid(disk')
             /\ \A k \in alive' : GapOf(k)'
  BY <1>0, <1>4, <1>a DEF Crash, Forget, Alone, history, jsonl
<1>5. ASSUME NEW l \in Loggers, Cleanup(l)
      PROVE  /\ Linear(disk') /\ Apart(disk', discarded')
             /\ lost' = "gap" => ~ChainValid(disk')
             /\ \A k \in alive' : GapOf(k)'
  <2> DEFINE kept == Retained(l)
  <2>1. /\ l \in alive /\ (\A k \in alive' : k = l)
        /\ disk' = kept /\ events'[l] = kept /\ unflushed'[l] = <<>>
        /\ discarded' = discarded \ {kept[i].id : i \in 1 .. Len(kept)}
        /\ lost # "broken" /\ lost' # "gap"
    BY <1>0, <1>5 DEF Cleanup, Alone, TypeOK
  <2>2. IsLogUpTo(kept, created)
    BY <1>0, RetainedIsLog
  <2>3. Linear(kept)
    BY <1>0, <1>a, <2>1, RetainedIsLinear DEF GapOf
  <2> HIDE DEF kept
  <2>4. Ends(kept, LastHash(kept)) /\ kept \in Seq(Line)
    BY <1>0, <2>2, <2>3, LinearEnds, LinesOf
  <2>5. Apart(kept, discarded')
    BY <2>1 DEF Apart
  <2>6. File(l)' = kept
    BY <2>1, <2>4, ConcatEmptySeq DEF File
  <2>7. GapOf(l)'
    BY <2>1, <2>3, <2>4, <2>5, <2>6 DEF GapOf
  <2> QED
    BY <2>1, <2>7 DEF GapOf
<1>6. ASSUME NEW l \in Loggers, CleanupFails(l)
      PROVE  /\ Linear(disk') /\ Apart(disk', discarded')
             /\ lost' = "gap" => ~ChainValid(disk')
             /\ \A k \in alive' : GapOf(k)'
  <2>1. /\ l \in alive /\ (\A k \in alive' : k = l)
        /\ events'[l] = Retained(l) /\ UNCHANGED <<disk, unflushed, discarded>>
        /\ lost # "broken" /\ (lost' = "gap" => lost = "gap")
    BY <1>0, <1>6 DEF CleanupFails, jsonl, Alone, TypeOK
  <2>2. GapOf(l)
    BY <1>a, <2>1
  <2>3. Linear(Retained(l))
    BY <1>0, <2>2, RetainedIsLinear DEF GapOf
  <2>4. Ends(File(l), LastHash(Retained(l)))
    <3>1. CASE Retained(l) # <<>>
      BY <1>0, <2>2, <3>1, RetainedIsLog DEF GapOf
    <3>2. CASE Retained(l) = <<>>
      <4>1. IsLogUpTo(File(l), created)
        BY <1>0, <1>b, ConcatLog DEF File
      <4>2. \A i \in 1 .. Len(File(l)) : File(l)[i].id # 0
        BY <1>0, <4>1, LinesOf
      <4> QED
        BY <3>2, <4>2 DEF Ends, LastHash
    <3> QED
      BY <3>1, <3>2
  <2>5. File(l)' = File(l)
    BY <2>1 DEF File
  <2>6. GapOf(l)'
    BY <2>1, <2>2, <2>3, <2>4, <2>5 DEF GapOf
  <2> QED
    BY <2>1, <2>6 DEF GapOf
<1>7. CASE (\E l \in Loggers : SetMemoryOnly(l)) \/ Age \/ UNCHANGED vars
  <2>1. UNCHANGED <<disk, events, unflushed, alive, discarded, lost>>
    BY <1>7 DEF SetMemoryOnly, Age, vars, history, jsonl
  <2> QED
    BY <1>a, <2>1 DEF GapOf, File
<1>8. CASE LoseLine
  <2>1. lost # "broken" /\ UNCHANGED <<events, unflushed, alive, discarded>>
    BY <1>8 DEF LoseLine
  <2>2. PICK i \in 2 .. Len(disk) - 1 :
          disk' = SubSeq(disk, 1, i - 1) \o SubSeq(disk, i + 1, Len(disk))
    BY <1>8 DEF LoseLine
  <2>3. /\ Len(disk') = Len(disk) - 1
        /\ \A k \in 1 .. Len(disk') : disk'[k] = IF k < i THEN disk[k] ELSE disk[k + 1]
    <3> DEFINE file == disk'
    <3>1. file = SubSeq(disk, 1, i - 1) \o SubSeq(disk, i + 1, Len(disk))
      BY <2>2
    <3> HIDE DEF file
    <3>2. /\ Len(file) = Len(disk) - 1
          /\ \A k \in 1 .. Len(file) : file[k] = IF k < i THEN disk[k] ELSE disk[k + 1]
      BY <1>0, <3>1, LineRemoved
    <3> QED
      BY <3>2 DEF file
  <2>6. Linear(disk') /\ ~ChainValid(disk') /\ Apart(disk', discarded')
    <3> DEFINE t == disk'
    <3>1. /\ Len(t) = Len(disk) - 1
          /\ \A k \in 1 .. Len(t) : t[k] = IF k < i THEN disk[k] ELSE disk[k + 1]
      BY <2>3
    <3>2. Linear(disk) /\ Apart(disk, discarded) /\ discarded' = discarded
      BY <1>a, <2>1
    <3> HIDE DEF t
    <3>3. Linear(t) /\ ~ChainValid(t) /\ Apart(t, discarded)
      BY <1>0, <3>1, <3>2, LinearGap
    <3> QED
      BY <3>2, <3>3 DEF t
  <2>7. ASSUME NEW k \in alive
        PROVE  GapOf(k)'
    <3> DEFINE s == File(k)
               t == disk' \o unflushed[k]
    <3>1. GapOf(k) /\ k \in Loggers
      BY <1>0, <1>a, <2>1 DEF TypeOK
    <3>2. IsLogUpTo(s, created) /\ Len(s) = Len(disk) + Len(unflushed[k])
      BY <1>0, <1>b, <3>1, ConcatLog, ConcatLines DEF File
    <3>3. i \in 2 .. Len(s) - 1
      BY <1>0, <1>b, <3>1, <3>2, LinesOf
    <3>4. /\ Len(t) = Len(s) - 1
          /\ \A j \in 1 .. Len(t) : t[j] = IF j < i THEN s[j] ELSE s[j + 1]
      <4>1. IsLogUpTo(unflushed[k], created) /\ t = disk' \o unflushed[k]
            /\ s = disk \o unflushed[k]
        BY <1>b, <3>1 DEF File
      <4> HIDE DEF s, t
      <4>2. created \in Nat /\ IsLogUpTo(disk, created)
        BY <1>0
      <4> DEFINE waiting == unflushed[k]
                 file == disk'
      <4>3. /\ IsLogUpTo(waiting, created) /\ t = file \o waiting /\ s = disk \o waiting
            /\ file = SubSeq(disk, 1, i - 1) \o SubSeq(disk, i + 1, Len(disk))
        BY <2>2, <4>1
      <4> HIDE DEF waiting, file
      <4> QED
        BY <4>2, <4>3, WithoutLines
    <3>5. t = File(k)' /\ Linear(s) /\ Apart(s, discarded) /\ Ends(s, LastHash(events[k]))
      BY <2>1, <3>1 DEF File, GapOf
    <3> HIDE DEF s, t
    <3>6. Linear(t) /\ Apart(t, discarded) /\ Ends(t, LastHash(events[k]))
      BY <1>0, <3>2, <3>3, <3>4, <3>5, LinearGap
    <3> QED
      BY <2>1, <2>6, <3>1, <3>5, <3>6 DEF GapOf
  <2> QED
    BY <2>1, <2>6, <2>7
<1>9. CASE \E l \in Loggers : CleanupBreaksOff(l)
  BY <1>9 DEF CleanupBreaksOff
<1> QED
  BY <1>1, <1>2, <1>3, <1>4, <1>5, <1>6, <1>7, <1>8, <1>9 DEF Next

\* What is said of the gaps in the file that verify_chain notices, for every
\* number of events, window and history of loggers: a line that was lost from the
\* middle, or that was written behind what its logger had dropped, leaves a chain
\* that does not verify, and no line of a chain that verifies links to a dropped
\* event unless it is the first.
THEOREM GapStaysNoticed == ASSUME ~Sharing PROVE Spec => []GapIsNoticed
<1>1. Init => GapInv
  BY EmptyIsLinear DEF Init, GapInv
<1>2. ChainInv /\ GapInv /\ [Next]_vars => GapInv'
  BY GapStep
<1>3. ChainInv /\ GapInv => GapIsNoticed
  <2>1. SUFFICES ASSUME ChainInv, GapInv, lost # "broken", NEW i \in 2 .. Len(disk),
                        disk[i].prev \in discarded
                 PROVE  ~ChainValid(disk)
    BY DEF GapInv, GapIsNoticed
  <2>2. Len(disk) \in Nat
    BY <2>1, LenProperties DEF ChainInv, TypeOK, IsLog
  <2>3. i - 1 \in 1 .. Len(disk)
    BY <2>2
  <2>4. disk[i - 1].id \notin discarded
    BY <2>1, <2>3 DEF GapInv, Apart
  <2> QED
    BY <2>1, <2>4 DEF ChainValid
<1> QED
  BY <1>1, <1>2, <1>3, ChainInvariance, PTL DEF Spec
=============================================================================
