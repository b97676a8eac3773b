----------------------------- MODULE AuditProofs -----------------------------
(***************************************************************************)
(* Proofs about Audit, for any set of operations and any sequence of       *)
(* failures: a healthy log has no backlog, no record is lost, and the log  *)
(* is in the order of the emits.                                           *)
(***************************************************************************)
EXTENDS Audit, SequenceTheorems, TLAPS

-----------------------------------------------------------------------------
(* The records of a sequence *)

\* Appending sequences adds their records.
LEMMA RecordsOfConcat ==
  ASSUME NEW S, NEW s \in Seq(S), NEW u \in Seq(S)
  PROVE  s \o u \in Seq(S) /\ ToSet(s \o u) = ToSet(s) \cup ToSet(u)
  <1>1. s \o u \in Seq(S) /\ Len(s \o u) = Len(s) + Len(u)
    OBVIOUS
  <1>2. \A i \in 1 .. Len(s) : (s \o u)[i] = s[i]
    OBVIOUS
  <1>3. \A i \in 1 .. Len(u) : (s \o u)[Len(s) + i] = u[i] /\ Len(s) + i \in 1 .. Len(s \o u)
    OBVIOUS
  <1>4. ToSet(s \o u) \subseteq ToSet(s) \cup ToSet(u)
    <2>1. SUFFICES ASSUME NEW i \in 1 .. Len(s \o u)
                   PROVE  (s \o u)[i] \in ToSet(s) \cup ToSet(u)
      BY <1>1 DEF ToSet
    <2>2. CASE i <= Len(s)
      BY <2>2, <1>2 DEF ToSet
    <2>3. CASE i > Len(s)
      <3>1. i - Len(s) \in 1 .. Len(u) /\ i = Len(s) + (i - Len(s))
        BY <2>3, <1>1
      <3>2. (s \o u)[i] = u[i - Len(s)]
        BY <3>1, <1>3
      <3>3. QED
        BY <3>1, <3>2 DEF ToSet
    <2>4. QED
      BY <2>2, <2>3, <1>1
  <1>5. ToSet(s) \subseteq ToSet(s \o u)
    BY <1>1, <1>2 DEF ToSet
  <1>6. ToSet(u) \subseteq ToSet(s \o u)
    <2>1. SUFFICES ASSUME NEW i \in 1 .. Len(u)
                   PROVE  u[i] \in ToSet(s \o u)
      BY DEF ToSet
    <2>2. Len(s) + i \in 1 .. Len(s \o u) /\ (s \o u)[Len(s) + i] = u[i]
      BY <1>3
    <2>3. DOMAIN (s \o u) = 1 .. Len(s \o u)
      BY <1>1
    <2>4. QED
      BY <2>2, <2>3 DEF ToSet
  <1>7. QED
    BY <1>1, <1>4, <1>5, <1>6

\* A sequence's records are those of a front part and of the rest.
LEMMA RecordsOfParts ==
  ASSUME NEW S, NEW s \in Seq(S), NEW n \in 0 .. Len(s)
  PROVE  /\ SubSeq(s, 1, n) \in Seq(S)
         /\ SubSeq(s, n + 1, Len(s)) \in Seq(S)
         /\ ToSet(s) = ToSet(SubSeq(s, 1, n)) \cup ToSet(SubSeq(s, n + 1, Len(s)))
  <1>1. SubSeq(s, 1, n) \in Seq(S) /\ SubSeq(s, n + 1, Len(s)) \in Seq(S)
    OBVIOUS
  <1>2. s = SubSeq(s, 1, n) \o SubSeq(s, n + 1, Len(s))
    <2>1. 1 \in 1 .. Len(s) + 1 /\ n \in 1 - 1 .. Len(s) /\ Len(s) \in n .. Len(s)
      OBVIOUS
    <2>2. SubSeq(s, 1, n) \o SubSeq(s, n + 1, Len(s)) = SubSeq(s, 1, Len(s))
      BY <2>1, ConcatAdjacentSubSeq
    <2>3. QED
      BY <2>2, SubSeqFull
  <1>3. QED
    BY <1>1, <1>2, RecordsOfConcat

\* One record.
LEMMA RecordsOfOne ==
  ASSUME NEW S, NEW x \in S
  PROVE  <<x>> \in Seq(S) /\ ToSet(<<x>>) = {x}
  <1>1. <<x>> \in Seq(S) /\ DOMAIN <<x>> = {1} /\ <<x>>[1] = x
    OBVIOUS
  <1>2. QED
    BY <1>1 DEF ToSet

\* One more record.
LEMMA RecordsOfAppend ==
  ASSUME NEW S, NEW s \in Seq(S), NEW x \in S
  PROVE  Append(s, x) \in Seq(S) /\ ToSet(Append(s, x)) = ToSet(s) \cup {x}
  <1>1. Append(s, x) = s \o <<x>>
    OBVIOUS
  <1>2. <<x>> \in Seq(S) /\ ToSet(<<x>>) = {x}
    BY RecordsOfOne
  <1>3. s \o <<x>> \in Seq(S) /\ ToSet(s \o <<x>>) = ToSet(s) \cup ToSet(<<x>>)
    BY <1>2, RecordsOfConcat
  <1>4. QED
    BY <1>1, <1>2, <1>3

\* A longer front part has the records of a shorter one.
LEMMA RecordsOfWritten ==
  ASSUME NEW S, NEW lines \in Seq(S), NEW n \in 0 .. Len(lines) - 1,
         NEW w \in Written(lines, n)
  PROVE  w \in Seq(S) /\ ToSet(SubSeq(lines, 1, n)) \subseteq ToSet(w)
  <1>1. SubSeq(lines, 1, n) \in Seq(S) /\ SubSeq(lines, 1, n + 1) \in Seq(S)
    OBVIOUS
  <1>2. CASE w = SubSeq(lines, 1, n)
    BY <1>1, <1>2
  <1>3. CASE w = SubSeq(lines, 1, n + 1)
    <2>1. SUFFICES ASSUME NEW i \in 1 .. n
                   PROVE  SubSeq(lines, 1, n)[i] \in ToSet(w)
      BY <1>1, <1>3 DEF ToSet
    <2>2. SubSeq(lines, 1, n)[i] = lines[i] /\ SubSeq(lines, 1, n + 1)[i] = lines[i]
      OBVIOUS
    <2>3. i \in DOMAIN SubSeq(lines, 1, n + 1)
      OBVIOUS
    <2>4. QED
      BY <1>3, <2>2, <2>3 DEF ToSet
  <1>4. QED
    BY <1>2, <1>3 DEF Written

-----------------------------------------------------------------------------
(* A healthy log has no backlog *)

\* A healthy log has no backlog, whatever writes fail: a record that is written
\* at once cannot overtake one that waits.
THEOREM HealthyLogIsDrained == Spec => []HealthyIsDrained
  <1>1. Init => HealthyIsDrained
    BY DEF Init, HealthyIsDrained
  <1>2. HealthyIsDrained /\ [Next]_vars => HealthyIsDrained'
    <2>1. SUFFICES ASSUME HealthyIsDrained, [Next]_vars
                   PROVE  HealthyIsDrained'
      OBVIOUS
    <2>2. ASSUME NEW o \in Operations, Start(o) \/ Fail(o)
          PROVE  HealthyIsDrained'
      BY <2>1, <2>2 DEF Start, Fail, HealthyIsDrained
    <2>3. ASSUME NEW o \in Operations, Emit(o)
          PROVE  HealthyIsDrained'
      BY <2>3 DEF Emit, HealthyIsDrained
    <2>4. CASE MaintenanceTick
      BY <2>4 DEF MaintenanceTick, HealthyIsDrained
    <2>5. CASE Overdue \/ DiskChanges \/ Crash
      BY <2>1, <2>5 DEF Overdue, DiskChanges, Crash, HealthyIsDrained
    <2>6. CASE UNCHANGED vars
      BY <2>1, <2>6 DEF vars, HealthyIsDrained
    <2>7. QED
      BY <2>1, <2>2, <2>3, <2>4, <2>5, <2>6 DEF Next
  <1>3. QED
    BY <1>1, <1>2, PTL DEF Spec

-----------------------------------------------------------------------------
(* No record is lost *)

Inv == TypeOK /\ NoRecordLost

\* What Flush is given is in the fallback file or in memory afterwards, and
\* nothing leaves the fallback file.
LEMMA FlushKeeps ==
  ASSUME NEW kept \in Seq(Operations), NEW since, fallback \in Seq(Operations),
         Flush(kept, since)
  PROVE  /\ buffer' \in Seq(Operations) /\ fallback' \in Seq(Operations)
         /\ ToSet(fallback) \subseteq ToSet(fallback')
         /\ ToSet(kept) \subseteq ToSet(fallback') \cup ToSet(buffer')
  <1>1. CASE since = "short" /\ buffer' = kept /\ UNCHANGED fallback
    BY <1>1
  <1>2. CASE buffer' = <<>> /\ fallback' = fallback \o kept
    <2>1. fallback' \in Seq(Operations) /\ ToSet(fallback') = ToSet(fallback) \cup ToSet(kept)
      BY <1>2, RecordsOfConcat
    <2>2. QED
      BY <1>2, <2>1
  <1>3. CASE buffer' = kept /\ \E n \in 0 .. Len(kept) : fallback' = fallback \o SubSeq(kept, 1, n)
    <2>1. PICK n \in 0 .. Len(kept) : fallback' = fallback \o SubSeq(kept, 1, n)
      BY <1>3
    <2>2. SubSeq(kept, 1, n) \in Seq(Operations)
      BY RecordsOfParts
    <2>3. /\ fallback \o SubSeq(kept, 1, n) \in Seq(Operations)
          /\ ToSet(fallback \o SubSeq(kept, 1, n)) = ToSet(fallback) \cup ToSet(SubSeq(kept, 1, n))
      BY <2>2, RecordsOfConcat
    <2>4. QED
      BY <1>3, <2>1, <2>3
  <1>4. QED
    BY <1>1, <1>2, <1>3 DEF Flush

\* emit keeps the records it had and adds its own.
LEMMA EmitKeeps ==
  ASSUME Inv, NEW o \in Operations, Emit(o)
  PROVE  Inv'
  <1> DEFINE Lines == Operations \cup {Heartbeat}
             lines == Append(buffer, o)
  <1>1. TypeOK /\ NoRecordLost
    BY DEF Inv
  <1>2. lines \in Seq(Operations) /\ ToSet(lines) = ToSet(buffer) \cup {o}
    BY <1>1, RecordsOfAppend DEF TypeOK
  <1>3. emitted' \in Seq(Operations) /\ ToSet(emitted') = ToSet(emitted) \cup {o}
    BY <1>1, RecordsOfAppend DEF TypeOK, Emit
  <1>4. lines \in Seq(Lines) /\ Len(lines) = Len(buffer) + 1
    BY <1>1, <1>2, SeqMonotonic DEF TypeOK
  <1>5. op' \in [Operations -> {"new", "working", "done", "failed"}] /\ disk' = disk
        /\ lost' = lost /\ health' \in {"ok", "short", "long"}
    BY <1>1 DEF TypeOK, Emit
  <1> HIDE DEF lines
  <1>6. CASE primary' = primary \o lines /\ buffer' = <<>> /\ UNCHANGED fallback
    <2>1. primary' \in Seq(Lines) /\ ToSet(primary') = ToSet(primary) \cup ToSet(lines)
      BY <1>1, <1>4, <1>6, RecordsOfConcat DEF TypeOK
    <2>2. TypeOK'
      BY <1>1, <1>3, <1>5, <1>6, <2>1 DEF TypeOK
    <2>3. NoRecordLost'
      BY <1>1, <1>2, <1>3, <1>5, <1>6, <2>1 DEF NoRecordLost
    <2>4. QED
      BY <2>2, <2>3 DEF Inv
  <1>7. CASE \E n \in 0 .. Len(buffer), since \in {"short", "long"} :
               /\ primary' \in {primary \o w : w \in Written(lines, n)}
               /\ Flush(SubSeq(lines, n + 1, Len(lines)), since)
    <2>1. PICK n \in 0 .. Len(buffer), since \in {"short", "long"} :
                 /\ primary' \in {primary \o w : w \in Written(lines, n)}
                 /\ Flush(SubSeq(lines, n + 1, Len(lines)), since)
      BY <1>7
    <2>2. PICK w \in Written(lines, n) : primary' = primary \o w
      BY <2>1
    <2>3. n \in 0 .. Len(lines) - 1 /\ n \in 0 .. Len(lines)
      BY <1>1, <1>4 DEF TypeOK
    <2>4. w \in Seq(Lines) /\ ToSet(SubSeq(lines, 1, n)) \subseteq ToSet(w)
      BY <1>4, <2>2, <2>3, RecordsOfWritten
    <2>5. primary' \in Seq(Lines) /\ ToSet(primary') = ToSet(primary) \cup ToSet(w)
      BY <1>1, <2>2, <2>4, RecordsOfConcat DEF TypeOK
    <2>6. /\ SubSeq(lines, n + 1, Len(lines)) \in Seq(Operations)
          /\ ToSet(lines) = ToSet(SubSeq(lines, 1, n)) \cup ToSet(SubSeq(lines, n + 1, Len(lines)))
      BY <1>2, <2>3, RecordsOfParts
    <2>7. /\ buffer' \in Seq(Operations) /\ fallback' \in Seq(Operations)
          /\ ToSet(fallback) \subseteq ToSet(fallback')
          /\ ToSet(SubSeq(lines, n + 1, Len(lines))) \subseteq ToSet(fallback') \cup ToSet(buffer')
      BY <1>1, <2>1, <2>6, FlushKeeps DEF TypeOK
    <2>8. TypeOK'
      BY <1>1, <1>3, <1>5, <2>5, <2>7 DEF TypeOK
    <2>9. NoRecordLost'
      BY <1>1, <1>2, <1>3, <1>5, <2>4, <2>5, <2>6, <2>7 DEF NoRecordLost
    <2>10. QED
      BY <2>8, <2>9 DEF Inv
  <1>8. QED
    BY <1>1, <1>6, <1>7 DEF Emit, TypeOK, lines

\* maintenance_tick writes its heartbeat and keeps the records that wait.
LEMMA TickKeeps ==
  ASSUME Inv, MaintenanceTick
  PROVE  Inv'
  <1> DEFINE Lines == Operations \cup {Heartbeat}
             lines == <<Heartbeat>> \o buffer
             kept(n) == IF n = 0 THEN buffer ELSE SubSeq(buffer, n, Len(buffer))
  <1>1. TypeOK /\ NoRecordLost
    BY DEF Inv
  <1>2. buffer \in Seq(Operations) /\ buffer \in Seq(Lines) /\ Heartbeat \in Lines
    BY <1>1, SeqMonotonic DEF TypeOK
  <1> HIDE DEF Lines
  <1>3. /\ lines \in Seq(Lines) /\ ToSet(lines) = {Heartbeat} \cup ToSet(buffer)
        /\ Len(lines) = Len(buffer) + 1
    <2> DEFINE h == <<Heartbeat>>
    <2>1. h \in Seq(Lines) /\ ToSet(h) = {Heartbeat}
      BY <1>2, RecordsOfOne
    <2>2. Len(lines) = Len(buffer) + 1
      BY <1>2
    <2> HIDE DEF h
    <2>3. h \o buffer \in Seq(Lines) /\ ToSet(h \o buffer) = ToSet(h) \cup ToSet(buffer)
      BY <1>2, <2>1, RecordsOfConcat
    <2>4. lines = h \o buffer
      BY DEF h
    <2> HIDE DEF lines
    <2>5. QED
      BY <2>1, <2>2, <2>3, <2>4
  <1>4. \A i \in 1 .. Len(buffer) : lines[i + 1] = buffer[i]
    BY <1>2
  <1>5. op' = op /\ disk' = disk /\ emitted' = emitted /\ lost' = lost
        /\ health' \in {"ok", "short", "long"}
    BY <1>1 DEF TypeOK, MaintenanceTick
  <1>6. CASE primary' = primary \o lines /\ buffer' = <<>> /\ UNCHANGED fallback
    <2> HIDE DEF lines
    <2>1. primary' \in Seq(Lines) /\ ToSet(primary') = ToSet(primary) \cup ToSet(lines)
      BY <1>1, <1>3, <1>6, RecordsOfConcat DEF TypeOK, Lines
    <2>2. TypeOK'
      BY <1>1, <1>5, <1>6, <2>1 DEF TypeOK, Lines
    <2>3. NoRecordLost'
      BY <1>1, <1>3, <1>5, <1>6, <2>1 DEF NoRecordLost
    <2>4. QED
      BY <2>2, <2>3 DEF Inv
  <1>7. CASE \E n \in 0 .. Len(buffer) :
               /\ primary' \in {primary \o w : w \in Written(lines, n)}
               /\ Flush(kept(n), health)
    <2>1. PICK n \in 0 .. Len(buffer) :
                 /\ primary' \in {primary \o w : w \in Written(lines, n)}
                 /\ Flush(kept(n), health)
      BY <1>7
    <2>2. PICK w \in Written(lines, n) : primary' = primary \o w
      BY <2>1
    <2>3. n \in 0 .. Len(lines) - 1
      BY <1>2, <1>3
    <2>4. w \in Seq(Lines) /\ ToSet(SubSeq(lines, 1, n)) \subseteq ToSet(w)
      BY <1>3, <2>2, <2>3, RecordsOfWritten
    <2>5. primary' \in Seq(Lines) /\ ToSet(primary') = ToSet(primary) \cup ToSet(w)
      <3>1. primary \o w \in Seq(Lines) /\ ToSet(primary \o w) = ToSet(primary) \cup ToSet(w)
        BY <1>1, <2>4, RecordsOfConcat DEF TypeOK, Lines
      <3>2. QED
        BY <2>2, <3>1
    <2>6. kept(n) \in Seq(Operations) /\ ToSet(buffer) \subseteq ToSet(w) \cup ToSet(kept(n))
      <3>1. CASE n = 0
        BY <1>2, <3>1
      <3>2. CASE n \in 1 .. Len(buffer)
        <4>1. n - 1 \in 0 .. Len(buffer) /\ (n - 1) + 1 = n
          BY <1>2, <3>2
        <4>2. /\ SubSeq(buffer, n, Len(buffer)) \in Seq(Operations)
              /\ ToSet(buffer) = ToSet(SubSeq(buffer, 1, n - 1)) \cup ToSet(SubSeq(buffer, n, Len(buffer)))
          BY <1>2, <4>1, RecordsOfParts
        <4>3. ToSet(SubSeq(buffer, 1, n - 1)) \subseteq ToSet(SubSeq(lines, 1, n))
          <5> HIDE DEF lines
          <5>0. DOMAIN SubSeq(buffer, 1, n - 1) = 1 .. n - 1
            BY <1>2, <3>2
          <5>1. SUFFICES ASSUME NEW i \in 1 .. n - 1
                         PROVE  SubSeq(buffer, 1, n - 1)[i] \in ToSet(SubSeq(lines, 1, n))
            BY <5>0 DEF ToSet
          <5>2. i \in 1 .. Len(buffer) /\ i + 1 \in 1 .. n
            BY <1>2, <3>2
          <5>3. SubSeq(buffer, 1, n - 1)[i] = buffer[i]
            BY <1>2, <3>2, <5>2
          <5>4. SubSeq(lines, 1, n)[i + 1] = lines[i + 1] /\ DOMAIN SubSeq(lines, 1, n) = 1 .. n
            BY <1>3, <2>3, <3>2, <5>2
          <5>5. SubSeq(buffer, 1, n - 1)[i] = SubSeq(lines, 1, n)[i + 1]
            BY <1>4, <5>2, <5>3, <5>4
          <5>6. QED
            BY <5>2, <5>4, <5>5 DEF ToSet
        <4>4. QED
          BY <3>2, <4>2, <4>3, <2>4
      <3>3. QED
        BY <3>1, <3>2, <1>2
    <2> HIDE DEF kept
    <2>7. /\ buffer' \in Seq(Operations) /\ fallback' \in Seq(Operations)
          /\ ToSet(fallback) \subseteq ToSet(fallback')
          /\ ToSet(kept(n)) \subseteq ToSet(fallback') \cup ToSet(buffer')
      BY <1>1, <2>1, <2>6, FlushKeeps DEF TypeOK
    <2>8. TypeOK'
      BY <1>1, <1>5, <2>5, <2>7 DEF TypeOK, Lines
    <2>9. NoRecordLost'
      BY <1>1, <1>5, <2>5, <2>6, <2>7 DEF NoRecordLost
    <2>10. QED
      BY <2>8, <2>9 DEF Inv
  <1>8. QED
    BY <1>6, <1>7 DEF MaintenanceTick

\* A record that was passed to emit stays in the log, the fallback file or the
\* memory through any sequence of failing writes, partial drains, flushes to the
\* fallback file and recoveries; a crash loses what was in memory, no more.
THEOREM NoRecordIsLost == Spec => [](TypeOK /\ NoRecordLost)
  <1>1. Init => Inv
    BY AuditAssumption DEF Init, Inv, TypeOK, NoRecordLost, ToSet
  <1>2. Inv /\ [Next]_vars => Inv'
    <2>1. SUFFICES ASSUME Inv, [Next]_vars
                   PROVE  Inv'
      OBVIOUS
    <2>2. ASSUME NEW o \in Operations, Start(o) \/ Fail(o)
          PROVE  Inv'
      BY <2>1, <2>2 DEF Start, Fail, Inv, TypeOK, NoRecordLost, files
    <2>3. ASSUME NEW o \in Operations, Emit(o)
          PROVE  Inv'
      BY <2>1, <2>3, EmitKeeps
    <2>4. CASE MaintenanceTick
      BY <2>1, <2>4, TickKeeps
    <2>5. CASE Overdue
      BY <2>1, <2>5 DEF Overdue, Inv, TypeOK, NoRecordLost, files
    <2>6. CASE DiskChanges
      BY <2>1, <2>6 DEF DiskChanges, Inv, TypeOK, NoRecordLost, files
    <2>7. CASE Crash
      <3>1. ToSet(buffer) \subseteq Operations
        BY <2>1 DEF Inv, TypeOK, ToSet
      <3>2. TypeOK'
        BY <2>1, <2>7, <3>1 DEF Crash, Inv, TypeOK, files
      <3>3. NoRecordLost'
        BY <2>1, <2>7 DEF Crash, Inv, NoRecordLost, files
      <3>4. QED
        BY <3>2, <3>3 DEF Inv
    <2>8. CASE UNCHANGED vars
      BY <2>1, <2>8 DEF vars, Inv, TypeOK, NoRecordLost
    <2>9. QED
      BY <2>1, <2>2, <2>3, <2>4, <2>5, <2>6, <2>7, <2>8 DEF Next
  <1>3. QED
    BY <1>1, <1>2, PTL DEF Spec, Inv

\* Whatever writes fail, the log, the fallback file and the memory hold records
\* of operations, and heartbeats only in the log.
THEOREM TypeCorrect == Spec => []TypeOK
  <1>1. TypeOK /\ NoRecordLost => TypeOK
    OBVIOUS
  <1>2. QED
    BY <1>1, NoRecordIsLost, PTL

-----------------------------------------------------------------------------
(* The order of the log *)

LogLine == Operations \cup {Heartbeat}

\* The records that may follow a record in the log; a heartbeat may be anywhere.
Followers == [a \in LogLine |-> {b \in LogLine : Heartbeat \in {a, b} \/ Precedes(a, b)}]

\* A sequence in the order that R allows, and one whose records may follow those
\* of another.
Sorted(s, R) == \A i, j \in DOMAIN s : i < j => s[j] \in R[s[i]]
Follows(s, u, R) == \A x \in ToSet(s), y \in ToSet(u) : y \in R[x]

\* The log and, after it, what waits in memory are in the order of the emits; an
\* operation emits once, so a record that is in both is in its place.
OrderInv ==
  /\ \A i, j \in DOMAIN emitted : emitted[i] = emitted[j] => i = j
  /\ \A i \in DOMAIN emitted : op[emitted[i]] = "done"
  /\ ToSet(primary) \subseteq ToSet(emitted) \cup {Heartbeat}
  /\ ToSet(buffer) \subseteq ToSet(emitted)
  /\ Sorted(primary, Followers) /\ Sorted(buffer, Followers)
  /\ Follows(primary, buffer, Followers)

\* A sequence after another one.
LEMMA SortedConcat ==
  ASSUME NEW S, NEW R, NEW s \in Seq(S), NEW u \in Seq(S),
         Sorted(s, R), Sorted(u, R), Follows(s, u, R)
  PROVE  Sorted(s \o u, R)
  <1>1. s \o u \in Seq(S) /\ Len(s \o u) = Len(s) + Len(u) /\ DOMAIN (s \o u) = 1 .. Len(s) + Len(u)
    OBVIOUS
  <1>2. \A i \in 1 .. Len(s) : (s \o u)[i] = s[i] /\ i \in DOMAIN s
    OBVIOUS
  <1>3. \A i \in 1 .. Len(s) + Len(u) : i > Len(s) =>
          (s \o u)[i] = u[i - Len(s)] /\ i - Len(s) \in DOMAIN u
    OBVIOUS
  <1>4. SUFFICES ASSUME NEW i \in 1 .. Len(s) + Len(u), NEW j \in 1 .. Len(s) + Len(u), i < j
                 PROVE  (s \o u)[j] \in R[(s \o u)[i]]
    BY <1>1 DEF Sorted
  <1>5. CASE j <= Len(s)
    BY <1>2, <1>4, <1>5 DEF Sorted
  <1>6. CASE i <= Len(s) /\ j > Len(s)
    <2>1. (s \o u)[i] \in ToSet(s) /\ (s \o u)[j] \in ToSet(u)
      BY <1>2, <1>3, <1>6 DEF ToSet
    <2>2. QED
      BY <2>1 DEF Follows
  <1>7. CASE i > Len(s)
    <2>1. /\ i - Len(s) \in DOMAIN u /\ (s \o u)[i] = u[i - Len(s)]
          /\ j - Len(s) \in DOMAIN u /\ (s \o u)[j] = u[j - Len(s)]
          /\ i - Len(s) < j - Len(s)
      BY <1>3, <1>4, <1>7
    <2>2. QED
      BY <2>1 DEF Sorted
  <1>8. QED
    BY <1>4, <1>5, <1>6, <1>7

\* A part of a sequence.
LEMMA SortedPart ==
  ASSUME NEW S, NEW R, NEW s \in Seq(S), NEW m \in 1 .. Len(s) + 1, NEW n \in m - 1 .. Len(s),
         Sorted(s, R)
  PROVE  /\ SubSeq(s, m, n) \in Seq(S) /\ ToSet(SubSeq(s, m, n)) \subseteq ToSet(s)
         /\ Sorted(SubSeq(s, m, n), R)
  <1>1. SubSeq(s, m, n) \in Seq(S) /\ DOMAIN SubSeq(s, m, n) = 1 .. n - m + 1
    OBVIOUS
  <1>2. \A i \in 1 .. n - m + 1 : SubSeq(s, m, n)[i] = s[m + i - 1] /\ m + i - 1 \in DOMAIN s
    OBVIOUS
  <1>3. ToSet(SubSeq(s, m, n)) \subseteq ToSet(s)
    BY <1>1, <1>2 DEF ToSet
  <1>4. ASSUME NEW i \in 1 .. n - m + 1, NEW j \in 1 .. n - m + 1, i < j
        PROVE  SubSeq(s, m, n)[j] \in R[SubSeq(s, m, n)[i]]
    <2>1. m + i - 1 < m + j - 1
      BY <1>4
    <2>2. QED
      BY <1>2, <2>1 DEF Sorted
  <1>5. QED
    BY <1>1, <1>3, <1>4 DEF Sorted

\* When n lines were written and the next write raised, what is kept may follow
\* what is in the file, also the line that is in both.
LEMMA WrittenSorted ==
  ASSUME NEW S, NEW R, NEW lines \in Seq(S), NEW n \in 0 .. Len(lines) - 1,
         Sorted(lines, R), \A x \in ToSet(lines) : x \in R[x],
         NEW w \in Written(lines, n)
  PROVE  /\ w \in Seq(S) /\ ToSet(w) \subseteq ToSet(lines)
         /\ Sorted(w, R) /\ Follows(w, SubSeq(lines, n + 1, Len(lines)), R)
  <1>1. PICK m \in {n, n + 1} : w = SubSeq(lines, 1, m)
    BY DEF Written
  <1>2. m \in 0 .. Len(lines) /\ 1 \in 1 .. Len(lines) + 1
    OBVIOUS
  <1>3. w \in Seq(S) /\ ToSet(w) \subseteq ToSet(lines) /\ Sorted(w, R)
    BY <1>1, <1>2, SortedPart
  <1>4. ASSUME NEW x \in ToSet(w), NEW y \in ToSet(SubSeq(lines, n + 1, Len(lines)))
        PROVE  y \in R[x]
    <2>1. PICK i \in 1 .. m : x = lines[i]
      BY <1>1, <1>2, <1>4 DEF ToSet
    <2>2. PICK k \in 1 .. Len(lines) - n : y = SubSeq(lines, n + 1, Len(lines))[k]
      BY <1>4 DEF ToSet
    <2>3. y = lines[n + k] /\ n + k \in DOMAIN lines /\ i \in DOMAIN lines /\ i <= n + k
      BY <1>1, <2>1, <2>2
    <2>4. CASE i = n + k
      BY <2>1, <2>3, <2>4 DEF ToSet
    <2>5. CASE i < n + k
      BY <2>1, <2>3, <2>5 DEF Sorted
    <2>6. QED
      BY <2>3, <2>4, <2>5
  <1>5. QED
    BY <1>3, <1>4 DEF Follows

\* What Flush leaves in memory is what it was given, or nothing.
LEMMA FlushOrder ==
  ASSUME NEW kept \in Seq(Operations), NEW since, NEW R, NEW p, Flush(kept, since),
         Sorted(kept, R), Follows(p, kept, R)
  PROVE  ToSet(buffer') \subseteq ToSet(kept) /\ Sorted(buffer', R) /\ Follows(p, buffer', R)
  <1>1. buffer' = kept \/ buffer' = <<>>
    BY DEF Flush
  <1>2. CASE buffer' = <<>>
    BY <1>2 DEF Sorted, Follows, ToSet
  <1>3. QED
    BY <1>1, <1>2

\* The log after some of the lines were written, and what is kept of them.
LEMMA WriteOrder ==
  ASSUME NEW R, NEW p \in Seq(LogLine), NEW lines \in Seq(LogLine), NEW n \in 0 .. Len(lines) - 1,
         Sorted(p, R), Sorted(lines, R), Follows(p, lines, R), \A x \in ToSet(lines) : x \in R[x],
         NEW w \in Written(lines, n),
         NEW kept, ToSet(kept) \subseteq ToSet(lines),
         ToSet(kept) \subseteq ToSet(SubSeq(lines, n + 1, Len(lines)))
  PROVE  /\ Sorted(p \o w, R) /\ Follows(p \o w, kept, R)
         /\ ToSet(p \o w) \subseteq ToSet(p) \cup ToSet(lines)
  <1>1. /\ w \in Seq(LogLine) /\ ToSet(w) \subseteq ToSet(lines)
        /\ Sorted(w, R) /\ Follows(w, SubSeq(lines, n + 1, Len(lines)), R)
    BY WrittenSorted
  <1>2. Follows(w, kept, R)
    BY <1>1 DEF Follows
  <1>3. Follows(p, w, R)
    BY <1>1 DEF Follows
  <1>4. Sorted(p \o w, R)
    BY <1>1, <1>3, SortedConcat
  <1>5. ToSet(p \o w) = ToSet(p) \cup ToSet(w)
    BY <1>1, RecordsOfConcat
  <1>6. QED
    BY <1>1, <1>2, <1>4, <1>5 DEF Follows

\* A record may follow itself: it was emitted once.
LEMMA OwnFollower ==
  ASSUME TypeOK, OrderInv, NEW x \in ToSet(emitted) \cup {Heartbeat}
  PROVE  x \in LogLine /\ x \in Followers[x]
  <1>1. x \in LogLine
    BY DEF TypeOK, ToSet, LogLine
  <1>2. x # Heartbeat => Precedes(x, x)
    <2>1. \A i, j \in DOMAIN emitted : emitted[i] = x /\ emitted[j] = x => i = j /\ i \in Nat
      BY DEF OrderInv, TypeOK
    <2>2. QED
      BY <2>1 DEF Precedes
  <1>3. QED
    BY <1>1, <1>2 DEF Followers

\* A new emit leaves the order of the earlier ones and comes last.
LEMMA EmitFollows ==
  ASSUME TypeOK, OrderInv, NEW o \in Operations, Emit(o)
  PROVE  /\ \A i, j \in DOMAIN emitted' : emitted'[i] = emitted'[j] => i = j
         /\ \A i \in DOMAIN emitted' : op'[emitted'[i]] = "done"
         /\ ToSet(emitted') = ToSet(emitted) \cup {o}
         /\ \A x, y \in ToSet(emitted) \cup {Heartbeat} : y \in Followers[x] => y \in Followers'[x]
         /\ \A x \in ToSet(emitted) \cup {Heartbeat, o} : o \in Followers'[x]
         /\ \A x \in ToSet(emitted) \cup {Heartbeat, o} : x \in Followers'[x]
  <1>1. /\ emitted \in Seq(Operations) /\ emitted' = Append(emitted, o)
        /\ op' = [op EXCEPT ![o] = "done"] /\ op[o] = "working"
        /\ op \in [Operations -> {"new", "working", "done", "failed"}]
    BY DEF Emit, TypeOK
  <1>2. /\ Len(emitted) \in Nat /\ DOMAIN emitted = 1 .. Len(emitted)
        /\ DOMAIN emitted' = 1 .. Len(emitted) + 1
        /\ \A i \in 1 .. Len(emitted) : emitted'[i] = emitted[i] /\ emitted[i] \in Operations
        /\ emitted'[Len(emitted) + 1] = o
    BY <1>1
  <1>3. \A i \in 1 .. Len(emitted) : emitted[i] # o
    BY <1>1, <1>2 DEF OrderInv
  <1>4. \A i, j \in DOMAIN emitted' : emitted'[i] = emitted'[j] => i = j
    BY <1>2, <1>3 DEF OrderInv
  <1>5. \A i \in DOMAIN emitted' : op'[emitted'[i]] = "done"
    BY <1>1, <1>2, <1>3 DEF OrderInv
  <1>6. ToSet(emitted') = ToSet(emitted) \cup {o}
    BY <1>1, RecordsOfAppend
  <1>7. Heartbeat \notin Operations /\ ToSet(emitted) \subseteq Operations /\ o \notin ToSet(emitted)
    BY <1>2, <1>3, AuditAssumption DEF ToSet
  <1>8. ASSUME NEW x \in ToSet(emitted), NEW y \in ToSet(emitted), Precedes(x, y)
        PROVE  Precedes(x, y)'
    BY <1>2, <1>7, <1>8 DEF Precedes
  <1>9. ASSUME NEW x \in ToSet(emitted) \cup {o}
        PROVE  Precedes(x, o)'
    BY <1>2, <1>3 DEF Precedes
  <1>10. ASSUME NEW x \in ToSet(emitted)
         PROVE  Precedes(x, x)'
    BY <1>2, <1>4 DEF Precedes
  <1>11. \A x \in LogLine : Followers'[x] = {b \in LogLine : Heartbeat \in {x, b} \/ Precedes(x, b)'}
    BY DEF Followers
  <1>12. \A x \in LogLine : Followers[x] = {b \in LogLine : Heartbeat \in {x, b} \/ Precedes(x, b)}
    BY DEF Followers
  <1>13. ToSet(emitted) \cup {Heartbeat, o} \subseteq LogLine
    BY <1>7 DEF LogLine
  <1>14. \A x, y \in ToSet(emitted) \cup {Heartbeat} : y \in Followers[x] => y \in Followers'[x]
    BY <1>8, <1>11, <1>12, <1>13
  <1>15. \A x \in ToSet(emitted) \cup {Heartbeat, o} : o \in Followers'[x] /\ x \in Followers'[x]
    BY <1>9, <1>10, <1>11, <1>13
  <1>16. QED
    BY <1>4, <1>5, <1>6, <1>14, <1>15

\* emit keeps the order: it drains the buffer before it writes its record.
LEMMA EmitOrder ==
  ASSUME TypeOK, OrderInv, NEW o \in Operations, Emit(o)
  PROVE  OrderInv'
  <1> DEFINE lines == Append(buffer, o)
             R == Followers'
  <1>1. /\ \A i, j \in DOMAIN emitted' : emitted'[i] = emitted'[j] => i = j
        /\ \A i \in DOMAIN emitted' : op'[emitted'[i]] = "done"
        /\ ToSet(emitted') = ToSet(emitted) \cup {o}
        /\ \A x, y \in ToSet(emitted) \cup {Heartbeat} : y \in Followers[x] => y \in R[x]
        /\ \A x \in ToSet(emitted) \cup {Heartbeat, o} : o \in R[x]
        /\ \A x \in ToSet(emitted) \cup {Heartbeat, o} : x \in R[x]
    BY EmitFollows
  <1>2. /\ buffer \in Seq(Operations) /\ primary \in Seq(LogLine) /\ o \in LogLine
        /\ ToSet(primary) \subseteq ToSet(emitted) \cup {Heartbeat} /\ ToSet(buffer) \subseteq ToSet(emitted)
    BY DEF TypeOK, OrderInv, LogLine
  <1>3. lines \in Seq(Operations) /\ ToSet(lines) = ToSet(buffer) \cup {o} /\ Len(lines) = Len(buffer) + 1
    BY <1>2, RecordsOfAppend
  <1>4. lines \in Seq(LogLine) /\ buffer \in Seq(LogLine)
    BY <1>2, <1>3, SeqMonotonic DEF LogLine
  <1> HIDE DEF R
  <1>5. Sorted(primary, R) /\ Sorted(buffer, R) /\ Follows(primary, buffer, R)
    BY <1>1, <1>2 DEF OrderInv, Sorted, Follows, ToSet
  <1>6. Follows(primary, lines, R) /\ \A x \in ToSet(lines) : x \in R[x]
    BY <1>1, <1>2, <1>3, <1>5 DEF Follows
  <1>7. Sorted(lines, R)
    <2> DEFINE one == <<o>>
    <2>1. one \in Seq(LogLine) /\ ToSet(one) = {o}
      BY <1>2, RecordsOfOne
    <2>2. Sorted(one, R)
      BY DEF Sorted
    <2>3. lines = buffer \o one
      BY <1>2
    <2> HIDE DEF one, lines
    <2>4. Follows(buffer, one, R)
      BY <1>1, <1>2, <2>1 DEF Follows
    <2>5. QED
      BY <1>4, <1>5, <2>1, <2>2, <2>3, <2>4, SortedConcat
  <1>8. /\ ToSet(primary') \subseteq ToSet(primary) \cup ToSet(lines)
        /\ ToSet(buffer') \subseteq ToSet(lines)
        /\ Sorted(primary', R) /\ Sorted(buffer', R) /\ Follows(primary', buffer', R)
    <2> HIDE DEF lines
    <2>1. CASE primary' = primary \o lines /\ buffer' = <<>>
      <3>1. ToSet(buffer') = {} /\ Sorted(buffer', R)
        BY <2>1 DEF ToSet, Sorted
      <3>2. ToSet(primary') = ToSet(primary) \cup ToSet(lines)
        BY <1>2, <1>4, <2>1, RecordsOfConcat
      <3>3. Sorted(primary', R)
        BY <1>2, <1>4, <1>5, <1>6, <1>7, <2>1, SortedConcat
      <3>4. QED
        BY <3>1, <3>2, <3>3 DEF Follows
    <2>2. ASSUME NEW n \in 0 .. Len(buffer), NEW since,
                 primary' \in {primary \o w : w \in Written(lines, n)},
                 Flush(SubSeq(lines, n + 1, Len(lines)), since)
          PROVE  /\ ToSet(primary') \subseteq ToSet(primary) \cup ToSet(lines)
                 /\ ToSet(buffer') \subseteq ToSet(lines)
                 /\ Sorted(primary', R) /\ Sorted(buffer', R) /\ Follows(primary', buffer', R)
      <3> DEFINE kept == SubSeq(lines, n + 1, Len(lines))
      <3>1. PICK w \in Written(lines, n) : primary' = primary \o w
        BY <2>2
      <3>2. n \in 0 .. Len(lines) - 1 /\ n + 1 \in 1 .. Len(lines) + 1 /\ Len(lines) \in (n + 1) - 1 .. Len(lines)
        BY <1>2, <1>3
      <3>3. kept \in Seq(Operations) /\ ToSet(kept) \subseteq ToSet(lines) /\ Sorted(kept, R)
        BY <1>3, <1>7, <3>2, SortedPart
      <3>4. Flush(kept, since)
        BY <2>2
      <3>5. /\ Sorted(primary \o w, R) /\ Follows(primary \o w, kept, R)
            /\ ToSet(primary \o w) \subseteq ToSet(primary) \cup ToSet(lines)
        BY <1>2, <1>4, <1>5, <1>6, <1>7, <3>2, <3>3, WriteOrder
      <3> HIDE DEF kept
      <3>6. ToSet(buffer') \subseteq ToSet(kept) /\ Sorted(buffer', R) /\ Follows(primary', buffer', R)
        BY <3>1, <3>3, <3>4, <3>5, FlushOrder
      <3>7. QED
        BY <3>1, <3>3, <3>5, <3>6
    <2>3. QED
      BY <2>1, <2>2 DEF Emit, lines
  <1> HIDE DEF lines
  <1>9. ToSet(primary') \subseteq ToSet(emitted') \cup {Heartbeat} /\ ToSet(buffer') \subseteq ToSet(emitted')
    BY <1>1, <1>2, <1>3, <1>8
  <1>10. QED
    BY <1>1, <1>8, <1>9 DEF OrderInv, R

\* maintenance_tick keeps the order: a drain that stops keeps the rest, from the
\* record whose write raised.
LEMMA TickOrder ==
  ASSUME TypeOK, OrderInv, MaintenanceTick
  PROVE  OrderInv'
  <1> DEFINE h == <<Heartbeat>>
             lines == h \o buffer
             R == Followers
             kept(n) == IF n = 0 THEN buffer ELSE SubSeq(buffer, n, Len(buffer))
  <1>1. UNCHANGED <<op, emitted>>
    BY DEF MaintenanceTick
  <1>2. /\ buffer \in Seq(Operations) /\ primary \in Seq(LogLine) /\ Heartbeat \in LogLine
        /\ ToSet(primary) \subseteq ToSet(emitted) \cup {Heartbeat} /\ ToSet(buffer) \subseteq ToSet(emitted)
        /\ Sorted(primary, R) /\ Sorted(buffer, R) /\ Follows(primary, buffer, R)
    BY DEF TypeOK, OrderInv, LogLine
  <1>3. buffer \in Seq(LogLine) /\ h \in Seq(LogLine) /\ ToSet(h) = {Heartbeat} /\ Sorted(h, R)
    <2>1. buffer \in Seq(LogLine)
      BY <1>2, SeqMonotonic DEF LogLine
    <2>2. h \in Seq(LogLine) /\ ToSet(h) = {Heartbeat}
      BY <1>2, RecordsOfOne
    <2>3. Sorted(h, R)
      BY DEF Sorted
    <2>4. QED
      BY <2>1, <2>2, <2>3
  <1>4. \A i \in 1 .. Len(buffer) : lines[i + 1] = buffer[i]
    BY <1>2
  <1>5. Len(lines) = Len(buffer) + 1
    BY <1>2
  <1>6. \A x \in ToSet(emitted) \cup {Heartbeat} : x \in LogLine /\ x \in R[x]
    BY OwnFollower
  <1>7. \A x \in LogLine : x \in R[Heartbeat] /\ Heartbeat \in R[x]
    BY <1>2 DEF Followers
  <1> HIDE DEF h, R
  <1>8. lines \in Seq(LogLine) /\ ToSet(lines) = {Heartbeat} \cup ToSet(buffer)
    BY <1>3, RecordsOfConcat
  <1>9. Sorted(lines, R)
    <2>1. Follows(h, buffer, R)
      BY <1>2, <1>3, <1>6, <1>7 DEF Follows
    <2>2. QED
      BY <1>2, <1>3, <2>1, SortedConcat
  <1>10. Follows(primary, lines, R) /\ \A x \in ToSet(lines) : x \in R[x]
    BY <1>2, <1>6, <1>7, <1>8 DEF Follows
  <1>11. /\ ToSet(primary') \subseteq ToSet(primary) \cup ToSet(lines)
         /\ ToSet(buffer') \subseteq ToSet(buffer)
         /\ Sorted(primary', R) /\ Sorted(buffer', R) /\ Follows(primary', buffer', R)
    <2> HIDE DEF lines
    <2>1. CASE primary' = primary \o lines /\ buffer' = <<>>
      <3>1. ToSet(buffer') = {} /\ Sorted(buffer', R)
        BY <2>1 DEF ToSet, Sorted
      <3>2. ToSet(primary') = ToSet(primary) \cup ToSet(lines)
        BY <1>2, <1>8, <2>1, RecordsOfConcat
      <3>3. Sorted(primary', R)
        BY <1>2, <1>8, <1>9, <1>10, <2>1, SortedConcat
      <3>4. QED
        BY <3>1, <3>2, <3>3 DEF Follows
    <2>2. ASSUME NEW n \in 0 .. Len(buffer),
                 primary' \in {primary \o w : w \in Written(lines, n)}, Flush(kept(n), health)
          PROVE  /\ ToSet(primary') \subseteq ToSet(primary) \cup ToSet(lines)
                 /\ ToSet(buffer') \subseteq ToSet(buffer)
                 /\ Sorted(primary', R) /\ Sorted(buffer', R) /\ Follows(primary', buffer', R)
      <3>1. PICK w \in Written(lines, n) : primary' = primary \o w
        BY <2>2
      <3>2. n \in 0 .. Len(lines) - 1
        BY <1>2, <1>5
      <3>3. kept(n) \in Seq(Operations) /\ ToSet(kept(n)) \subseteq ToSet(buffer) /\ Sorted(kept(n), R)
        <4>1. CASE n = 0
          BY <1>2, <4>1
        <4>2. CASE n # 0
          <5>1. n \in 1 .. Len(buffer) + 1 /\ Len(buffer) \in n - 1 .. Len(buffer)
            BY <1>2, <4>2
          <5>2. QED
            BY <1>2, <4>2, <5>1, SortedPart
        <4>3. QED
          BY <4>1, <4>2
      <3>4. ToSet(kept(n)) \subseteq ToSet(SubSeq(lines, n + 1, Len(lines)))
        <4> DEFINE rest == SubSeq(lines, n + 1, Len(lines))
        <4>1. DOMAIN rest = 1 .. Len(lines) - n /\ \A i \in 1 .. Len(lines) - n : rest[i] = lines[n + i]
          BY <1>8, <3>2
        <4>2. CASE n = 0
          <5>1. \A i \in 1 .. Len(buffer) : buffer[i] = rest[i + 1] /\ i + 1 \in DOMAIN rest
            BY <1>2, <1>4, <1>5, <4>1, <4>2
          <5>2. kept(n) = buffer /\ DOMAIN buffer = 1 .. Len(buffer)
            BY <1>2, <4>2
          <5> HIDE DEF rest, kept
          <5>3. ToSet(buffer) \subseteq ToSet(rest)
            BY <5>1, <5>2 DEF ToSet
          <5>4. QED
            BY <5>2, <5>3 DEF rest
        <4>3. CASE n # 0
          <5>1. DOMAIN SubSeq(buffer, n, Len(buffer)) = 1 .. Len(buffer) - n + 1
            BY <1>2, <4>3
          <5>2. ASSUME NEW i \in 1 .. Len(buffer) - n + 1
                PROVE  SubSeq(buffer, n, Len(buffer))[i] = rest[i] /\ i \in DOMAIN rest
            <6>1. SubSeq(buffer, n, Len(buffer))[i] = buffer[n + i - 1] /\ n + i - 1 \in 1 .. Len(buffer)
              BY <1>2, <4>3
            <6>2. lines[(n + i - 1) + 1] = buffer[n + i - 1] /\ (n + i - 1) + 1 = n + i
              BY <1>2, <1>4, <6>1
            <6>3. i \in DOMAIN rest /\ rest[i] = lines[n + i]
              BY <1>2, <1>5, <4>1
            <6>4. QED
              BY <6>1, <6>2, <6>3
          <5>3. kept(n) = SubSeq(buffer, n, Len(buffer))
            BY <4>3
          <5> HIDE DEF rest, kept
          <5>4. ToSet(SubSeq(buffer, n, Len(buffer))) \subseteq ToSet(rest)
            BY <5>1, <5>2 DEF ToSet
          <5>5. QED
            BY <5>3, <5>4 DEF rest
        <4>4. QED
          BY <4>2, <4>3
      <3> HIDE DEF kept
      <3>5. /\ Sorted(primary \o w, R) /\ Follows(primary \o w, kept(n), R)
            /\ ToSet(primary \o w) \subseteq ToSet(primary) \cup ToSet(lines)
        BY <1>2, <1>8, <1>9, <1>10, <3>2, <3>3, <3>4, WriteOrder
      <3>6. ToSet(buffer') \subseteq ToSet(kept(n)) /\ Sorted(buffer', R) /\ Follows(primary', buffer', R)
        BY <2>2, <3>1, <3>3, <3>5, FlushOrder
      <3>7. QED
        BY <3>1, <3>3, <3>5, <3>6
    <2>3. QED
      BY <2>1, <2>2 DEF MaintenanceTick, lines, h
  <1>12. Followers' = R
    BY <1>1 DEF Followers, Precedes, R
  <1> HIDE DEF lines
  <1>13. ToSet(primary') \subseteq ToSet(emitted') \cup {Heartbeat} /\ ToSet(buffer') \subseteq ToSet(emitted')
    BY <1>1, <1>2, <1>8, <1>11
  <1>14. QED
    BY <1>1, <1>11, <1>12, <1>13 DEF OrderInv

\* Every step keeps the order; an operation whose record is in a file is done.
LEMMA OrderKept ==
  ASSUME TypeOK, OrderInv, [Next]_vars
  PROVE  OrderInv'
  <1>1. ASSUME NEW o \in Operations, Emit(o)
        PROVE  OrderInv'
    BY <1>1, EmitOrder
  <1>2. CASE MaintenanceTick
    BY <1>2, TickOrder
  <1>3. ASSUME UNCHANGED <<emitted, primary>>, buffer' = buffer \/ buffer' = <<>>,
               \A o \in Operations : op[o] = "done" => op'[o] = "done"
        PROVE  OrderInv'
    <2>1. Followers' = Followers
      BY <1>3 DEF Followers, Precedes
    <2>2. \A i \in DOMAIN emitted' : op'[emitted'[i]] = "done"
      BY <1>3 DEF OrderInv, TypeOK
    <2>3. CASE buffer' = buffer
      BY <1>3, <2>1, <2>2, <2>3 DEF OrderInv
    <2>4. CASE buffer' = <<>>
      <3>1. ToSet(buffer') = {} /\ Sorted(buffer', Followers) /\ Follows(primary, buffer', Followers)
        BY <2>4 DEF ToSet, Sorted, Follows
      <3>2. QED
        BY <1>3, <2>1, <2>2, <3>1 DEF OrderInv
    <2>5. QED
      BY <1>3, <2>3, <2>4
  <1>4. ASSUME NEW o \in Operations, Start(o) \/ Fail(o)
        PROVE  OrderInv'
    BY <1>3, <1>4 DEF Start, Fail, TypeOK, files
  <1>5. CASE Overdue \/ DiskChanges
    BY <1>3, <1>5 DEF Overdue, DiskChanges, files
  <1>6. CASE Crash
    BY <1>3, <1>6 DEF Crash, files
  <1>7. CASE UNCHANGED vars
    BY <1>3, <1>7 DEF vars
  <1>8. QED
    BY <1>1, <1>2, <1>4, <1>5, <1>6, <1>7 DEF Next

\* The log is in the order of the emits through any sequence of failures, partial
\* drains, recoveries and crashes; a record may be there twice.
THEOREM TimelineIsOrdered == Spec => []TimelineOrdered
  <1>1. Init => OrderInv
    BY DEF Init, OrderInv, Sorted, Follows, ToSet
  <1>2. TypeOK /\ OrderInv => TimelineOrdered
    <2>1. SUFFICES ASSUME TypeOK, OrderInv, NEW i \in DOMAIN primary, NEW j \in DOMAIN primary,
                          i < j, Heartbeat \notin {primary[i], primary[j]}
                   PROVE  Precedes(primary[i], primary[j])
      BY DEF TimelineOrdered
    <2>2. primary[i] \in LogLine /\ primary[j] \in Followers[primary[i]]
      BY <2>1 DEF OrderInv, Sorted, TypeOK, LogLine
    <2>3. QED
      BY <2>1, <2>2 DEF Followers
  <1>3. QED
    BY <1>1, <1>2, OrderKept, TypeCorrect, PTL DEF Spec

=============================================================================
