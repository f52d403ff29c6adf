--------------------------- MODULE AuditLogProofs ---------------------------
(***************************************************************************)
(* Theorems about AuditLog.  The first part holds for every value of the   *)
(* constants: failed writes that leave bytes behind, records that do not   *)
(* survive re-encoding and any number of gates on one file included.  The  *)
(* second part is about gates that run one at a time on a file system      *)
(* whose failed writes leave nothing behind.                               *)
(***************************************************************************)
EXTENDS AuditLog, AuditChainProofs

(* What a write adds to the file.                                          *)
LEMMA WriteLineType ==
  ASSUME NEW f \in File, NEW r \in Record
  PROVE  /\ WriteLine(f, r) \in File
         /\ WriteLine(f, r).tail = <<>>
         /\ Append(f.tail, r) \in Line
         /\ Len(Append(f.tail, r)) = Len(f.tail) + 1
         /\ Append(f.tail, r)[Len(f.tail) + 1] = r
         /\ WriteLine(f, r).lines = Append(f.lines, Append(f.tail, r))
         /\ Len(WriteLine(f, r).lines) = Len(f.lines) + 1
         /\ WriteLine(f, r).lines[Len(f.lines) + 1] = Append(f.tail, r)
         /\ \A i \in 1..Len(f.lines) : WriteLine(f, r).lines[i] = f.lines[i]
<1>1. f.lines \in Seq(Line) /\ f.tail \in Seq(Pieces) /\ r \in Pieces
  BY DEF File, Pieces
<1>2. Append(f.tail, r) \in Line
  BY <1>1, AppendProperties DEF Line
<1>3. <<>> \in Seq(Pieces)
  BY EmptySeq
<1> QED
  BY <1>1, <1>2, <1>3, AppendProperties DEF WriteLine, File

LEMMA LeftoversType ==
  ASSUME NEW r \in Record
  PROVE  Leftovers(r) \subseteq Seq(Pieces)
BY DEF Leftovers, Pieces

LEMMA WritePartType ==
  ASSUME NEW f \in File, NEW left \in Seq(Pieces)
  PROVE  /\ WritePart(f, left) \in File
         /\ WritePart(f, left).lines = f.lines
         /\ WritePart(f, left).tail = f.tail \o left
<1>1. f.tail \o left \in Seq(Pieces)
  BY ConcatProperties DEF File
<1> QED
  BY <1>1 DEF WritePart, File

LEMMA NewlineType ==
  ASSUME NEW f \in File
  PROVE  /\ [lines |-> Walk(f), tail |-> <<>>] \in File
         /\ Walk([lines |-> Walk(f), tail |-> <<>>]) = Walk(f)
<1>1. Walk(f) \in Seq(Line) /\ <<>> \in Seq(Pieces)
  BY WalkProperties, EmptySeq
<1> QED
  BY <1>1 DEF File, Walk

(* What a truncation leaves: the first n lines, and no fewer if there are  *)
(* not as many.                                                            *)
LEMMA TruncatedProperties ==
  ASSUME NEW f \in File, NEW n \in Nat
  PROVE  /\ Truncated(f, n) \in File
         /\ n > Len(f.lines) => Truncated(f, n).lines = f.lines
         /\ n <= Len(f.lines) =>
              /\ Len(Truncated(f, n).lines) = n
              /\ \A i \in 1..n : Truncated(f, n).lines[i] = f.lines[i]
         /\ n = Len(f.lines) =>
              Truncated(f, n).lines = f.lines /\ Truncated(f, n).tail = <<>>
<1>1. f.lines \in Seq(Line) /\ f.tail \in Seq(Pieces) /\ Len(f.lines) \in Nat
  BY LenProperties DEF File
<1>2. CASE n <= Len(f.lines)
  <2> DEFINE ls == SubSeq(f.lines, 1, n)
  <2>1. \A i \in 1..n : f.lines[i] \in Line
    BY <1>1, <1>2, ElementOfSeq
  <2>2. ls \in Seq(Line) /\ Len(ls) = n /\ \A i \in 1..n : ls[i] = f.lines[i]
    <3>1. /\ ls \in Seq(Line)
          /\ Len(ls) = IF 1 <= n THEN n - 1 + 1 ELSE 0
          /\ \A i \in 1..(n - 1 + 1) : ls[i] = f.lines[1 + i - 1]
      BY <2>1, SubSeqProperties, 1 \in Int, n \in Int
    <3> HIDE DEF ls
    <3>2. \A i \in 1..n : i \in 1..(n - 1 + 1) /\ 1 + i - 1 = i
      OBVIOUS
    <3> QED
      BY <3>1, <3>2
  <2>3. n = Len(f.lines) => ls = f.lines
    BY <1>1, <2>2, SeqEqual
  <2>4. <<>> \in Seq(Pieces)
    BY EmptySeq
  <2>5. Truncated(f, n) = [lines |-> ls, tail |-> <<>>]
    BY <1>2 DEF Truncated
  <2> HIDE DEF ls
  <2>6. Truncated(f, n) \in File
    BY <2>2, <2>4, <2>5 DEF File
  <2> QED
    BY <1>1, <1>2, <2>2, <2>3, <2>5, <2>6
<1>3. CASE ~(n <= Len(f.lines))
  <2>1. Torn \in Pieces
    BY DEF Pieces
  <2>2. Append(f.tail, Torn) \in Seq(Pieces)
    BY <1>1, <2>1, AppendProperties
  <2>3. Truncated(f, n) = [lines |-> f.lines, tail |-> Append(f.tail, Torn)]
    BY <1>3 DEF Truncated, File
  <2>4. Truncated(f, n) \in File
    BY <1>1, <2>2, <2>3 DEF File
  <2> QED
    BY <1>1, <1>3, <2>3, <2>4
<1> QED
  BY <1>2, <1>3

(* The verdict on a file is a phase.                                       *)
LEMMA VerdictType ==
  ASSUME NEW res
  PROVE  Verdict(res) \in Phases
BY DEF Verdict, Phases

-----------------------------------------------------------------------------
(* Every variable keeps its type, whatever fails.                          *)
LEMMA TypeStep ==
  ASSUME TypeOK, [Next]_vars
  PROVE  TypeOK'
<1> USE ConstantsAssumption
<1>1. ASSUME NEW g \in Gates, Start(g)
      PROVE  TypeOK'
  <2>1. [head |-> Verify(file).head, seq |-> Verify(file).lastSeq] \in Point
    BY VerifyPoint DEF TypeOK
  <2> QED
    BY <1>1, <2>1, VerdictType DEF TypeOK, Start, Becomes
<1>2. ASSUME NEW g \in Gates, FindLineEnd(g) \/ CutBack(g)
      PROVE  TypeOK'
  <2>1. Len(file.lines) \in Nat
    BY LenProperties DEF TypeOK, File
  <2>2. Truncated(file, keep[g]) \in File
    BY TruncatedProperties DEF TypeOK
  <2> QED
    BY <1>2, <2>1, <2>2 DEF TypeOK, FindLineEnd, CutBack, Becomes, Phases
<1>3. ASSUME NEW g \in Gates, AppendMissingNewline(g)
      PROVE  TypeOK'
  BY <1>3, NewlineType DEF TypeOK, AppendMissingNewline, Becomes, Phases
<1>4. ASSUME NEW g \in Gates, Serve(g) \/ Stop(g)
      PROVE  TypeOK'
  BY <1>4 DEF TypeOK, Serve, Stop, Becomes, Phases
<1>5. ASSUME NEW g \in Gates, Kill(g)
      PROVE  TypeOK'
  BY <1>5 DEF TypeOK, Kill, Becomes, Phases
<1>6. ASSUME NEW g \in Gates, NEW b \in Bodies, AppendRecord(g, b)
      PROVE  TypeOK'
  <2>1. /\ NextRecord(log[g], b) \in Record
        /\ [head |-> NextRecord(log[g], b).hash, seq |-> NextRecord(log[g], b).seq] \in Point
    BY NextRecordType DEF TypeOK
  <2>2. WriteLine(file, NextRecord(log[g], b)) \in File
    BY <2>1, WriteLineType DEF TypeOK
  <2> QED
    BY <1>6, <2>1, <2>2 DEF TypeOK, AppendRecord, Attempt
<1>7. ASSUME NEW g \in Gates, NEW b \in Bodies, AppendFailed(g, b)
      PROVE  TypeOK'
  <2>1. NextRecord(log[g], b) \in Record
    BY NextRecordType DEF TypeOK
  <2>2. file' \in File
    BY <1>7, <2>1, LeftoversType, WritePartType DEF TypeOK, AppendFailed
  <2> QED
    BY <1>7, <2>2 DEF TypeOK, AppendFailed, Attempt
<1>8. ASSUME NEW g \in Gates, NEW b \in Bodies, KillInWrite(g, b)
      PROVE  TypeOK'
  <2>1. NextRecord(log[g], b) \in Record
    BY NextRecordType DEF TypeOK
  <2>2. file' \in File
    BY <1>8, <2>1, LeftoversType, WritePartType, WriteLineType DEF TypeOK, KillInWrite
  <2> QED
    BY <1>8, <2>2 DEF TypeOK, KillInWrite, Attempt, Becomes, Phases
<1>9. CASE UNCHANGED vars
  BY <1>9 DEF TypeOK, vars
<1> QED
  BY <1>1, <1>2, <1>3, <1>4, <1>5, <1>6, <1>7, <1>8, <1>9 DEF Next

LEMMA TypeInit == Init => TypeOK
<1> SUFFICES ASSUME Init PROVE TypeOK
  OBVIOUS
<1>1. EmptyFile \in File
  BY EmptySeq DEF EmptyFile, File
<1>2. Genesis \in Point
  BY EmptySeq DEF Genesis, GenesisHash, Point, Hashes
<1> QED
  BY <1>1, <1>2, ConstantsAssumption DEF Init, TypeOK, Phases

(* The state keeps its shape for every value of the constants: in          *)
(* particular what a gate resumes from is always a hash and a number, even *)
(* when the file it read was broken (existingChainHead).                   *)
THEOREM TypeCorrect == Spec => []TypeOK
<1>1. TypeOK /\ [Next]_vars => TypeOK'
  BY TypeStep
<1> QED
  BY TypeInit, <1>1, PTL DEF Spec

-----------------------------------------------------------------------------
(* f's terminated lines are kept, in place, by g.                          *)
Keeps(f, g) ==
  /\ Len(f.lines) <= Len(g.lines)
  /\ \A i \in 1..Len(f.lines) : g.lines[i] = f.lines[i]

(* Nothing a gate does touches a line that has its newline, the truncation *)
(* to an end found earlier excepted.                                       *)
LEMMA StepKeepsLines ==
  ASSUME TypeOK, [Next]_vars
  PROVE  Keeps(file, file') \/ \E g \in Gates : CutBack(g)
<1>1. Keeps(file, file)
  BY WalkProperties DEF Keeps, TypeOK
<1>3. ASSUME NEW g \in Gates, AppendMissingNewline(g)
      PROVE  Keeps(file, file')
  <2>1. file'.lines = Walk(file)
    BY <1>3 DEF AppendMissingNewline
  <2>2. /\ Len(file.lines) <= Len(Walk(file))
        /\ \A i \in 1..Len(file.lines) : Walk(file)[i] = file.lines[i]
    BY WalkProperties DEF TypeOK
  <2> QED
    BY <2>1, <2>2 DEF Keeps
<1>4. ASSUME NEW r \in Record
      PROVE  Keeps(file, WriteLine(file, r))
  <2>1. /\ Len(WriteLine(file, r).lines) = Len(file.lines) + 1
        /\ \A i \in 1..Len(file.lines) : WriteLine(file, r).lines[i] = file.lines[i]
    BY WriteLineType DEF TypeOK
  <2>2. Len(file.lines) \in Nat
    BY WalkProperties DEF TypeOK
  <2> QED
    BY <2>1, <2>2 DEF Keeps
<1>5. ASSUME NEW left \in Seq(Pieces)
      PROVE  Keeps(file, WritePart(file, left))
  BY <1>1, WritePartType DEF Keeps, TypeOK
<1>6. ASSUME NEW g \in Gates, NEW b \in Bodies,
             AppendRecord(g, b) \/ AppendFailed(g, b) \/ KillInWrite(g, b)
      PROVE  Keeps(file, file')
  <2>1. NextRecord(log[g], b) \in Record
    BY NextRecordType DEF TypeOK
  <2>2. \/ file' = WriteLine(file, NextRecord(log[g], b))
        \/ \E left \in Leftovers(NextRecord(log[g], b)) : file' = WritePart(file, left)
    BY <1>6 DEF AppendRecord, AppendFailed, KillInWrite
  <2> QED
    BY <1>4, <1>5, <2>1, <2>2, LeftoversType
<1>7. ASSUME NEW g \in Gates,
             Start(g) \/ FindLineEnd(g) \/ Serve(g) \/ Stop(g) \/ Kill(g)
      PROVE  Keeps(file, file')
  BY <1>1, <1>7 DEF Start, FindLineEnd, Serve, Stop, Kill
<1>8. CASE UNCHANGED vars
  BY <1>1, <1>8 DEF vars
<1> QED
  BY <1>3, <1>6, <1>7, <1>8 DEF Next

(* Line i of f holds r and is not beyond the end any gate is about to      *)
(* truncate the file to.                                                   *)
HasAt(r, f, i) == i \in 1..Len(f.lines) /\ \E j \in 1..Len(f.lines[i]) : f.lines[i][j] = r

OutOfReach(i) == \A g \in Gates : phase[g] = "cutting" => i <= keep[g]

SafeOnDisk(r) == \E i \in Nat : HasAt(r, file, i) /\ OutOfReach(i)

LEMMA HasAtKept ==
  ASSUME NEW f \in File, NEW g \in File, Keeps(f, g), NEW r, NEW i, HasAt(r, f, i)
  PROVE  HasAt(r, g, i)
<1>1. i \in 1..Len(g.lines) /\ g.lines[i] = f.lines[i]
  BY WalkProperties DEF Keeps, HasAt
<1> QED
  BY <1>1 DEF HasAt

(* A gate enters the cutting phase by its search only, which finds an end  *)
(* no line of the file is beyond.                                          *)
LEMMA ReachStep ==
  ASSUME TypeOK, [Next]_vars, NEW i \in Nat, i <= Len(file.lines), OutOfReach(i)
  PROVE  OutOfReach(i)'
<1>1. ASSUME NEW g \in Gates, FindLineEnd(g)
      PROVE  OutOfReach(i)'
  BY <1>1 DEF FindLineEnd, Becomes, OutOfReach, TypeOK
<1>2. ASSUME NEW g \in Gates, NEW p \in Phases \ {"cutting"}, Becomes(g, p), keep' = keep
      PROVE  OutOfReach(i)'
  BY <1>2 DEF Becomes, OutOfReach, TypeOK
<1>3. CASE phase' = phase /\ keep' = keep
  BY <1>3 DEF OutOfReach
<1>4. ASSUME NEW g \in Gates, Start(g)
      PROVE  Verdict(Verify(file)) \in Phases \ {"cutting"}
  BY DEF Verdict, Phases
<1>5. {"down", "verified", "serving"} \subseteq Phases \ {"cutting"}
  BY DEF Phases
<1>6. \/ \E g \in Gates : FindLineEnd(g)
      \/ \E g \in Gates : Start(g) /\ Becomes(g, Verdict(Verify(file))) /\ keep' = keep
      \/ \E g \in Gates, p \in {"down", "verified", "serving"} : Becomes(g, p) /\ keep' = keep
      \/ phase' = phase /\ keep' = keep
  BY DEF Next, vars, Start, CutBack, AppendMissingNewline, Serve, Kill, Stop,
         AppendRecord, AppendFailed, KillInWrite
<1> QED
  BY <1>1, <1>2, <1>3, <1>4, <1>5, <1>6

(* A record that is safe on disk stays so: the lines of a truncated file   *)
(* that go are those beyond the end that was found.                        *)
LEMMA SafeOnDiskStep ==
  ASSUME TypeOK, TypeOK', [Next]_vars, NEW r, SafeOnDisk(r)
  PROVE  SafeOnDisk(r)'
<1>0. file \in File /\ file' \in File /\ keep \in [Gates -> Nat] /\ Len(file.lines) \in Nat
  BY LenProperties DEF TypeOK, File
<1>1. PICK i \in Nat : HasAt(r, file, i) /\ OutOfReach(i)
  BY DEF SafeOnDisk
<1>2. i \in 1..Len(file.lines)
  BY <1>1 DEF HasAt
<1>3. OutOfReach(i)'
  BY <1>0, <1>1, <1>2, ReachStep
<1>4. ASSUME NEW g \in Gates, CutBack(g)
      PROVE  HasAt(r, file', i)
  <2>1. file' = Truncated(file, keep[g]) /\ i <= keep[g] /\ keep[g] \in Nat
    BY <1>0, <1>1, <1>4 DEF CutBack, OutOfReach
  <2> DEFINE n == keep[g]
             f == Truncated(file, n)
  <2>2. /\ n > Len(file.lines) => f.lines = file.lines
        /\ n <= Len(file.lines) =>
             Len(f.lines) = n /\ \A k \in 1..n : f.lines[k] = file.lines[k]
    BY <1>0, <2>1, TruncatedProperties
  <2>3. file' = f /\ n \in Nat /\ i <= n
    BY <2>1
  <2> HIDE DEF n, f
  <2>4. i \in 1..Len(f.lines) /\ f.lines[i] = file.lines[i]
    <3>1. CASE n > Len(file.lines)
      BY <1>2, <2>2, <3>1
    <3>2. CASE n <= Len(file.lines)
      <4>1. i \in 1..n
        BY <1>2, <2>3
      <4> QED
        BY <2>2, <3>2, <4>1
    <3> QED
      BY <1>0, <2>3, <3>1, <3>2
  <2> QED
    BY <1>1, <2>3, <2>4 DEF HasAt
<1>5. ASSUME Keeps(file, file')
      PROVE  HasAt(r, file', i)
  BY <1>0, <1>1, <1>5, HasAtKept
<1>6. HasAt(r, file', i)
  BY <1>4, <1>5, StepKeepsLines
<1> QED
  BY <1>3, <1>6 DEF SafeOnDisk

LEMMA AckedOnDiskStep ==
  ASSUME TypeOK, TypeOK', [Next]_vars, \A r \in acked \ exposed : SafeOnDisk(r)
  PROVE  \A r \in (acked \ exposed)' : SafeOnDisk(r)'
<1>1. \A r \in acked \ exposed : SafeOnDisk(r)'
  BY SafeOnDiskStep
<1>2. ASSUME NEW g \in Gates, NEW b \in Bodies, AppendRecord(g, b)
      PROVE  \A r \in (acked \ exposed)' : SafeOnDisk(r)'
  <2>0. NextRecord(log[g], b) \in Record
    BY NextRecordType DEF TypeOK
  <2>1. PICK r \in Record : r = NextRecord(log[g], b)
    BY <2>0
  <2>2. /\ file' = WriteLine(file, r) /\ acked' = acked \cup {r}
        /\ phase' = phase /\ keep' = keep
        /\ exposed' = IF \E h \in Gates : phase[h] = "cutting" THEN exposed \cup {r} ELSE exposed
    BY <1>2, <2>1 DEF AppendRecord
  <2>3. Len(file.lines) \in Nat /\ Len(file.tail) \in Nat
    BY LenProperties DEF TypeOK, File
  <2>4. PICK i \in Nat : i = Len(file.lines) + 1
    BY <2>3
  <2>8. HasAt(r, file', i)
    <3> DEFINE j == Len(file.tail) + 1
    <3>1. /\ Len(file'.lines) = i
          /\ file'.lines[i] = Append(file.tail, r)
          /\ Len(Append(file.tail, r)) = j
          /\ Append(file.tail, r)[j] = r
      BY <2>1, <2>2, <2>4, WriteLineType DEF TypeOK
    <3>2. i \in 1..i /\ j \in 1..j
      BY <2>3, <2>4
    <3> HIDE DEF j
    <3> QED
      BY <3>1, <3>2 DEF HasAt
  <2>5. ASSUME \A h \in Gates : phase[h] # "cutting"
        PROVE  SafeOnDisk(r)'
    <3>1. OutOfReach(i)'
      BY <2>2, <2>5 DEF OutOfReach
    <3> QED
      BY <2>8, <3>1 DEF SafeOnDisk
  <2>6. exposed \subseteq exposed' /\ (r \notin exposed' => \A h \in Gates : phase[h] # "cutting")
    BY <2>2
  <2>7. \A q \in (acked \ exposed)' : q \in acked \ exposed \/ (q = r /\ r \notin exposed')
    BY <2>2, <2>6
  <2> QED
    BY <1>1, <2>5, <2>6, <2>7
<1>3. CASE acked' = acked /\ exposed' = exposed
  BY <1>1, <1>3
<1>4. \/ \E g \in Gates : \E b \in Bodies : AppendRecord(g, b)
      \/ acked' = acked /\ exposed' = exposed
  BY DEF Next, Start, FindLineEnd, CutBack, AppendMissingNewline, Serve, Kill, Stop,
         AppendFailed, KillInWrite, vars
<1> QED
  BY <1>2, <1>3, <1>4

(* r is one of the pieces on the terminated lines of f.                    *)
OnDisk(r, f) ==
  \E i \in 1..Len(f.lines) : \E j \in 1..Len(f.lines[i]) : f.lines[i][j] = r

LEMMA SafeIsOnDisk ==
  ASSUME NEW r, SafeOnDisk(r)
  PROVE  OnDisk(r, file)
BY DEF SafeOnDisk, HasAt, OnDisk

LEMMA OnDiskIsAckedStaysOnDisk ==
  ASSUME TypeOK
  PROVE  AckedStaysOnDisk <=> \A r \in acked \ exposed : OnDisk(r, file)
<1>1. DOMAIN file.lines = 1..Len(file.lines)
  BY LenProperties DEF TypeOK, File
<1>2. \A i \in 1..Len(file.lines) : DOMAIN file.lines[i] = 1..Len(file.lines[i])
  <2> TAKE i \in 1..Len(file.lines)
  <2>1. file.lines[i] \in Seq(Pieces)
    BY ElementOfSeq DEF TypeOK, File, Line
  <2> QED
    BY <2>1, LenProperties
<1> QED
  BY <1>1, <1>2 DEF AckedStaysOnDisk, OnDisk

(* For every value of the constants: the bytes of a record whose Append    *)
(* returned without an error are never removed from the file, by a         *)
(* restart's repair or by anything else, unless they were written between  *)
(* the two halves of another gate's truncatePartialLine.                   *)
THEOREM AckedStaysOnDiskAlways == Spec => []AckedStaysOnDisk
<1> DEFINE Safe == \A r \in acked \ exposed : SafeOnDisk(r)
<1>1. Init => TypeOK /\ Safe
  BY TypeInit DEF Init
<1>2. TypeOK /\ Safe /\ [Next]_vars => TypeOK' /\ Safe'
  BY TypeStep, AckedOnDiskStep
<1>3. TypeOK /\ Safe => AckedStaysOnDisk
  BY OnDiskIsAckedStaysOnDisk, SafeIsOnDisk
<1> QED
  BY <1>1, <1>2, <1>3, PTL DEF Spec

-----------------------------------------------------------------------------
(* The records Verify vouches for, when it answers that the log is intact, *)
(* include every record on a terminated line.                              *)
LEMMA IntactEvidence ==
  ASSUME NEW f \in File, Verify(f).ok, NEW r, OnDisk(r, f)
  PROVE  \E i \in DOMAIN Evidence(f) : Evidence(f)[i] = r
<1> DEFINE n == Verified(Walk(f), Genesis)
<1>1. \A i \in 1..Len(f.lines) : Holds(f.lines, i, Genesis)
  BY OkIffIntact DEF Verify, Intact
<1>2. PICK i \in 1..Len(f.lines) : \E j \in 1..Len(f.lines[i]) : f.lines[i][j] = r
  BY DEF OnDisk
<1>3. Len(f.lines[i]) = 1
  BY <1>1, HoldsIsRecord DEF File
<1>4. f.lines[i][1] = r
  BY <1>2, <1>3
<1>5. /\ n \in 0..Len(Walk(f))
      /\ n < Len(Walk(f)) => ~Holds(Walk(f), n + 1, Genesis)
  BY WalkProperties, VerifiedProperties
<1>6. \A k \in 1..Len(f.lines) : Holds(Walk(f), k, Genesis)
  BY <1>1, HoldsInWalk
<1>7. Len(f.lines) \in Nat /\ Len(Walk(f)) \in Nat /\ Len(f.lines) <= Len(Walk(f))
  BY WalkProperties, LenProperties
<1> HIDE DEF n
<1>8. Len(f.lines) <= n
  BY <1>5, <1>6, <1>7
<1>9. i \in 1..n /\ Walk(f)[i] = f.lines[i]
  BY <1>5, <1>7, <1>8, WalkProperties
<1> QED
  BY <1>4, <1>9 DEF Evidence, n

(* For every value of the constants, and with the same exception: a loss   *)
(* is never silent.  If a record a caller was told is written is not among *)
(* the records that verify, Verify answers BROKEN.                         *)
THEOREM LossIsVisibleAlways == Spec => []LossIsVisible
<1>1. TypeOK /\ AckedStaysOnDisk => LossIsVisible
  BY OnDiskIsAckedStaysOnDisk, IntactEvidence DEF LossIsVisible, TypeOK
<1> QED
  BY <1>1, TypeCorrect, AckedStaysOnDiskAlways, PTL

-----------------------------------------------------------------------------
(* Whatever is written to a file, a log that verifies afterwards verified  *)
(* before: what follows the last newline can only be made worse.           *)
LEMMA WriteLineBreaksNothingBack ==
  ASSUME NEW f \in File, NEW r \in Record, Intact(WriteLine(f, r), Genesis)
  PROVE  Intact(f, Genesis)
<1> DEFINE L == Len(f.lines)
           g == WriteLine(f, r)
<1>1. /\ f.lines \in Seq(Line) /\ f.tail \in Seq(Pieces) /\ L \in Nat
      /\ g.lines = Append(f.lines, Append(f.tail, r))
      /\ Append(f.tail, r) \in Line
      /\ g.lines[L + 1] = Append(f.tail, r)
      /\ Len(g.lines) = L + 1
      /\ Len(Append(f.tail, r)) = Len(f.tail) + 1
  BY WriteLineType, LenProperties DEF File
<1>2. \A i \in 1..(L + 1) : Holds(g.lines, i, Genesis)
  BY <1>1 DEF Intact
<1>3. \A i \in 1..L : Holds(f.lines, i, Genesis)
  BY <1>1, <1>2, HoldsOfAppend
<1>4. Len(Append(f.tail, r)) = 1
  BY <1>1, <1>2 DEF Holds, Decodes
<1>5. f.tail = <<>>
  <2>1. Len(f.tail) = 0
    BY <1>1, <1>4, LenProperties
  <2> QED
    BY <1>1, <2>1, EmptySeq
<1> QED
  BY <1>3, <1>5 DEF Intact

LEMMA WritePartBreaksNothingBack ==
  ASSUME NEW f \in File, NEW left \in Seq(Pieces), Intact(WritePart(f, left), Genesis)
  PROVE  Intact(f, Genesis)
<1> DEFINE L == Len(f.lines)
           g == WritePart(f, left)
<1>1. /\ f.tail \in Seq(Pieces) /\ L \in Nat /\ Len(f.tail) \in Nat /\ Len(left) \in Nat
      /\ g \in File /\ g.lines = f.lines /\ g.tail = f.tail \o left
      /\ Len(g.tail) = Len(f.tail) + Len(left)
  <2>1. f.tail \in Seq(Pieces) /\ f.lines \in Seq(Line)
    BY DEF File
  <2>2. g \in File /\ g.lines = f.lines /\ g.tail = f.tail \o left
    BY WritePartType
  <2>3. Len(f.tail \o left) = Len(f.tail) + Len(left)
    BY <2>1, ConcatProperties
  <2> QED
    BY <2>1, <2>2, <2>3, LenProperties
<1>2. \A i \in 1..L : Holds(f.lines, i, Genesis)
  BY <1>1 DEF Intact
<1>3. CASE f.tail = <<>>
  BY <1>2, <1>3 DEF Intact
<1>4. CASE f.tail # <<>> /\ g.tail[1] = Torn
  <2>1. Len(f.tail) > 0
    BY <1>1, <1>4, EmptySeq
  <2>2. g.tail[1] = f.tail[1]
    BY <1>1, <2>1, ConcatProperties
  <2> QED
    BY <1>2, <1>4, <2>2 DEF Intact
<1>5. CASE f.tail # <<>> /\ g.tail[1] # Torn
  <2>1. Len(f.tail) > 0 /\ g.tail # <<>>
    BY <1>1, <1>5, EmptySeq
  <2>2. Holds(Walk(g), L + 1, Genesis)
    BY <1>1, <1>5, <2>1 DEF Intact
  <2>3. Len(g.tail) = 1
    <3>1. Walk(g)[L + 1] = g.tail
      BY <1>1, <2>1, WalkProperties
    <3> QED
      BY <2>2, <3>1 DEF Holds, Decodes
  <2>4. Len(left) = 0
    BY <1>1, <2>1, <2>3
  <2>5. g.tail = f.tail
    BY <1>1, <2>4, EmptySeq, ConcatEmptySeq
  <2>6. Walk(g) = Walk(f)
    BY <1>1, <2>5 DEF Walk
  <2> QED
    BY <1>2, <2>2, <2>6 DEF Intact
<1> QED
  BY <1>3, <1>4, <1>5

LEMMA BreaksAreKeptStep ==
  ASSUME TypeOK, [Next]_vars, ~Verify(file).ok, \A g \in Gates : phase[g] # "cutting"
  PROVE  ~Verify(file').ok
<1> SUFFICES ASSUME Verify(file').ok PROVE Verify(file).ok
  OBVIOUS
<1>1. file \in File /\ file' \in File
  BY TypeStep DEF TypeOK
<1>2. Intact(file', Genesis)
  BY <1>1, OkIffIntact DEF Verify
<1>3. ASSUME NEW g \in Gates, AppendMissingNewline(g)
      PROVE  Verify(file).ok
  <2>1. file'.lines = Walk(file)
    BY <1>3 DEF AppendMissingNewline
  <2>2. \A i \in 1..Len(Walk(file)) : Holds(Walk(file), i, Genesis)
    BY <1>2, <2>1 DEF Intact
  <2>3. /\ Len(file.lines) \in Nat
        /\ file.tail = <<>> => Len(Walk(file)) = Len(file.lines)
        /\ file.tail # <<>> => Len(Walk(file)) = Len(file.lines) + 1
    BY <1>1, WalkProperties
  <2>4. \A i \in 1..Len(file.lines) : Holds(file.lines, i, Genesis)
    BY <1>1, <2>2, <2>3, HoldsInWalk
  <2>5. Intact(file, Genesis)
    BY <2>2, <2>3, <2>4 DEF Intact
  <2> QED
    BY <1>1, <2>5, OkIffIntact DEF Verify
<1>4. ASSUME NEW g \in Gates, NEW b \in Bodies,
             AppendRecord(g, b) \/ AppendFailed(g, b) \/ KillInWrite(g, b)
      PROVE  Verify(file).ok
  <2>1. NextRecord(log[g], b) \in Record
    BY NextRecordType DEF TypeOK
  <2>2. \/ file' = WriteLine(file, NextRecord(log[g], b))
        \/ \E left \in Leftovers(NextRecord(log[g], b)) : file' = WritePart(file, left)
    BY <1>4 DEF AppendRecord, AppendFailed, KillInWrite
  <2>3. Intact(file, Genesis)
    BY <1>1, <1>2, <2>1, <2>2, LeftoversType, WriteLineBreaksNothingBack,
       WritePartBreaksNothingBack
  <2> QED
    BY <1>1, <2>3, OkIffIntact DEF Verify
<1>5. CASE file' = file
  <2> QED
    BY <1>1, <1>2, <1>5, OkIffIntact DEF Verify
<1>6. \/ \E g \in Gates : AppendMissingNewline(g)
      \/ \E g \in Gates : \E b \in Bodies :
           AppendRecord(g, b) \/ AppendFailed(g, b) \/ KillInWrite(g, b)
      \/ file' = file
  BY DEF Next, Start, FindLineEnd, CutBack, Serve, Kill, Stop, vars
<1> QED
  BY <1>3, <1>4, <1>5, <1>6

LEMMA BrokenIsRefused ==
  ASSUME TypeOK, [Next]_vars, ~Verify(file).ok, NEW g \in Gates, phase[g] = "down"
  PROVE  phase'[g] \in {"down", "refused"}
<1>0. phase \in [Gates -> Phases]
  BY DEF TypeOK
<1>1. ASSUME NEW h \in Gates, Start(h)
      PROVE  phase'[g] \in {"down", "refused"}
  <2>1. Verdict(Verify(file)) = "refused"
    BY DEF Verdict
  <2>2. phase' = [phase EXCEPT ![h] = "refused"]
    BY <1>1, <2>1 DEF Start, Becomes
  <2> QED
    BY <1>0, <2>2
<1>2. ASSUME NEW h \in Gates, h # g, NEW p \in Phases, Becomes(h, p)
      PROVE  phase'[g] \in {"down", "refused"}
  BY <1>0, <1>2 DEF Becomes
<1>3. CASE phase' = phase
  BY <1>3
<1>4. {"down", "cutting", "verified", "serving"} \subseteq Phases
  BY DEF Phases
<1>5. \/ phase' = phase
      \/ \E h \in Gates : Start(h)
      \/ \E h \in Gates, p \in {"down", "cutting", "verified", "serving"} :
           phase[h] # "down" /\ Becomes(h, p)
  BY DEF Next, vars, FindLineEnd, CutBack, AppendMissingNewline, Serve, Kill, Idle, Stop,
         AppendRecord, AppendFailed, KillInWrite, Attempt
<1> QED
  BY <1>1, <1>2, <1>3, <1>4, <1>5

(* For every value of the constants: a log that Verify calls broken is     *)
(* refused by every start and stays broken, unless a gate that had found   *)
(* its end of the last line before the break was written still cuts there. *)
THEOREM BreaksAreKeptAlways == Spec => BreaksAreKept
<1>1. TypeOK /\ [Next]_vars =>
        [ ~Verify(file).ok =>
            /\ \A g \in Gates : phase[g] = "down" => phase'[g] \in {"down", "refused"}
            /\ (\A g \in Gates : phase[g] # "cutting") => ~Verify(file').ok ]_vars
  BY BreaksAreKeptStep, BrokenIsRefused
<1> QED
  BY <1>1, TypeCorrect, PTL DEF Spec, BreaksAreKept

-----------------------------------------------------------------------------
(* From here on: gates run one at a time, a failed write leaves no bytes,  *)
(* and every record survives re-encoding.                                  *)
Reliable == Exclusive /\ ~PartialWrites /\ Garbled = {}

(* The point a chain of verified lines ends on.                            *)
Tip(ls) == Reached(ls, Len(ls) + 1, Genesis)

TipOf(f) == [head |-> Verify(f).head, seq |-> Verify(f).lastSeq]

(* What existingChainHead concludes from a file that is intact.            *)
LEMMA VerdictOnIntact ==
  ASSUME NEW f \in File, Intact(f, Genesis)
  PROVE  /\ f.tail = <<>> => /\ Verdict(Verify(f)) = "verified"
                            /\ TipOf(f) = Tip(f.lines)
         /\ f.tail # <<>> /\ f.tail[1] = Torn =>
              /\ Verdict(Verify(f)) = "truncating"
              /\ TipOf(f) = Tip(f.lines)
         /\ f.tail # <<>> /\ f.tail[1] # Torn =>
              /\ Verdict(Verify(f)) = "terminating"
              /\ TipOf(f) = Tip(Walk(f))
<1> DEFINE ls == Walk(f)
           L == Len(f.lines)
           n == Verified(Walk(f), Genesis)
<1>1. /\ \A i \in 1..L : Holds(f.lines, i, Genesis)
      /\ \A i \in 1..L : Holds(ls, i, Genesis)
      /\ L \in Nat /\ f.lines \in Seq(Line) /\ ls \in Seq(Line)
  BY HoldsInWalk, WalkProperties DEF Intact, File
<1>2. Verify(f).ok
  BY OkIffIntact DEF Verify
<1>3. /\ Verify(f).truncatedTail = TornTail(f, Genesis)
      /\ Verify(f).unterminatedFinalRecord = (Whole(f, Genesis) /\ f.tail # <<>>)
      /\ TipOf(f) = [head |-> Reached(ls, n + 1, Genesis).head,
                     seq |-> Reached(ls, n + 1, Genesis).seq]
  BY VerifyFields DEF Verify, TipOf
<1>4. TipOf(f) = Reached(ls, n + 1, Genesis)
  BY <1>3 DEF Reached, Genesis
<1>5. CASE f.tail = <<>>
  <2>1. ls = f.lines
    BY <1>5, WalkProperties
  <2>2. n = L
    BY <1>1, <2>1, VerifiedIs
  <2>3. Whole(f, Genesis) /\ ~TornTail(f, Genesis)
    BY <1>5, <2>1, <2>2 DEF Whole, TornTail, EndsMidRecord
  <2>4. Verdict(Verify(f)) = "verified"
    BY <1>2, <1>3, <1>5, <2>3, Zenon DEF Verdict
  <2>5. TipOf(f) = Tip(f.lines)
    BY <1>4, <2>1, <2>2 DEF Tip
  <2> QED
    BY <1>5, <2>4, <2>5
<1>6. CASE f.tail # <<>> /\ f.tail[1] = Torn
  <2>1. Len(ls) = L + 1 /\ ls[L + 1] = f.tail
    BY <1>6, WalkProperties
  <2>2. ~Holds(ls, L + 1, Genesis)
    BY <1>6, <2>1 DEF Holds, Decodes
  <2>3. n = L
    BY <1>1, <2>1, <2>2, VerifiedIs
  <2>4. TornTail(f, Genesis)
    BY <1>1, <1>6, <2>1, <2>3 DEF TornTail, EndsMidRecord
  <2>5. Verdict(Verify(f)) = "truncating"
    BY <1>2, <1>3, <2>4, Zenon DEF Verdict
  <2>6. TipOf(f) = Reached(ls, L + 1, Genesis)
    BY <1>4, <2>3
  <2>7. Reached(ls, L + 1, Genesis) = Reached(f.lines, L + 1, Genesis)
    BY <1>1, WalkProperties DEF Reached
  <2> QED
    BY <1>6, <2>5, <2>6, <2>7 DEF Tip
<1>7. CASE f.tail # <<>> /\ f.tail[1] # Torn
  <2>1. Len(ls) = L + 1 /\ ls[L + 1] = f.tail
    BY <1>7, WalkProperties
  <2>2. \A i \in 1..(L + 1) : Holds(ls, i, Genesis)
    BY <1>1, <1>7 DEF Intact
  <2>3. n = L + 1
    BY <1>1, <2>1, <2>2, VerifiedIs
  <2>4. Whole(f, Genesis) /\ ~TornTail(f, Genesis)
    BY <1>7, <2>1, <2>3 DEF Whole, TornTail, EndsMidRecord
  <2>5. Verdict(Verify(f)) = "terminating"
    BY <1>2, <1>3, <1>7, <2>4, Zenon DEF Verdict
  <2>6. TipOf(f) = Tip(ls)
    BY <1>4, <2>1, <2>3 DEF Tip
  <2> QED
    BY <1>7, <2>5, <2>6
<1> QED
  BY <1>5, <1>6, <1>7

(* The record Append builds on the tip of a chain extends the chain.       *)
LEMMA NextRecordExtends ==
  ASSUME NEW ls \in Seq(Line), NEW b \in Bodies, b \notin Garbled,
         NextRecord(Tip(ls), b) \in Record
  PROVE  LET r == NextRecord(Tip(ls), b) IN
         /\ Holds(Append(ls, <<r>>), Len(ls) + 1, Genesis)
         /\ Tip(Append(ls, <<r>>)) = [head |-> r.hash, seq |-> r.seq]
<1> DEFINE r == NextRecord(Tip(ls), b)
           L == Len(ls)
           ms == Append(ls, <<r>>)
<1>1. <<r>> \in Line
  BY DEF Line, Pieces
<1>2. /\ L \in Nat /\ Len(ms) = L + 1 /\ ms[L + 1] = <<r>>
      /\ \A i \in 1..L : ms[i] = ls[i]
  BY <1>1, AppendProperties, LenProperties
<1>3. Reached(ms, L + 1, Genesis) = Tip(ls)
  BY <1>2 DEF Reached, Tip
<1>4. r # Torn
  BY TornIsNoRecord
<1>5. Holds(ms, L + 1, Genesis)
  BY <1>2, <1>3, <1>4 DEF Holds, Decodes, NextRecord, Reencode
<1>6. Tip(ms) = [head |-> r.hash, seq |-> r.seq]
  BY <1>2 DEF Tip, Reached
<1> QED
  BY <1>5, <1>6

-----------------------------------------------------------------------------
(* What a gate's phase says of the file and of the point it resumes from:  *)
(* the file is repaired before it is served, and memory is on its tip.     *)
PhaseAgrees(g) ==
  /\ phase[g] # "refused"
  /\ phase[g] = "truncating" =>
       file.tail # <<>> /\ file.tail[1] = Torn /\ log[g] = Tip(file.lines)
  /\ phase[g] = "cutting" =>
       file.tail # <<>> /\ file.tail[1] = Torn /\ log[g] = Tip(file.lines) /\ keep[g] = Len(file.lines)
  /\ phase[g] = "terminating" =>
       file.tail # <<>> /\ file.tail[1] # Torn /\ log[g] = Tip(Walk(file))
  /\ phase[g] \in {"verified", "serving"} =>
       file.tail = <<>> /\ log[g] = Tip(file.lines)

AtMostOneRuns == \A g, h \in Gates : ~Idle(g) /\ ~Idle(h) => g = h

(* The inductive invariant: the properties alone say nothing of the steps  *)
(* between the verdict and the first append.  A gate that is about to      *)
(* truncate runs alone, so no record is exposed to it.                     *)
IInv ==
  /\ TypeOK
  /\ exposed = {}
  /\ Intact(file, Genesis)
  /\ AtMostOneRuns
  /\ \A g \in Gates : PhaseAgrees(g)

LEMMA IInvInit == Init => IInv
<1> SUFFICES ASSUME Init PROVE IInv
  OBVIOUS
<1>1. TypeOK
  BY TypeInit
<1>2. Intact(file, Genesis)
  BY DEF Init, EmptyFile, Intact
<1>3. exposed = {} /\ AtMostOneRuns /\ \A g \in Gates : PhaseAgrees(g)
  BY DEF Init, AtMostOneRuns, Idle, PhaseAgrees
<1> QED
  BY <1>1, <1>2, <1>3 DEF IInv

(* A gate that is not idle is alone, so a step of its own need only        *)
(* restore its own agreement with the file.                                *)
LEMMA AloneSuffices ==
  ASSUME IInv, NEW g \in Gates, NEW p \in Phases,
         \/ ~Idle(g)
         \/ \A h \in Gates : Idle(h),
         Becomes(g, p),
         \A h \in Gates : h # g => log'[h] = log[h] /\ keep'[h] = keep[h],
         PhaseAgrees(g)'
  PROVE  AtMostOneRuns' /\ \A h \in Gates : PhaseAgrees(h)'
<1>1. \A h \in Gates : h # g => phase[h] = "down" /\ phase'[h] = "down"
  BY DEF IInv, TypeOK, Becomes, AtMostOneRuns, Idle, PhaseAgrees
<1>2. AtMostOneRuns'
  BY <1>1 DEF AtMostOneRuns, Idle
<1>3. \A h \in Gates : h # g => PhaseAgrees(h)'
  BY <1>1 DEF PhaseAgrees
<1> QED
  BY <1>2, <1>3

LEMMA IInvStep ==
  ASSUME Reliable, IInv, [Next]_vars
  PROVE  IInv'
<1>1. TypeOK'
  BY TypeStep DEF IInv
<1>2. ASSUME NEW g \in Gates, Start(g)
      PROVE  IInv'
  <2> DEFINE p == Verdict(Verify(file))
  <2>1. /\ p \in Phases /\ Becomes(g, p) /\ (\A h \in Gates : Idle(h))
        /\ file' = file /\ keep' = keep /\ exposed' = exposed
    BY <1>2, VerdictType DEF Start, Reliable
  <2>2. log' = [log EXCEPT ![g] = TipOf(file)]
    BY <1>2 DEF Start, TipOf
  <2>3. phase'[g] = p /\ log'[g] = TipOf(file)
    BY <2>1, <2>2 DEF IInv, TypeOK, Becomes
  <2>4. /\ file \in File
        /\ Intact(file, Genesis)
    BY DEF IInv, TypeOK
  <2>5. PhaseAgrees(g)'
    BY <2>1, <2>3, <2>4, VerdictOnIntact DEF PhaseAgrees
  <2>6. \A h \in Gates : h # g => log'[h] = log[h] /\ keep'[h] = keep[h]
    BY <2>1, <2>2 DEF IInv, TypeOK
  <2> HIDE DEF p
  <2>7. AtMostOneRuns' /\ \A h \in Gates : PhaseAgrees(h)'
    BY <2>1, <2>5, <2>6, AloneSuffices
  <2> QED
    BY <1>1, <2>1, <2>4, <2>7 DEF IInv
<1>3. ASSUME NEW g \in Gates, FindLineEnd(g)
      PROVE  IInv'
  <2>1. /\ phase[g] = "truncating" /\ Becomes(g, "cutting") /\ log' = log
        /\ file' = file /\ keep' = [keep EXCEPT ![g] = Len(file.lines)] /\ exposed' = exposed
    BY <1>3 DEF FindLineEnd
  <2>2. PhaseAgrees(g)'
    BY <2>1 DEF IInv, TypeOK, PhaseAgrees, Becomes
  <2>3. ~Idle(g) /\ "cutting" \in Phases
    BY <2>1 DEF Idle, Phases
  <2>4. \A h \in Gates : h # g => log'[h] = log[h] /\ keep'[h] = keep[h]
    BY <2>1 DEF IInv, TypeOK
  <2>5. AtMostOneRuns' /\ \A h \in Gates : PhaseAgrees(h)'
    BY <2>1, <2>2, <2>3, <2>4, AloneSuffices
  <2> QED
    BY <1>1, <2>1, <2>5 DEF IInv
<1>12. ASSUME NEW g \in Gates, CutBack(g)
       PROVE  IInv'
  <2>1. /\ phase[g] = "cutting" /\ Becomes(g, "verified") /\ log' = log /\ keep' = keep
        /\ file' = Truncated(file, keep[g]) /\ exposed' = exposed
    BY <1>12 DEF CutBack
  <2>2. file'.tail = <<>> /\ file'.lines = file.lines
    <3>1. keep[g] = Len(file.lines) /\ keep[g] \in Nat /\ file \in File
      BY <2>1 DEF IInv, TypeOK, PhaseAgrees
    <3> QED
      BY <2>1, <3>1, TruncatedProperties
  <2>3. Intact(file', Genesis)
    BY <2>2 DEF IInv, Intact
  <2>4. PhaseAgrees(g)'
    BY <2>1, <2>2 DEF IInv, TypeOK, PhaseAgrees, Becomes
  <2>5. ~Idle(g) /\ "verified" \in Phases
    BY <2>1 DEF Idle, Phases
  <2>6. AtMostOneRuns' /\ \A h \in Gates : PhaseAgrees(h)'
    BY <2>1, <2>4, <2>5, AloneSuffices
  <2> QED
    BY <1>1, <2>1, <2>3, <2>6 DEF IInv
<1>4. ASSUME NEW g \in Gates, AppendMissingNewline(g)
      PROVE  IInv'
  <2>1. /\ phase[g] = "terminating" /\ Becomes(g, "verified") /\ log' = log
        /\ keep' = keep /\ exposed' = exposed
        /\ file' = [lines |-> Walk(file), tail |-> <<>>]
    BY <1>4 DEF AppendMissingNewline
  <2>2. /\ file \in File /\ Intact(file, Genesis)
        /\ file.tail # <<>> /\ file.tail[1] # Torn /\ log[g] = Tip(Walk(file))
    BY <2>1 DEF IInv, TypeOK, PhaseAgrees
  <2>3. Intact(file', Genesis)
    <3>1. /\ Len(file.lines) \in Nat
          /\ Len(Walk(file)) = Len(file.lines) + 1
      BY <2>2, WalkProperties
    <3>2. \A i \in 1..Len(Walk(file)) : Holds(Walk(file), i, Genesis)
      BY <2>2, <3>1, HoldsInWalk DEF Intact
    <3> QED
      BY <2>1, <3>2 DEF Intact
  <2>4. PhaseAgrees(g)'
    BY <2>1, <2>2 DEF IInv, TypeOK, PhaseAgrees, Becomes
  <2>5. ~Idle(g) /\ "verified" \in Phases
    BY <2>1 DEF Idle, Phases
  <2>6. AtMostOneRuns' /\ \A h \in Gates : PhaseAgrees(h)'
    BY <2>1, <2>4, <2>5, AloneSuffices
  <2> QED
    BY <1>1, <2>1, <2>3, <2>6 DEF IInv
<1>5. ASSUME NEW g \in Gates, Serve(g)
      PROVE  IInv'
  <2>1. /\ phase[g] = "verified" /\ Becomes(g, "serving") /\ log' = log /\ file' = file
        /\ keep' = keep /\ exposed' = exposed
    BY <1>5 DEF Serve
  <2>2. PhaseAgrees(g)'
    BY <2>1 DEF IInv, TypeOK, PhaseAgrees, Becomes
  <2>3. ~Idle(g) /\ "serving" \in Phases
    BY <2>1 DEF Idle, Phases
  <2>4. AtMostOneRuns' /\ \A h \in Gates : PhaseAgrees(h)'
    BY <2>1, <2>2, <2>3, AloneSuffices
  <2> QED
    BY <1>1, <2>1, <2>4 DEF IInv
<1>6. ASSUME NEW g \in Gates, Kill(g) \/ Stop(g)
      PROVE  IInv'
  <2>1. /\ ~Idle(g) /\ Becomes(g, "down") /\ log' = log /\ file' = file
        /\ keep' = keep /\ exposed' = exposed
    BY <1>6 DEF Kill, Stop, Idle
  <2>2. PhaseAgrees(g)'
    BY <2>1 DEF IInv, TypeOK, PhaseAgrees, Becomes
  <2>3. "down" \in Phases
    BY DEF Phases
  <2>4. AtMostOneRuns' /\ \A h \in Gates : PhaseAgrees(h)'
    BY <2>1, <2>2, <2>3, AloneSuffices
  <2> QED
    BY <1>1, <2>1, <2>4 DEF IInv
<1>7. ASSUME NEW g \in Gates, phase[g] = "serving", NEW b \in Bodies
      PROVE  LET r == NextRecord(log[g], b)
                 f == WriteLine(file, r)
             IN /\ Intact(f, Genesis)
                /\ f.tail = <<>>
                /\ Tip(f.lines) = [head |-> r.hash, seq |-> r.seq]
                /\ Intact(WritePart(file, <<r>>), Genesis)
                /\ Intact(WritePart(file, <<Torn>>), Genesis)
                /\ WritePart(file, <<>>) = file
  <2> DEFINE ls == file.lines
             r == NextRecord(log[g], b)
  <2>1. /\ file \in File /\ ls \in Seq(Line) /\ file.tail = <<>> /\ log[g] = Tip(ls)
        /\ \A i \in 1..Len(ls) : Holds(ls, i, Genesis)
        /\ r \in Record /\ b \notin Garbled /\ Len(ls) \in Nat
    BY <1>7, NextRecordType, LenProperties
    DEF IInv, TypeOK, File, PhaseAgrees, Intact, Reliable
  <2>2. /\ Holds(Append(ls, <<r>>), Len(ls) + 1, Genesis)
        /\ Tip(Append(ls, <<r>>)) = [head |-> r.hash, seq |-> r.seq]
    BY <2>1, NextRecordExtends
  <2>3. <<r>> \in Line /\ <<Torn>> \in Line /\ <<r>> \in Seq(Pieces) /\ <<Torn>> \in Seq(Pieces)
    BY <2>1 DEF Line, Pieces
  <2> HIDE DEF r
  <2>4. \A i \in 1..Len(Append(ls, <<r>>)) : Holds(Append(ls, <<r>>), i, Genesis)
    <3>1. Len(Append(ls, <<r>>)) = Len(ls) + 1
      BY <2>1, <2>3, AppendProperties
    <3> QED
      BY <2>1, <2>2, <2>3, <3>1, HoldsOfAppend
  <2>5. Append(file.tail, r) = <<r>>
    BY <2>1
  <2>6. Intact(WriteLine(file, r), Genesis) /\ WriteLine(file, r).tail = <<>>
        /\ WriteLine(file, r).lines = Append(ls, <<r>>)
    BY <2>4, <2>5 DEF WriteLine, Intact
  <2>7. ASSUME NEW left \in Seq(Pieces), left # <<>>
        PROVE  /\ WritePart(file, left).lines = ls
               /\ WritePart(file, left).tail = left
               /\ Walk(WritePart(file, left)) = Append(ls, left)
    <3>1. WritePart(file, left).lines = ls /\ WritePart(file, left).tail = left
      <4>1. WritePart(file, left).lines = ls /\ WritePart(file, left).tail = file.tail \o left
        BY <2>1, WritePartType
      <4>2. <<>> \o left = left
        BY ConcatEmptySeq
      <4> QED BY <2>1, <4>1, <4>2
    <3> QED
      BY <2>7, <3>1 DEF Walk
  <2>8. Intact(WritePart(file, <<r>>), Genesis)
    BY <2>1, <2>2, <2>3, <2>7 DEF Intact
  <2>9. Intact(WritePart(file, <<Torn>>), Genesis)
    <3>1. <<Torn>> # <<>> /\ <<Torn>>[1] = Torn
      OBVIOUS
    <3>2. WritePart(file, <<Torn>>).lines = ls /\ WritePart(file, <<Torn>>).tail = <<Torn>>
      BY <2>3, <2>7, <3>1
    <3> QED
      BY <2>1, <3>1, <3>2 DEF Intact
  <2>10. WritePart(file, <<>>) = file
    BY <2>1 DEF WritePart, File
  <2> QED
    BY <2>2, <2>6, <2>8, <2>9, <2>10 DEF r
<1>8. ASSUME NEW g \in Gates, NEW b \in Bodies, AppendRecord(g, b)
      PROVE  IInv'
  <2> DEFINE r == NextRecord(log[g], b)
  <2>1. /\ phase[g] = "serving" /\ phase' = phase /\ file' = WriteLine(file, r)
        /\ log' = [log EXCEPT ![g] = [head |-> r.hash, seq |-> r.seq]]
        /\ keep' = keep
    BY <1>8 DEF AppendRecord, Attempt
  <2>2. /\ Intact(file', Genesis) /\ file'.tail = <<>>
        /\ Tip(file'.lines) = [head |-> r.hash, seq |-> r.seq]
    BY <1>7, <2>1
  <2> HIDE DEF r
  <2>3. PhaseAgrees(g)'
    BY <2>1, <2>2 DEF IInv, TypeOK, PhaseAgrees
  <2>4. ~Idle(g) /\ Becomes(g, "serving") /\ "serving" \in Phases
    BY <2>1 DEF Idle, Becomes, Phases, IInv, TypeOK
  <2>5. \A h \in Gates : h # g => log'[h] = log[h] /\ keep'[h] = keep[h]
    BY <2>1 DEF IInv, TypeOK
  <2>6. AtMostOneRuns' /\ \A h \in Gates : PhaseAgrees(h)'
    BY <2>3, <2>4, <2>5, AloneSuffices
  <2>7. exposed' = {}
    <3>1. \A h \in Gates : phase[h] # "cutting"
      BY <2>1 DEF IInv, AtMostOneRuns, Idle
    <3> QED
      BY <1>8, <3>1 DEF AppendRecord, IInv
  <2> QED
    BY <1>1, <2>2, <2>6, <2>7 DEF IInv
<1>9. ASSUME NEW g \in Gates, NEW b \in Bodies, AppendFailed(g, b)
      PROVE  IInv'
  <2>1. /\ phase[g] = "serving" /\ phase' = phase /\ log' = log
        /\ keep' = keep /\ exposed' = exposed /\ file' = WritePart(file, <<>>)
    BY <1>9 DEF AppendFailed, Attempt, Reliable
  <2>2. file' = file
    BY <1>7, <2>1
  <2> QED
    BY <1>1, <2>1, <2>2 DEF IInv, AtMostOneRuns, PhaseAgrees, Idle
<1>10. ASSUME NEW g \in Gates, NEW b \in Bodies, KillInWrite(g, b)
       PROVE  IInv'
  <2> DEFINE r == NextRecord(log[g], b)
  <2>1. /\ phase[g] = "serving" /\ Becomes(g, "down") /\ log' = log
        /\ keep' = keep /\ exposed' = exposed
        /\ \/ file' = WriteLine(file, r)
           \/ \E left \in {<<>>, <<Torn>>, <<r>>} : file' = WritePart(file, left)
    BY <1>10 DEF KillInWrite, Attempt, Leftovers
  <2>2. Intact(file', Genesis)
    BY <1>7, <2>1 DEF IInv
  <2>3. PhaseAgrees(g)'
    BY <2>1 DEF IInv, TypeOK, PhaseAgrees, Becomes
  <2>4. ~Idle(g) /\ "down" \in Phases
    BY <2>1 DEF Idle, Phases
  <2>5. AtMostOneRuns' /\ \A h \in Gates : PhaseAgrees(h)'
    BY <2>1, <2>3, <2>4, AloneSuffices
  <2> QED
    BY <1>1, <2>1, <2>2, <2>5 DEF IInv
<1>11. CASE UNCHANGED vars
  BY <1>1, <1>11 DEF IInv, vars, AtMostOneRuns, PhaseAgrees, Idle
<1> QED
  BY <1>2, <1>3, <1>4, <1>5, <1>6, <1>8, <1>9, <1>10, <1>11, <1>12 DEF Next

LEMMA IInvAlways == ASSUME Reliable PROVE Spec => []IInv
<1>1. IInv /\ [Next]_vars => IInv'
  BY IInvStep
<1> QED
  BY IInvInit, <1>1, PTL DEF Spec

(* Under Reliable: no kill, in a write or between the steps of a start,    *)
(* ever makes the log fail Verify.                                         *)
THEOREM LogAlwaysVerifiesReliably ==
  ASSUME Reliable PROVE Spec => []LogAlwaysVerifies
<1>1. IInv => LogAlwaysVerifies
  BY OkIffIntact DEF IInv, TypeOK, LogAlwaysVerifies, Verify
<1> QED
  BY <1>1, IInvAlways, PTL

(* Under Reliable: no crash leaves a file that the next gate refuses.      *)
THEOREM NeverRefusedReliably ==
  ASSUME Reliable PROVE Spec => []NeverRefused
<1>1. IInv => NeverRefused
  BY DEF IInv, PhaseAgrees, NeverRefused
<1> QED
  BY <1>1, IInvAlways, PTL

(* Under Reliable: a serving gate's Log is on the tip of the file.         *)
THEOREM MemoryMatchesFileReliably ==
  ASSUME Reliable PROVE Spec => []MemoryMatchesFile
<1>1. IInv => MemoryMatchesFile
  BY VerdictOnIntact DEF IInv, TypeOK, PhaseAgrees, MemoryMatchesFile, TipOf
<1> QED
  BY <1>1, IInvAlways, PTL

(* Under Reliable: every record a caller was told is written stays among   *)
(* the records that verify.                                                *)
THEOREM AckedIsEvidenceReliably ==
  ASSUME Reliable PROVE Spec => []AckedIsEvidence
<1>1. LogAlwaysVerifies /\ LossIsVisible /\ exposed = {} => AckedIsEvidence
  BY DEF LogAlwaysVerifies, LossIsVisible, AckedIsEvidence
<1>2. IInv => exposed = {}
  BY DEF IInv
<1> QED
  BY <1>1, <1>2, IInvAlways, LogAlwaysVerifiesReliably, LossIsVisibleAlways, PTL

-----------------------------------------------------------------------------
(* The lines of an intact file that verify: all but a torn last one.       *)
GoodLines(f) == IF f.tail = <<>> \/ f.tail[1] = Torn THEN f.lines ELSE Walk(f)

BodiesOf(ls) == [i \in 1..Len(ls) |-> ls[i][1].body]

LEMMA GoodLinesHold ==
  ASSUME NEW f \in File, Intact(f, Genesis)
  PROVE  /\ GoodLines(f) \in Seq(Line)
         /\ Len(GoodLines(f)) \in Nat
         /\ \A i \in 1..Len(GoodLines(f)) : Holds(GoodLines(f), i, Genesis)
         /\ Verified(Walk(f), Genesis) = Len(GoodLines(f))
         /\ \A i \in 1..Len(GoodLines(f)) : Walk(f)[i] = GoodLines(f)[i]
<1> DEFINE ls == Walk(f)
           L == Len(f.lines)
<1>1. /\ \A i \in 1..L : Holds(f.lines, i, Genesis)
      /\ \A i \in 1..L : Holds(ls, i, Genesis) /\ ls[i] = f.lines[i]
      /\ L \in Nat /\ f.lines \in Seq(Line) /\ ls \in Seq(Line)
  BY HoldsInWalk, WalkProperties DEF Intact, File
<1>2. CASE f.tail = <<>>
  <2>1. ls = f.lines /\ GoodLines(f) = f.lines
    BY <1>2, WalkProperties DEF GoodLines
  <2>2. L \in 0..Len(ls) /\ ~(L < Len(ls))
    BY <1>1, <2>1
  <2>3. Verified(ls, Genesis) = L
    BY <1>1, <2>2, VerifiedIs
  <2> QED BY <1>1, <2>1, <2>3
<1>3. CASE f.tail # <<>> /\ f.tail[1] = Torn
  <2>1. Len(ls) = L + 1 /\ ls[L + 1] = f.tail /\ GoodLines(f) = f.lines
    BY <1>3, WalkProperties DEF GoodLines
  <2>2. ~Holds(ls, L + 1, Genesis)
    BY <1>3, <2>1 DEF Holds, Decodes
  <2>3. Verified(ls, Genesis) = L
    BY <1>1, <2>1, <2>2, VerifiedIs
  <2> QED BY <1>1, <2>1, <2>3
<1>4. CASE f.tail # <<>> /\ f.tail[1] # Torn
  <2>1. Len(ls) = L + 1 /\ GoodLines(f) = ls
    BY <1>4, WalkProperties DEF GoodLines
  <2>2. \A i \in 1..(L + 1) : Holds(ls, i, Genesis)
    BY <1>1, <1>4 DEF Intact
  <2>3. Verified(ls, Genesis) = L + 1
    BY <1>1, <2>1, <2>2, VerifiedIs
  <2> QED BY <1>1, <2>1, <2>2, <2>3
<1> QED BY <1>2, <1>3, <1>4

(* What the reader of an intact file reads, as the abstract chain has it.  *)
LEMMA ChainOfIntact ==
  ASSUME NEW f \in File, Intact(f, Genesis)
  PROVE  [i \in DOMAIN Evidence(f) |-> Evidence(f)[i].body] = BodiesOf(GoodLines(f))
<1> DEFINE n == Len(GoodLines(f))
<1>1. Evidence(f) = [i \in 1..n |-> Walk(f)[i][1]]
  BY GoodLinesHold DEF Evidence
<1>2. \A i \in 1..n : Walk(f)[i] = GoodLines(f)[i]
  BY GoodLinesHold
<1> HIDE DEF n
<1>3. DOMAIN Evidence(f) = 1..n /\ \A i \in 1..n : Evidence(f)[i].body = GoodLines(f)[i][1].body
  BY <1>1, <1>2
<1>4. [i \in 1..n |-> Evidence(f)[i].body] = [i \in 1..n |-> GoodLines(f)[i][1].body]
  BY <1>3
<1> QED BY <1>3, <1>4 DEF BodiesOf, n

(* The records of a chain are numbered from one.                           *)
LEMMA ChainCounts ==
  ASSUME NEW ls \in Seq(Line), \A i \in 1..Len(ls) : Holds(ls, i, Genesis)
  PROVE  Tip(ls).seq = Len(ls)
<1>0. Len(ls) \in Nat
  BY LenProperties
<1> DEFINE Bad == {i \in 1..Len(ls) : ls[i][1].seq # i}
<1>1. Bad = {}
  <2> SUFFICES ASSUME Bad # {} PROVE FALSE
    OBVIOUS
  <2>1. PICK i \in Bad : \A j \in Bad : i <= j
    BY <1>0, LeastNat, Bad \in SUBSET Nat
  <2>2. i \in 1..Len(ls) /\ ls[i][1].seq = Reached(ls, i, Genesis).seq + 1
    BY DEF Holds
  <2>3. CASE i = 1
    BY <2>2, <2>3 DEF Reached, Genesis
  <2>4. CASE i # 1
    <3>1. i - 1 \in 1..Len(ls) /\ i - 1 \notin Bad
      BY <1>0, <2>1, <2>2, <2>4
    <3>2. Reached(ls, i, Genesis).seq = ls[i-1][1].seq
      BY <2>4 DEF Reached
    <3> QED BY <2>2, <3>1, <3>2
  <2> QED BY <2>3, <2>4
<1>2. CASE Len(ls) = 0
  BY <1>2 DEF Tip, Reached, Genesis
<1>3. CASE Len(ls) # 0
  <2>1. Len(ls) \in 1..Len(ls) /\ Len(ls) + 1 # 1 /\ (Len(ls) + 1) - 1 = Len(ls)
    BY <1>0, <1>3
  <2>2. Tip(ls).seq = ls[Len(ls)][1].seq
    BY <2>1 DEF Tip, Reached
  <2> QED BY <1>1, <2>1, <2>2
<1> QED BY <1>2, <1>3

LEMMA ChainGrows ==
  ASSUME NEW ls \in Seq(Line), NEW r \in Record
  PROVE  /\ BodiesOf(Append(ls, <<r>>)) = Append(BodiesOf(ls), r.body)
         /\ Len(BodiesOf(ls)) = Len(ls)
         /\ Len(Append(BodiesOf(ls), r.body)) = Len(ls) + 1
<1> DEFINE n == Len(ls)
           ms == Append(ls, <<r>>)
           bs == BodiesOf(ls)
           V == {ls[i][1].body : i \in 1..n} \cup {r.body}
<1>1. <<r>> \in Line /\ <<r>>[1] = r
  BY DEF Line, Pieces
<1>2. /\ n \in Nat /\ Len(ms) = n + 1 /\ ms[n + 1] = <<r>>
      /\ \A i \in 1..n : ms[i] = ls[i]
  BY <1>1, AppendProperties, LenProperties
<1> HIDE DEF n, ms
<1>3. bs = [i \in 1..n |-> ls[i][1].body]
  BY DEF BodiesOf, n
<1>4. bs \in Seq(V) /\ Len(bs) = n
  <2>1. bs \in [1..n -> V]
    BY <1>3
  <2>2. bs \in Seq(V)
    BY <1>2, <2>1, IsASeq
  <2>3. DOMAIN bs = 1..n
    BY <1>3
  <2> QED BY <1>2, <2>2, <2>3, LenProperties
<1>5. /\ Append(bs, r.body) \in Seq(V)
      /\ Len(Append(bs, r.body)) = n + 1
      /\ \A i \in 1..n : Append(bs, r.body)[i] = bs[i]
      /\ Append(bs, r.body)[n + 1] = r.body
  <2>1. r.body \in V
    OBVIOUS
  <2> HIDE DEF V, bs
  <2> QED BY <1>4, <2>1, AppendProperties
<1>6. BodiesOf(ms) = [i \in 1..(n+1) |-> ms[i][1].body]
  BY <1>2 DEF BodiesOf
<1>7. \A i \in 1..(n+1) : ms[i][1].body = Append(bs, r.body)[i]
  <2> HIDE DEF V, bs
  <2> TAKE i \in 1..(n+1)
  <2>1. CASE i = n + 1
    BY <1>1, <1>2, <1>5, <2>1
  <2>2. CASE i \in 1..n
    BY <1>2, <1>3, <1>5, <2>2
  <2>3. i = n + 1 \/ i \in 1..n
    BY <1>2
  <2> QED BY <2>1, <2>2, <2>3
<1>8. Append(bs, r.body) = [i \in 1..(n+1) |-> Append(bs, r.body)[i]]
  <2> HIDE DEF V, bs
  <2>1. DOMAIN Append(bs, r.body) = 1..(n+1)
    BY <1>2, <1>5, LenProperties
  <2>2. Append(bs, r.body) = [i \in DOMAIN Append(bs, r.body) |-> Append(bs, r.body)[i]]
    BY <1>4, <1>5, LenProperties
  <2> QED BY <2>1, <2>2
<1>9. BodiesOf(ms) = Append(bs, r.body)
  <2> HIDE DEF bs
  <2> QED BY <1>6, <1>7, <1>8
<1> QED BY <1>4, <1>5, <1>9 DEF ms, n

-----------------------------------------------------------------------------
(* A step of a gate extends the chain the reader sees by the record it     *)
(* announces, by one it announces to nobody, or leaves it alone.           *)
chainBar == [i \in DOMAIN Evidence(file) |-> Evidence(file)[i].body]
announcedBar == {r.seq : r \in acked}

LEMMA WrittenChain ==
  ASSUME IInv, NEW g \in Gates, phase[g] = "serving", NEW b \in Bodies, Reliable
  PROVE  LET r  == NextRecord(log[g], b)
             ls == GoodLines(file)
         IN /\ GoodLines(WriteLine(file, r)) = Append(ls, <<r>>)
            /\ GoodLines(WritePart(file, <<r>>)) = Append(ls, <<r>>)
            /\ GoodLines(WritePart(file, <<Torn>>)) = ls
            /\ GoodLines(WritePart(file, <<>>)) = ls
            /\ ls = file.lines
            /\ r \in Record /\ r.body = b /\ r.seq = Len(ls) + 1
<1> DEFINE r == NextRecord(log[g], b)
           ls == file.lines
<1>1. /\ file \in File /\ ls \in Seq(Line) /\ file.tail = <<>> /\ log[g] = Tip(ls)
      /\ \A i \in 1..Len(ls) : Holds(ls, i, Genesis)
      /\ r \in Record
  BY NextRecordType DEF IInv, TypeOK, File, PhaseAgrees, Intact
<1>2. r.body = b /\ r.seq = Len(ls) + 1
  BY <1>1, ChainCounts DEF NextRecord
<1>3. r # Torn
  BY <1>1, TornIsNoRecord
<1>4. <<r>> \in Seq(Pieces) /\ <<Torn>> \in Seq(Pieces) /\ <<>> \in Seq(Pieces)
  BY <1>1, EmptySeq DEF Pieces
<1> HIDE DEF r
<1>5. WriteLine(file, r).lines = Append(ls, <<r>>) /\ WriteLine(file, r).tail = <<>>
  BY <1>1 DEF WriteLine
<1>6. ASSUME NEW left \in Seq(Pieces)
      PROVE  /\ WritePart(file, left).lines = ls
             /\ WritePart(file, left).tail = left
             /\ left # <<>> => Walk(WritePart(file, left)) = Append(ls, left)
  <2>1. WritePart(file, left).lines = ls /\ WritePart(file, left).tail = left
    <3>1. WritePart(file, left).lines = ls /\ WritePart(file, left).tail = file.tail \o left
      BY <1>1, WritePartType
    <3>2. <<>> \o left = left
      BY ConcatEmptySeq
    <3> QED BY <1>1, <3>1, <3>2
  <2> QED BY <2>1 DEF Walk
<1>7. <<r>> # <<>> /\ <<r>>[1] = r /\ <<Torn>> # <<>> /\ <<Torn>>[1] = Torn
  OBVIOUS
<1>8. GoodLines(WriteLine(file, r)) = Append(ls, <<r>>)
  BY <1>5 DEF GoodLines
<1>9. GoodLines(WritePart(file, <<r>>)) = Append(ls, <<r>>)
  BY <1>3, <1>4, <1>6, <1>7 DEF GoodLines
<1>10. GoodLines(WritePart(file, <<Torn>>)) = ls
  BY <1>4, <1>6, <1>7 DEF GoodLines
<1>11. GoodLines(WritePart(file, <<>>)) = ls /\ GoodLines(file) = ls
  BY <1>1, <1>4, <1>6 DEF GoodLines
<1> QED BY <1>1, <1>2, <1>8, <1>9, <1>10, <1>11 DEF r

LEMMA AbstractStep ==
  ASSUME Reliable, IInv, IInv', [Next]_vars
  PROVE  [Abstract!ANext]_(Abstract!avars)
<1> DEFINE ls == GoodLines(file)
           lsNext == GoodLines(file')
           Silent == lsNext = ls /\ acked' = acked
           Longer(r) == /\ lsNext = Append(ls, <<r>>) /\ r.seq = Len(ls) + 1
                        /\ acked' = acked \cup {r} \/ acked' = acked
<1>1. chainBar = BodiesOf(ls) /\ chainBar' = BodiesOf(lsNext)
  BY ChainOfIntact DEF IInv, TypeOK, chainBar
<1>2. ls \in Seq(Line) /\ Len(ls) \in Nat
  BY GoodLinesHold DEF IInv, TypeOK
<1>3. ASSUME Silent PROVE UNCHANGED Abstract!avars
  <2>1. chainBar' = chainBar /\ announcedBar' = announcedBar
    BY <1>1, <1>3 DEF announcedBar
  <2> QED BY <2>1 DEF Abstract!avars, chainBar, announcedBar
<1>4. ASSUME NEW r \in Record, Longer(r) PROVE Abstract!ANext
  <2>1. chainBar' = Append(chainBar, r.body) /\ Len(chainBar') = r.seq
    BY <1>1, <1>2, <1>4, ChainGrows
  <2>2. r.body \in Bodies
    BY DEF Record
  <2>3. Abstract!Extend(r.body)
    BY <2>1 DEF Abstract!Extend, chainBar
  <2>4. CASE acked' = acked
    <3>1. announcedBar' = announcedBar
      BY <2>4 DEF announcedBar
    <3>2. Abstract!ExtendUnannounced(r.body)
      BY <2>3, <3>1 DEF Abstract!ExtendUnannounced, announcedBar
    <3> QED BY <2>2, <3>2 DEF Abstract!ANext
  <2>5. CASE acked' = acked \cup {r}
    <3>1. announcedBar' = announcedBar \cup {Len(chainBar')}
      BY <2>1, <2>5 DEF announcedBar
    <3>2. Abstract!ExtendAndAnnounce(r.body)
      BY <2>3, <3>1 DEF Abstract!ExtendAndAnnounce, announcedBar, chainBar
    <3> QED BY <2>2, <3>2 DEF Abstract!ANext
  <2> QED BY <1>4, <2>4, <2>5
<1>5. ASSUME NEW g \in Gates,
             Start(g) \/ FindLineEnd(g) \/ Serve(g) \/ Kill(g) \/ Stop(g)
      PROVE  Silent
  BY <1>5 DEF Start, FindLineEnd, Serve, Kill, Stop
<1>6. ASSUME NEW g \in Gates, CutBack(g)
      PROVE  Silent
  <2>1. /\ file.tail[1] = Torn /\ keep[g] = Len(file.lines) /\ keep[g] \in Nat /\ file \in File
        /\ file' = Truncated(file, keep[g]) /\ acked' = acked
    BY <1>6 DEF CutBack, IInv, TypeOK, PhaseAgrees
  <2>2. file'.tail = <<>> /\ file'.lines = file.lines
    BY <2>1, TruncatedProperties
  <2> QED BY <2>1, <2>2 DEF GoodLines
<1>7. ASSUME NEW g \in Gates, AppendMissingNewline(g)
      PROVE  Silent
  <2>1. /\ file.tail # <<>> /\ file.tail[1] # Torn
        /\ file'.tail = <<>> /\ file'.lines = Walk(file) /\ acked' = acked
    BY <1>7 DEF AppendMissingNewline, IInv, TypeOK, File, PhaseAgrees
  <2> QED BY <2>1 DEF GoodLines
<1>8. ASSUME NEW g \in Gates, NEW b \in Bodies,
             AppendRecord(g, b) \/ AppendFailed(g, b) \/ KillInWrite(g, b)
      PROVE  Silent \/ \E r \in Record : Longer(r)
  <2> DEFINE r == NextRecord(log[g], b)
  <2>1. phase[g] = "serving"
    BY <1>8 DEF AppendRecord, AppendFailed, KillInWrite, Attempt
  <2>2. /\ GoodLines(WriteLine(file, r)) = Append(ls, <<r>>)
        /\ GoodLines(WritePart(file, <<r>>)) = Append(ls, <<r>>)
        /\ GoodLines(WritePart(file, <<Torn>>)) = ls
        /\ GoodLines(WritePart(file, <<>>)) = ls
        /\ r \in Record /\ r.seq = Len(ls) + 1
    BY <2>1, WrittenChain
  <2>3. \/ file' = WriteLine(file, r) /\ (acked' = acked \cup {r} \/ acked' = acked)
        \/ /\ acked' = acked
           /\ \E left \in {<<>>, <<Torn>>, <<r>>} : file' = WritePart(file, left)
    BY <1>8 DEF AppendRecord, AppendFailed, KillInWrite, Leftovers
  <2> HIDE DEF r
  <2> QED BY <2>2, <2>3
<1>9. ASSUME UNCHANGED vars PROVE Silent
  BY <1>9 DEF vars
<1> HIDE DEF Silent, Longer
<1>10. Silent \/ \E r \in Record : Longer(r)
  BY <1>5, <1>6, <1>7, <1>8, <1>9 DEF Next
<1> QED BY <1>3, <1>4, <1>10

(* Under Reliable: what Append, a kill and a repair make of the file is,   *)
(* to its reader, a chain that grows by one record at its end and never    *)
(* announces one that is not there (Append, existingChainHead).            *)
THEOREM ImplementsAppendOnlyChainReliably ==
  ASSUME Reliable PROVE Spec => ImplementsAppendOnlyChain
<1>1. Init => Abstract!AInit
  <2> SUFFICES ASSUME Init PROVE Abstract!AInit
    OBVIOUS
  <2>1. IInv /\ GoodLines(file) = <<>> /\ acked = {}
    BY IInvInit DEF Init, EmptyFile, GoodLines
  <2>2. chainBar = BodiesOf(<<>>)
    BY <2>1, ChainOfIntact DEF IInv, TypeOK, chainBar
  <2>3. BodiesOf(<<>>) = <<>>
    BY DEF BodiesOf
  <2> QED BY <2>1, <2>2, <2>3 DEF Abstract!AInit, chainBar
<1>2. IInv /\ IInv' /\ [Next]_vars => [Abstract!ANext]_(Abstract!avars)
  BY AbstractStep
<1> QED
  BY <1>1, <1>2, IInvAlways, PTL DEF Spec, ImplementsAppendOnlyChain, Abstract!ASpec
=============================================================================
