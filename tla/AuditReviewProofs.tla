-------------------------- MODULE AuditReviewProofs --------------------------
(***************************************************************************)
(* What the reader of a log may conclude from Verify, for every file the   *)
(* model can hold: the head fixes the evidence, and verifying a log in     *)
(* segments says what verifying it in one piece says.                      *)
(***************************************************************************)
EXTENDS AuditReview, AuditLogProofs, FiniteSetTheorems, FunctionTheorems

Pairs == Nat \X Texts

(* A history in which each hash extends the one before it by what it       *)
(* covers.                                                                 *)
Chained(H, d, n) ==
  /\ H[0] = GenesisHash
  /\ \A i \in 1..n : /\ d[i] \in Pairs
                     /\ H[i-1] \in Hashes
                     /\ H[i] = Append(H[i-1], d[i])

LEMMA ChainedLength ==
  ASSUME NEW n \in Nat, NEW H, NEW d, Chained(H, d, n)
  PROVE  \A i \in 0..n : H[i] \in Hashes /\ Len(H[i]) = i
<1> DEFINE Bad == {i \in 0..n : ~(H[i] \in Hashes /\ Len(H[i]) = i)}
<1> SUFFICES ASSUME Bad # {} PROVE FALSE
  OBVIOUS
<1>1. PICK i \in Bad : \A j \in Bad : i <= j
  BY LeastNat, Bad \in SUBSET Nat
<1>2. i # 0
  BY EmptySeq DEF Chained, GenesisHash, Hashes
<1>3. i \in 1..n /\ i - 1 \in 0..n /\ i - 1 \notin Bad
  BY <1>1, <1>2
<1>4. H[i-1] \in Seq(Pairs) /\ Len(H[i-1]) = i - 1 /\ d[i] \in Pairs
  BY <1>3 DEF Hashes, Chained, Pairs
<1>5. H[i] = Append(H[i-1], d[i])
  BY <1>3 DEF Chained
<1>6. H[i] \in Seq(Pairs) /\ Len(H[i]) = (i - 1) + 1
  BY <1>4, <1>5, AppendProperties
<1>7. H[i] \in Hashes /\ Len(H[i]) = i
  BY <1>3, <1>6 DEF Hashes, Pairs
<1> QED BY <1>1, <1>7

LEMMA LastOfAppend ==
  ASSUME NEW S, NEW s \in Seq(S), NEW t \in Seq(S), NEW a \in S, NEW b \in S,
         Append(s, a) = Append(t, b)
  PROVE  s = t /\ a = b
BY AppendInjective

(* Two histories that end in the same hash are the same history.           *)
LEMMA ChainedAlike ==
  ASSUME NEW n \in Nat, NEW H, NEW d, Chained(H, d, n),
         NEW G, NEW e, Chained(G, e, n), H[n] = G[n]
  PROVE  /\ \A i \in 0..n : H[i] = G[i]
         /\ \A i \in 1..n : d[i] = e[i]
<1> DEFINE Bad == {k \in 0..n : H[n-k] # G[n-k]}
<1>1. Bad = {}
  <2> SUFFICES ASSUME Bad # {} PROVE FALSE
    OBVIOUS
  <2>1. PICK k \in Bad : \A j \in Bad : k <= j
    BY LeastNat, Bad \in SUBSET Nat
  <2>2. k # 0
    OBVIOUS
  <2>3. k \in 1..n /\ k - 1 \in 0..n /\ k - 1 \notin Bad
    BY <2>1, <2>2
  <2>4. PICK i \in 1..n : i - 1 = n - k /\ H[i] = G[i]
    <3>1. n - (k - 1) \in 1..n /\ (n - (k - 1)) - 1 = n - k
      BY <2>3
    <3>2. H[n - (k - 1)] = G[n - (k - 1)]
      BY <2>3
    <3> QED BY <3>1, <3>2
  <2>5. /\ H[i-1] \in Seq(Pairs) /\ d[i] \in Pairs
        /\ G[i-1] \in Seq(Pairs) /\ e[i] \in Pairs
        /\ Append(H[i-1], d[i]) = Append(G[i-1], e[i])
    BY <2>4 DEF Chained, Hashes, Pairs
  <2>6. \A s, t \in Seq(Pairs) : \A a, b \in Pairs : Append(s, a) = Append(t, b) => s = t
    BY LastOfAppend
  <2>7. H[i-1] = G[i-1]
    BY <2>5, <2>6
  <2> QED BY <2>1, <2>4, <2>7
<1>2. ASSUME NEW i \in 0..n PROVE H[i] = G[i]
  <2>1. n - i \in 0..n /\ n - (n - i) = i
    OBVIOUS
  <2> QED BY <1>1, <2>1
<1>3. ASSUME NEW i \in 1..n PROVE d[i] = e[i]
  <2>0. i - 1 \in 0..n /\ i \in 0..n
    OBVIOUS
  <2>1. /\ H[i-1] \in Seq(Pairs) /\ d[i] \in Pairs
        /\ G[i-1] \in Seq(Pairs) /\ e[i] \in Pairs
        /\ Append(H[i-1], d[i]) = Append(G[i-1], e[i])
    BY <1>2, <2>0 DEF Chained, Hashes, Pairs
  <2> QED BY <2>1, LastOfAppend
<1> QED BY <1>2, <1>3

-----------------------------------------------------------------------------
(* The hashes of a log's evidence, from genesis, and what they cover.      *)
History(f) == [i \in 0..Verified(Walk(f), Genesis) |->
                 IF i = 0 THEN GenesisHash ELSE Walk(f)[i][1].hash]
Covered(f) == [i \in 1..Verified(Walk(f), Genesis) |->
                 <<Walk(f)[i][1].seq, Reencode(Walk(f)[i][1].body)>>]

LEMMA EvidenceIsChained ==
  ASSUME NEW f \in File
  PROVE  /\ Verified(Walk(f), Genesis) \in Nat
         /\ Chained(History(f), Covered(f), Verified(Walk(f), Genesis))
         /\ Verify(f).head = History(f)[Verified(Walk(f), Genesis)]
         /\ \A i \in 1..Verified(Walk(f), Genesis) :
              /\ Walk(f)[i][1] \in Record
              /\ Walk(f)[i][1].prev = History(f)[i-1]
              /\ Walk(f)[i][1].hash = History(f)[i]
<1> DEFINE ls == Walk(f)
           n == Verified(Walk(f), Genesis)
           H == History(f)
           d == Covered(f)
<1>1. /\ ls \in Seq(Line) /\ n \in 0..Len(ls) /\ Len(ls) \in Nat
      /\ \A i \in 1..n : Holds(ls, i, Genesis)
  BY WalkProperties, VerifiedProperties, LenProperties
<1>2. Verify(f).head = Reached(ls, n + 1, Genesis).head
  BY VerifyFields DEF Verify
<1>3. /\ H[0] = GenesisHash
      /\ \A i \in 1..n : H[i] = ls[i][1].hash /\ d[i] = <<ls[i][1].seq, Reencode(ls[i][1].body)>>
  BY <1>1 DEF History, Covered
<1> HIDE DEF ls, n, H, d
<1>4. ASSUME NEW i \in 1..n + 1
      PROVE  Reached(ls, i, Genesis).head = H[i-1]
  <2>1. CASE i = 1
    BY <1>3, <2>1 DEF Reached, Genesis
  <2>2. CASE i # 1
    BY <1>1, <1>3, <2>2 DEF Reached
  <2> QED BY <2>1, <2>2
<1>5. ASSUME NEW i \in 1..n
      PROVE  /\ ls[i][1] \in Record
             /\ ls[i][1].prev = H[i-1]
             /\ ls[i][1].hash = H[i]
             /\ d[i] \in Pairs
             /\ H[i-1] \in Hashes
             /\ H[i] = Append(H[i-1], d[i])
  <2>1. Holds(ls, i, Genesis) /\ ls[i][1] \in Record
    BY <1>1, HoldsIsRecord
  <2>2. /\ ls[i][1].prev = H[i-1]
        /\ ls[i][1].hash = ChainHash(H[i-1], ls[i][1].seq, Reencode(ls[i][1].body))
    BY <1>1, <1>4, <2>1 DEF Holds
  <2>3. ls[i][1].seq \in Nat /\ Reencode(ls[i][1].body) \in Texts
    BY <2>1 DEF Record, Reencode, Texts
  <2>4. d[i] \in Pairs /\ H[i] = Append(H[i-1], d[i])
    <3>1. d[i] = <<ls[i][1].seq, Reencode(ls[i][1].body)>> /\ H[i] = ls[i][1].hash
      BY <1>3
    <3>2. H[i] = Append(H[i-1], <<ls[i][1].seq, Reencode(ls[i][1].body)>>)
      BY <2>2, <3>1 DEF ChainHash
    <3>3. <<ls[i][1].seq, Reencode(ls[i][1].body)>> \in Pairs
      BY <2>3 DEF Pairs
    <3> QED BY <3>1, <3>2, <3>3, Zenon
  <2>5. H[i-1] \in Hashes
    BY <2>1, <2>2 DEF Record
  <2> QED BY <1>3, <2>1, <2>2, <2>4, <2>5
<1>6. n \in Nat /\ Reached(ls, n + 1, Genesis).head = H[n]
  BY <1>1, <1>4
<1> QED BY <1>2, <1>3, <1>5, <1>6 DEF Chained, ls, n, H, d

(* SHA-256 taken to be free of collisions, a head can be reached from      *)
(* genesis in one way only: two logs Verify ends at the same head of are   *)
(* evidence of the same records, whatever else is in them.                 *)
THEOREM HeadFixesEvidence ==
  ASSUME NEW f \in File, NEW g \in File, Verify(f).head = Verify(g).head
  PROVE  ReadAs(f) = ReadAs(g)
<1> DEFINE m == Verified(Walk(f), Genesis)
           n == Verified(Walk(g), Genesis)
<1>1. /\ m \in Nat /\ Chained(History(f), Covered(f), m) /\ Verify(f).head = History(f)[m]
      /\ n \in Nat /\ Chained(History(g), Covered(g), n) /\ Verify(g).head = History(g)[n]
  BY EvidenceIsChained
<1> HIDE DEF m, n
<1>2. m = n
  <2>1. Len(History(f)[m]) = m
    BY <1>1, ChainedLength
  <2>2. Len(History(g)[n]) = n
    BY <1>1, ChainedLength
  <2> QED BY <1>1, <2>1, <2>2
<1>3. /\ \A i \in 0..n : History(f)[i] = History(g)[i]
      /\ \A i \in 1..n : Covered(f)[i] = Covered(g)[i]
  <2>1. Chained(History(f), Covered(f), n) /\ History(f)[n] = History(g)[n]
    BY <1>1, <1>2
  <2> QED BY <1>1, <2>1, ChainedAlike
<1>4. ASSUME NEW i \in 1..n
      PROVE  [Walk(f)[i][1] EXCEPT !.body = Reencode(@)] = [Walk(g)[i][1] EXCEPT !.body = Reencode(@)]
  <2>1. /\ Walk(f)[i][1] \in Record /\ Walk(g)[i][1] \in Record
        /\ Walk(f)[i][1].prev = Walk(g)[i][1].prev /\ Walk(f)[i][1].hash = Walk(g)[i][1].hash
    BY <1>1, <1>2, <1>3, EvidenceIsChained DEF m, n
  <2>2. <<Walk(f)[i][1].seq, Reencode(Walk(f)[i][1].body)>>
          = <<Walk(g)[i][1].seq, Reencode(Walk(g)[i][1].body)>>
    BY <1>2, <1>3 DEF Covered, m, n
  <2> QED BY <2>1, <2>2 DEF Record
<1> QED BY <1>2, <1>4 DEF ReadAs, Evidence, m, n

(* What an editor makes of a log is a file.                                *)
LEMMA EditsAreLines ==
  ASSUME NEW ls \in Seq(Line)
  PROVE  Edits(ls) \subseteq Seq(Line)
<1>1. Len(ls) \in Nat /\ DOMAIN ls = 1..Len(ls) /\ ls \in [1..Len(ls) -> Line]
      /\ \A i \in 1..Len(ls) : ls[i] \in Line
  BY LenProperties, ElementOfSeq
<1>2. ASSUME NEW m \in Int, NEW n \in Int, 1 <= m, n <= Len(ls)
      PROVE  SubSeq(ls, m, n) \in Seq(Line)
  <2>1. \A i \in m..n : ls[i] \in Line
    BY <1>1, <1>2
  <2> QED BY <2>1, SubSeqProperties
<1>3. ASSUME NEW i \in DOMAIN ls
      PROVE  /\ Without(ls, i) \in Seq(Line) /\ Repeating(ls, i) \in Seq(Line)
             /\ SubSeq(ls, 1, i) \in Seq(Line)
  <2>1. /\ SubSeq(ls, 1, i - 1) \in Seq(Line) /\ SubSeq(ls, i + 1, Len(ls)) \in Seq(Line)
        /\ SubSeq(ls, 1, i) \in Seq(Line) /\ SubSeq(ls, i, Len(ls)) \in Seq(Line)
    BY <1>1, <1>2
  <2> QED BY <2>1, ConcatProperties DEF Without, Repeating
<1>4. ASSUME NEW i \in DOMAIN ls, NEW j \in DOMAIN ls
      PROVE  Exchanging(ls, i, j) \in Seq(Line)
  <2>1. Exchanging(ls, i, j) \in [1..Len(ls) -> Line]
    BY <1>1 DEF Exchanging
  <2> QED BY <1>1, <2>1, IsASeq
<1>5. ASSUME NEW i \in DOMAIN ls, Decodes(ls[i]), NEW b \in Bodies
      PROVE  /\ Rewriting(ls, i, Reworded(ls[i][1], b)) \in Seq(Line)
             /\ Rewriting(ls, i, Rehashed(Reworded(ls[i][1], b))) \in Seq(Line)
  <2>1. ls[i][1] \in Record
    <3>1. ls[i] \in Seq(Pieces) /\ Len(ls[i]) = 1 /\ ls[i][1] # Torn
      BY <1>1, <1>5 DEF Line, Decodes
    <3> DEFINE line == ls[i]
    <3>0. line \in Seq(Pieces) /\ Len(line) = 1
      BY <3>1
    <3> HIDE DEF line
    <3>2. line[1] \in Pieces
      <4>1. 1 \in 1..Len(line)
        BY <3>0
      <4> QED BY <3>0, <4>1, ElementOfSeq
    <3> QED BY <3>1, <3>2 DEF Pieces, line
  <2>2. Reworded(ls[i][1], b) \in Record
    BY <2>1 DEF Reworded, Record
  <2>3. Rehashed(Reworded(ls[i][1], b)) \in Record
    <3> DEFINE r == Reworded(ls[i][1], b)
    <3>1. r \in Record
      BY <2>2
    <3> HIDE DEF r
    <3>2. <<r.seq, Reencode(r.body)>> \in Nat \X Texts /\ r.prev \in Seq(Nat \X Texts)
      BY <3>1 DEF Record, Reencode, Texts, Hashes
    <3>3. ChainHash(r.prev, r.seq, Reencode(r.body)) \in Hashes
      BY <3>2, AppendProperties DEF ChainHash, Hashes
    <3> QED BY <3>1, <3>3 DEF Rehashed, Record, r
  <2>4. ASSUME NEW r \in Record PROVE Rewriting(ls, i, r) \in Seq(Line)
    <3>1. <<r>> \in Line
      BY DEF Line, Pieces
    <3> QED BY <1>1, <3>1, ExceptSeq DEF Rewriting
  <2> QED BY <2>2, <2>3, <2>4
<1> QED
  <2> SUFFICES ASSUME NEW e \in Edits(ls) PROVE e \in Seq(Line)
    OBVIOUS
  <2>1. \/ \E i \in DOMAIN ls :
             e = Without(ls, i) \/ e = Repeating(ls, i) \/ e = SubSeq(ls, 1, i)
        \/ \E i \in DOMAIN ls, j \in DOMAIN ls : e = Exchanging(ls, i, j)
        \/ \E i \in DOMAIN ls, b \in Bodies :
             /\ Decodes(ls[i])
             /\ \/ e = Rewriting(ls, i, Reworded(ls[i][1], b))
                \/ e = Rewriting(ls, i, Rehashed(Reworded(ls[i][1], b)))
    BY DEF Edits
  <2> QED BY <1>3, <1>4, <1>5, <2>1

LEMMA EditedAreFiles ==
  ASSUME NEW f \in File
  PROVE  Edited(f) \subseteq File
<1>1. f.lines \in Seq(Line) /\ f.tail \in Seq(Pieces) /\ <<>> \in Seq(Pieces)
  BY EmptySeq DEF File
<1>2. ASSUME NEW ls \in Edits(f.lines), NEW t \in {f.tail, <<>>}
      PROVE  [lines |-> ls, tail |-> t] \in File
  <2>1. ls \in Seq(Line) /\ t \in Seq(Pieces)
    BY <1>1, EditsAreLines
  <2> QED BY <2>1 DEF File
<1> SUFFICES ASSUME NEW g \in Edited(f) PROVE g \in File
  OBVIOUS
<1>3. PICK ls \in Edits(f.lines), t \in {f.tail, <<>>} : g = [lines |-> ls, tail |-> t]
  BY DEF Edited
<1> QED BY <1>2, <1>3

(* Tamper evidence for whoever noted the head: true of every log the gates *)
(* can leave behind, under failed writes and overlapping gates too.        *)
THEOREM HeadPinsEvidenceAlways == Spec => []HeadPinsEvidence
<1>1. TypeOK => HeadPinsEvidence
  <2>1. ASSUME file \in File, NEW f \in Edited(file), Verify(f).head = Verify(file).head
        PROVE  ReadAs(f) = ReadAs(file)
    <3>1. f \in File
      BY <2>1, EditedAreFiles
    <3> QED BY <2>1, <3>1, HeadFixesEvidence
  <2>2. TypeOK => file \in File
    BY DEF TypeOK
  <2> QED BY <2>1, <2>2, Zenon DEF HeadPinsEvidence
<1> QED BY <1>1, TypeCorrect, PTL

-----------------------------------------------------------------------------
(* The lines of the two parts of a log cut after its line k.               *)
LEMMA PartsAreFiles ==
  ASSUME NEW f \in File, NEW k \in 0..Len(f.lines)
  PROVE  /\ Upto(f, k) \in File /\ Beyond(f, k) \in File
         /\ Walk(Upto(f, k)) = SubSeq(f.lines, 1, k)
         /\ Len(Walk(Upto(f, k))) = k
         /\ \A i \in 1..k : Walk(Upto(f, k))[i] = Walk(f)[i]
         /\ Len(Walk(f)) \in Nat /\ k <= Len(Walk(f))
         /\ Len(Walk(Beyond(f, k))) = Len(Walk(f)) - k
         /\ \A i \in 1..Len(Walk(f)) - k : Walk(Beyond(f, k))[i] = Walk(f)[k + i]
<1> DEFINE ls == f.lines
           a == SubSeq(ls, 1, k)
           b == SubSeq(ls, k + 1, Len(ls))
<1>1. /\ ls \in Seq(Line) /\ Len(ls) \in Nat /\ f.tail \in Seq(Pieces)
      /\ \A i \in 1..Len(ls) : ls[i] \in Line
  BY LenProperties, ElementOfSeq DEF File
<1>2. /\ a \in Seq(Line) /\ Len(a) = k
      /\ \A i \in 1..k : a[i] = ls[i]
  <2>1. \A i \in 1..k : ls[i] \in Line
    BY <1>1
  <2>2. \A i \in 1..k : 1 + i - 1 = i
    OBVIOUS
  <2> QED BY <1>1, <2>1, <2>2, SubSeqProperties
<1>3. /\ b \in Seq(Line) /\ Len(b) = Len(ls) - k
      /\ \A i \in 1..Len(ls) - k : b[i] = ls[k + i]
  <2>1. \A i \in k + 1..Len(ls) : ls[i] \in Line
    BY <1>1
  <2>2. Len(ls) - (k + 1) + 1 = Len(ls) - k /\ \A i \in 1..Len(ls) - k : (k + 1) + i - 1 = k + i
    BY <1>1
  <2> QED BY <1>1, <2>1, <2>2, SubSeqProperties
<1>4. Upto(f, k) \in File /\ Beyond(f, k) \in File
  BY <1>1, <1>2, <1>3, EmptySeq DEF Upto, Beyond, File
<1>5. Walk(Upto(f, k)) = a
  BY DEF Walk, Upto
<1>6. \A i \in 1..Len(ls) : Walk(f)[i] = ls[i]
  BY WalkProperties
<1>7. CASE f.tail = <<>>
  <2>1. Walk(f) = ls /\ Walk(Beyond(f, k)) = b
    BY <1>7 DEF Walk, Beyond
  <2> QED BY <1>1, <1>2, <1>3, <1>4, <1>5, <1>6, <2>1
<1>8. CASE f.tail # <<>>
  <2>1. f.tail \in Line
    BY <1>1, <1>8 DEF Line
  <2>2. Walk(f) = Append(ls, f.tail) /\ Walk(Beyond(f, k)) = Append(b, f.tail)
    BY <1>8 DEF Walk, Beyond
  <2> HIDE DEF a, b, ls
  <2>3. Len(Walk(f)) = Len(ls) + 1 /\ Walk(f)[Len(ls) + 1] = f.tail
    BY <1>1, <2>1, <2>2, AppendProperties
  <2>4. /\ Len(Walk(Beyond(f, k))) = Len(b) + 1 /\ Walk(Beyond(f, k))[Len(b) + 1] = f.tail
        /\ \A i \in 1..Len(b) : Walk(Beyond(f, k))[i] = b[i]
    BY <1>3, <2>1, <2>2, AppendProperties
  <2>5. ASSUME NEW i \in 1..Len(Walk(f)) - k
        PROVE  Walk(Beyond(f, k))[i] = Walk(f)[k + i]
    <3>1. CASE i = Len(b) + 1
      BY <1>1, <1>3, <2>3, <2>4, <3>1 DEF ls
    <3>2. CASE i # Len(b) + 1
      <4>1. i \in 1..Len(ls) - k /\ k + i \in 1..Len(ls)
        <5>1. /\ Len(ls) \in Nat /\ k \in Nat /\ Len(Walk(f)) = Len(ls) + 1
              /\ Len(b) = Len(ls) - k /\ i \in 1..Len(Walk(f)) - k
          BY <1>1, <1>3, <2>3 DEF ls
        <5> QED BY <3>2, <5>1
      <4> QED BY <1>3, <1>6, <2>4, <4>1
    <3> QED BY <3>1, <3>2
  <2>6. Len(Walk(f)) \in Nat /\ k <= Len(Walk(f)) /\ Len(Walk(Beyond(f, k))) = Len(Walk(f)) - k
    BY <1>1, <1>3, <2>3, <2>4 DEF ls
  <2>7. \A i \in 1..k : a[i] = Walk(f)[i]
    BY <1>1, <1>2, <1>6 DEF ls
  <2> QED BY <1>2, <1>4, <1>5, <2>5, <2>6, <2>7 DEF a, ls
<1> QED BY <1>7, <1>8

(* Two walks that stop alike are answered alike, but for the count.        *)
Answer(whole, torn, unterminated, n, at, line) ==
  [ok                      |-> whole \/ torn,
   records                 |-> n,
   head                    |-> at.head,
   lastSeq                 |-> at.seq,
   truncatedTail           |-> torn,
   unterminatedFinalRecord |-> unterminated,
   breakAt                 |-> IF whole \/ torn THEN 0
                               ELSE IF Decodes(line) THEN line[1].seq
                               ELSE at.seq + 1]

LEMMA VerifyIsAnswer ==
  ASSUME NEW f, NEW from
  PROVE  VerifyFrom(f, from) =
           Answer(Whole(f, from), TornTail(f, from), Whole(f, from) /\ f.tail # <<>>,
                  Verified(Walk(f), from), Reached(Walk(f), Verified(Walk(f), from) + 1, from),
                  Walk(f)[Verified(Walk(f), from) + 1])
BY Zenon DEF VerifyFrom, Answer, Whole, TornTail

LEMMA AnswerRecount ==
  ASSUME NEW whole, NEW torn, NEW unterminated, NEW n, NEW at, NEW line, NEW m
  PROVE  [Answer(whole, torn, unterminated, n, at, line) EXCEPT !.records = m + @]
           = Answer(whole, torn, unterminated, m + n, at, line)
BY DEF Answer

LEMMA BrokenAnswer ==
  ASSUME NEW f, NEW from, ~Whole(f, from), ~TornTail(f, from)
  PROVE  VerifyFrom(f, from) =
           Answer(FALSE, FALSE, FALSE,
                  Verified(Walk(f), from), Reached(Walk(f), Verified(Walk(f), from) + 1, from),
                  Walk(f)[Verified(Walk(f), from) + 1])
<1>1. /\ Whole(f, from) = FALSE /\ TornTail(f, from) = FALSE
      /\ (Whole(f, from) /\ f.tail # <<>>) = FALSE
  OBVIOUS
<1> QED BY <1>1, VerifyIsAnswer, Zenon

(* Of a log that is whole no line is looked at.                            *)
LEMMA SameAnswer ==
  ASSUME NEW f, NEW from, NEW g, NEW at,
         Whole(f, from) <=> Whole(g, at), TornTail(f, from) <=> TornTail(g, at), f.tail = g.tail,
         Reached(Walk(f), Verified(Walk(f), from) + 1, from)
           = Reached(Walk(g), Verified(Walk(g), at) + 1, at),
         ~Whole(f, from) => Walk(f)[Verified(Walk(f), from) + 1] = Walk(g)[Verified(Walk(g), at) + 1]
  PROVE  VerifyFrom(f, from) =
           Answer(Whole(g, at), TornTail(g, at), Whole(g, at) /\ g.tail # <<>>,
                  Verified(Walk(f), from), Reached(Walk(g), Verified(Walk(g), at) + 1, at),
                  Walk(g)[Verified(Walk(g), at) + 1])
<1>1. /\ Whole(f, from) = Whole(g, at) /\ TornTail(f, from) = TornTail(g, at)
      /\ (Whole(f, from) /\ f.tail # <<>>) = (Whole(g, at) /\ g.tail # <<>>)
  BY DEF Whole, TornTail
<1>2. CASE Whole(g, at)
  BY <1>1, <1>2, VerifyIsAnswer, Zenon DEF Answer
<1>3. CASE ~Whole(g, at)
  BY <1>1, <1>3, VerifyIsAnswer, Zenon
<1> QED BY <1>2, <1>3

(* A line of the second part holds from the end of the first as it does in *)
(* the whole.                                                              *)
LEMMA PartsHold ==
  ASSUME NEW f \in File, NEW k \in 0..Len(f.lines), NEW from
  PROVE  /\ \A i \in 1..k : Holds(Walk(Upto(f, k)), i, from) <=> Holds(Walk(f), i, from)
         /\ \A i \in 1..k + 1 : Reached(Walk(Upto(f, k)), i, from) = Reached(Walk(f), i, from)
         /\ \A i \in 1..Len(Walk(f)) - k :
              Holds(Walk(Beyond(f, k)), i, Reached(Walk(f), k + 1, from))
                <=> Holds(Walk(f), k + i, from)
         /\ \A i \in 1..Len(Walk(f)) - k + 1 :
              Reached(Walk(Beyond(f, k)), i, Reached(Walk(f), k + 1, from))
                = Reached(Walk(f), k + i, from)
<1> DEFINE ls == Walk(f)
           a == Walk(Upto(f, k))
           b == Walk(Beyond(f, k))
           p == Reached(Walk(f), k + 1, from)
<1>1. /\ k \in Nat /\ Len(ls) \in Nat /\ k <= Len(ls)
      /\ \A i \in 1..k : a[i] = ls[i]
      /\ \A i \in 1..Len(ls) - k : b[i] = ls[k + i]
  BY PartsAreFiles
<1> HIDE DEF ls, a, b
<1>2. ASSUME NEW i \in 1..k + 1 PROVE Reached(a, i, from) = Reached(ls, i, from)
  <2>1. i # 1 => a[i-1] = ls[i-1]
    BY <1>1
  <2> QED BY <2>1 DEF Reached
<1>3. ASSUME NEW i \in 1..Len(ls) - k + 1 PROVE Reached(b, i, p) = Reached(ls, k + i, from)
  <2>1. CASE i = 1
    BY <2>1 DEF Reached, ls
  <2>2. CASE i # 1
    <3>1. i - 1 \in 1..Len(ls) - k /\ k + (i - 1) = (k + i) - 1 /\ k + i # 1
      BY <1>1, <2>2
    <3>2. b[i-1] = ls[(k + i) - 1]
      BY <1>1, <3>1
    <3> QED BY <2>2, <3>1, <3>2 DEF Reached
  <2> QED BY <2>1, <2>2
<1>4. ASSUME NEW i \in 1..k PROVE Holds(a, i, from) <=> Holds(ls, i, from)
  BY <1>1, <1>2 DEF Holds
<1>5. ASSUME NEW i \in 1..Len(ls) - k PROVE Holds(b, i, p) <=> Holds(ls, k + i, from)
  BY <1>1, <1>3 DEF Holds
<1> QED BY <1>2, <1>3, <1>4, <1>5 DEF ls, a, b

(* The parts of a log, verified one from the end of the other, answer what *)
(* the whole does, for any file and any place to cut it.                   *)
THEOREM PartsAnswerAsOne ==
  ASSUME NEW f \in File, NEW k \in 0..Len(f.lines)
  PROVE  LET first == Verify(Upto(f, k))
             rest  == VerifyFrom(Beyond(f, k), EndOf(first))
         IN Verify(f) = IF first.ok THEN [rest EXCEPT !.records = first.records + @] ELSE first
<1> DEFINE ls == Walk(f)
           a == Walk(Upto(f, k))
           b == Walk(Beyond(f, k))
           p == Reached(Walk(f), k + 1, Genesis)
           n == Verified(Walk(f), Genesis)
           n1 == Verified(Walk(Upto(f, k)), Genesis)
           n2 == Verified(Walk(Beyond(f, k)), Reached(Walk(f), k + 1, Genesis))
           first == Verify(Upto(f, k))
           rest == VerifyFrom(Beyond(f, k), EndOf(Verify(Upto(f, k))))
<1>1. /\ ls \in Seq(Line) /\ a \in Seq(Line) /\ b \in Seq(Line)
      /\ k \in Nat /\ Len(ls) \in Nat /\ k <= Len(ls) /\ Len(a) = k /\ Len(b) = Len(ls) - k
      /\ \A i \in 1..k : a[i] = ls[i]
      /\ \A i \in 1..Len(ls) - k : b[i] = ls[k + i]
  <2>1. Upto(f, k) \in File /\ Beyond(f, k) \in File
    BY PartsAreFiles
  <2>2. ls \in Seq(Line) /\ a \in Seq(Line) /\ b \in Seq(Line)
    BY <2>1, WalkProperties, Zenon
  <2>3. /\ Len(a) = k /\ \A i \in 1..k : a[i] = ls[i]
        /\ Len(ls) \in Nat /\ k <= Len(ls) /\ Len(b) = Len(ls) - k
        /\ \A i \in 1..Len(ls) - k : b[i] = ls[k + i]
    BY PartsAreFiles, Zenon
  <2>4. k \in Nat
    OBVIOUS
  <2> HIDE DEF ls, a, b
  <2> QED BY <2>2, <2>3, <2>4
<1>2. /\ n1 \in 0..k
      /\ \A i \in 1..n1 : Holds(a, i, Genesis)
      /\ n1 < k => ~Holds(a, n1 + 1, Genesis)
  BY <1>1, VerifiedProperties
<1>3. /\ n2 \in 0..Len(ls) - k
      /\ \A i \in 1..n2 : Holds(b, i, p)
      /\ n2 < Len(ls) - k => ~Holds(b, n2 + 1, p)
  BY <1>1, VerifiedProperties
<1>4. /\ Whole(Upto(f, k), Genesis) <=> n1 = k
      /\ ~TornTail(Upto(f, k), Genesis) /\ ~(Upto(f, k).tail # <<>>)
  BY <1>1 DEF Whole, TornTail, EndsMidRecord, Upto
<1>5. first.ok <=> n1 = k
  BY <1>4, VerifyFields DEF Verify
<1> HIDE DEF ls, a, b, p, n, n1, n2
<1>6. CASE n1 < k
  <2>1. n = n1
    <3>1. n1 \in 0..Len(ls) /\ n1 < Len(ls) /\ n1 + 1 \in 1..k
      BY <1>1, <1>2, <1>6
    <3>2. ASSUME NEW i \in 1..n1 PROVE Holds(ls, i, Genesis)
      <4>1. i \in 1..k
        BY <1>1, <1>2
      <4> QED BY <1>2, <4>1, PartsHold DEF a, ls
    <3>3. ~Holds(ls, n1 + 1, Genesis)
      BY <1>2, <1>6, <3>1, PartsHold DEF a, ls
    <3> QED BY <1>1, <3>1, <3>2, <3>3, VerifiedIs DEF n, ls
  <2>2. ~Whole(f, Genesis) /\ ~Whole(Upto(f, k), Genesis)
    BY <1>1, <1>2, <1>4, <1>6, <2>1 DEF Whole, n, ls
  <2>3. ~TornTail(f, Genesis)
    <3>1. f.tail # <<>> => Len(ls) = Len(f.lines) + 1
      BY WalkProperties DEF ls
    <3> QED BY <1>1, <1>2, <1>6, <2>1, <3>1 DEF TornTail, EndsMidRecord, n, ls
  <2>4. Reached(ls, n + 1, Genesis) = Reached(a, n1 + 1, Genesis) /\ ls[n + 1] = a[n1 + 1]
    <3>1. n1 + 1 \in 1..k /\ n1 + 1 \in 1..k + 1
      BY <1>1, <1>2, <1>6
    <3> QED BY <1>1, <2>1, <3>1, PartsHold DEF a, ls
  <2>5. Verify(f) = Answer(FALSE, FALSE, FALSE, n, Reached(ls, n + 1, Genesis), ls[n + 1])
    BY <2>2, <2>3, BrokenAnswer DEF Verify, n, ls
  <2>6. first = Answer(FALSE, FALSE, FALSE, n1, Reached(a, n1 + 1, Genesis), a[n1 + 1])
    BY <1>4, <2>2, BrokenAnswer DEF Verify, n1, a
  <2>7. ~first.ok
    BY <1>1, <1>2, <1>5, <1>6
  <2> QED BY <2>1, <2>4, <2>5, <2>6, <2>7
<1>7. CASE n1 = k
  <2>1. n = k + n2
    <3>1. k + n2 \in 0..Len(ls)
      BY <1>1, <1>3
    <3>2. ASSUME NEW i \in 1..k + n2 PROVE Holds(ls, i, Genesis)
      <4>1. CASE i <= k
        <5>1. i \in 1..k /\ Holds(a, i, Genesis)
          BY <1>1, <1>2, <1>7, <4>1
        <5> QED BY <5>1, PartsHold DEF a, ls
      <4>2. CASE i > k
        <5>1. i - k \in 1..n2 /\ i - k \in 1..Len(ls) - k /\ k + (i - k) = i
          BY <1>1, <1>3, <4>2
        <5>2. Holds(b, i - k, p)
          BY <1>3, <5>1
        <5>3. Holds(b, i - k, p) <=> Holds(ls, k + (i - k), Genesis)
          BY <5>1, PartsHold DEF b, ls, p
        <5> QED BY <5>1, <5>2, <5>3
      <4> QED BY <1>1, <1>3, <4>1, <4>2
    <3>3. k + n2 < Len(ls) => ~Holds(ls, (k + n2) + 1, Genesis)
      <4> SUFFICES ASSUME k + n2 < Len(ls) PROVE ~Holds(ls, (k + n2) + 1, Genesis)
        OBVIOUS
      <4>1. n2 + 1 \in 1..Len(ls) - k /\ k + (n2 + 1) = (k + n2) + 1 /\ n2 < Len(ls) - k
        BY <1>1, <1>3
      <4>2. Holds(b, n2 + 1, p) <=> Holds(ls, k + (n2 + 1), Genesis)
        BY <4>1, PartsHold DEF b, ls, p
      <4> QED BY <1>3, <4>1, <4>2
    <3> QED BY <1>1, <3>1, <3>2, <3>3, VerifiedIs DEF n, ls
  <2>2. EndOf(first) = p /\ first.records = k
    <3>1. first.records = k /\ EndOf(first) = [head |-> Reached(a, k + 1, Genesis).head,
                                              seq |-> Reached(a, k + 1, Genesis).seq]
      BY <1>7, VerifyFields DEF Verify, EndOf, n1, a
    <3>2. Reached(a, k + 1, Genesis) = p
      BY <1>1, PartsHold DEF a, p
    <3>3. p = [head |-> p.head, seq |-> p.seq]
      BY DEF p, Reached, Genesis
    <3> QED BY <3>1, <3>2, <3>3
  <2>3. /\ n + 1 = k + (n2 + 1) /\ n2 + 1 \in 1..Len(ls) - k + 1
        /\ n2 = Len(b) <=> n = Len(ls)
        /\ n2 + 1 = Len(b) <=> n + 1 = Len(ls)
    BY <1>1, <1>3, <2>1
  <2>4. /\ Whole(Beyond(f, k), p) <=> Whole(f, Genesis)
        /\ TornTail(Beyond(f, k), p) <=> TornTail(f, Genesis)
        /\ Beyond(f, k).tail = f.tail
    BY <2>3 DEF Whole, TornTail, EndsMidRecord, Beyond, n, n2, b, ls, p
  <2>5. Reached(b, n2 + 1, p) = Reached(ls, n + 1, Genesis)
    BY <2>3, PartsHold DEF b, p, ls
  <2>6. ~Whole(f, Genesis) => ls[n + 1] = b[n2 + 1]
    <3> SUFFICES ASSUME n # Len(ls) PROVE ls[n + 1] = b[n2 + 1]
      BY DEF Whole, n, ls
    <3>0. n2 # Len(b)
      BY <2>3
    <3>1. n2 + 1 \in 1..Len(ls) - k
      <4>1. n2 \in 0..Len(ls) - k /\ n2 # Len(ls) - k /\ Len(ls) \in Nat /\ k \in Nat
        BY <1>1, <1>3, <3>0
      <4> QED BY <4>1
    <3>2. b[n2 + 1] = ls[k + (n2 + 1)]
      BY <1>1, <3>1
    <3>3. n + 1 = k + (n2 + 1)
      BY <1>1, <1>3, <2>3
    <3> QED BY <3>2, <3>3, Zenon
  <2>7. Verify(f) = Answer(Whole(Beyond(f, k), p), TornTail(Beyond(f, k), p),
                           Whole(Beyond(f, k), p) /\ Beyond(f, k).tail # <<>>,
                           n, Reached(b, n2 + 1, p), b[n2 + 1])
    BY <2>4, <2>5, <2>6, SameAnswer DEF Verify, n, n2, b, ls, p
  <2>8. VerifyFrom(Beyond(f, k), p) =
          Answer(Whole(Beyond(f, k), p), TornTail(Beyond(f, k), p),
                 Whole(Beyond(f, k), p) /\ Beyond(f, k).tail # <<>>,
                 n2, Reached(b, n2 + 1, p), b[n2 + 1])
    BY VerifyIsAnswer DEF n2, b, p
  <2>9. Verify(f) = [VerifyFrom(Beyond(f, k), p) EXCEPT !.records = k + @]
    BY <2>1, <2>7, <2>8, AnswerRecount
  <2> QED BY <1>5, <1>7, <2>2, <2>9
<1> QED BY <1>2, <1>6, <1>7

(* Of every log the gates can leave behind, however it is cut.             *)
THEOREM SegmentsComposeAlways == Spec => []SegmentsCompose
<1>1. TypeOK => SegmentsCompose
  <2>1. TypeOK => file \in File
    BY DEF TypeOK
  <2> QED BY <2>1, PartsAnswerAsOne, Zenon DEF SegmentsCompose
<1> QED BY <1>1, TypeCorrect, PTL

-----------------------------------------------------------------------------
(* Records that are all in the evidence are no more than its records.      *)
LEMMA NoMoreThanEvidence ==
  ASSUME NEW f \in File, NEW R,
         \A r \in R : \E i \in DOMAIN Evidence(f) : Evidence(f)[i] = r
  PROVE  Cardinality(R) \in Nat /\ Cardinality(R) <= Verify(f).records
<1> DEFINE n == Verified(Walk(f), Genesis)
           E == Evidence(f)
           T == {E[i] : i \in 1..n}
<1>1. n \in Nat /\ Verify(f).records = n
  BY EvidenceIsChained, VerifyFields DEF Verify
<1>2. E = [i \in 1..n |-> Walk(f)[i][1]]
  BY DEF Evidence
<1> HIDE DEF n, E
<1>3. E \in Surjection(1..n, T)
  BY <1>2 DEF Surjection
<1>4. IsFiniteSet(1..n) /\ Cardinality(1..n) = n
  BY <1>1, FS_Interval
<1> HIDE DEF T
<1>5. IsFiniteSet(T) /\ Cardinality(T) <= n
  BY <1>3, <1>4, FS_Surjection
<1>6. R \in SUBSET T
  BY <1>2 DEF T, E
<1>7. IsFiniteSet(R) /\ Cardinality(R) <= Cardinality(T)
  BY <1>5, <1>6, FS_Subset
<1>8. Cardinality(R) \in Nat /\ Cardinality(T) \in Nat
  BY <1>5, <1>7, FS_CardinalityType
<1> QED BY <1>1, <1>5, <1>7, <1>8

(* With one gate at a time, whole writes and valid text: the exit code of  *)
(* verify tells a crash from tampering and from a clean stop.              *)
THEOREM ExitCodeTellsCrashReliably ==
  ASSUME Reliable PROVE Spec => []ExitCodeTellsCrash
<1>1. ASSUME TypeOK, LogAlwaysVerifies, AckedIsEvidence
      PROVE  ExitCodeTellsCrash
  <2> DEFINE res == VerifyFrom(file, Genesis)
  <2>1. file \in File /\ res.ok
    BY <1>1 DEF TypeOK, LogAlwaysVerifies, Verify
  <2>2. ~(res.records < Cardinality(acked))
    <3>1. Cardinality(acked) \in Nat /\ Cardinality(acked) <= res.records
      BY <1>1, <2>1, NoMoreThanEvidence DEF AckedIsEvidence, Verify
    <3>2. res.records \in Nat
      BY <2>1, EvidenceIsChained, VerifyFields
    <3> QED BY <3>1, <3>2
  <2>3. res.truncatedTail \/ res.unterminatedFinalRecord <=> file.tail # <<>>
    BY <2>1, VerifyFields, Zenon DEF TornTail, EndsMidRecord
  <2>4. VerifyExit(file, Genesis, Cardinality(acked)) = IF file.tail = <<>> THEN 0 ELSE 3
    <3>1. VerifyExit(file, Genesis, Cardinality(acked))
            = IF ~res.ok \/ res.records < Cardinality(acked) THEN 1
              ELSE IF res.truncatedTail \/ res.unterminatedFinalRecord THEN 3 ELSE 0
      BY Zenon DEF VerifyExit
    <3> HIDE DEF res
    <3> QED BY <2>1, <2>2, <2>3, <3>1
  <2> QED BY <2>4 DEF ExitCodeTellsCrash
<1> QED BY <1>1, TypeCorrect, LogAlwaysVerifiesReliably, AckedIsEvidenceReliably, PTL
=============================================================================
