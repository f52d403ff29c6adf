-------------------------- MODULE AuditChainProofs --------------------------
(***************************************************************************)
(* Lemmas about the operators of AuditChain: what Verify answers about a   *)
(* file in terms of its lines, and what appending to a file does to that   *)
(* answer.  They hold for every body, every file and every starting point. *)
(***************************************************************************)
EXTENDS AuditChain, SequenceTheorems, WellFoundedInduction, TLAPS

(* A non-empty set of naturals has a least element; the walk of Verify     *)
(* stops at the least line that does not hold.                             *)
LEMMA LeastNat ==
  ASSUME NEW S \in SUBSET Nat, S # {}
  PROVE  \E x \in S : \A y \in S : x <= y
<1> DEFINE R == OpToRel(<, Nat)
<1>1. \E x \in S : \A y \in S : ~(<<y, x>> \in R)
  <2>1. IsWellFoundedOn(R, Nat)
    BY NatLessThanWellFounded
  <2> HIDE DEF R
  <2> QED
    BY <2>1, WFMin
<1>2. PICK x \in S : \A y \in S : ~(<<y, x>> \in R)
  BY <1>1
<1>3. \A y \in S : x <= y
  <2> TAKE y \in S
  <2>1. y \in Nat /\ x \in Nat
    OBVIOUS
  <2>2. ~(y < x)
    <3> SUFFICES ASSUME y < x PROVE <<y, x>> \in R
      BY <1>2
    <3> QED
      BY <2>1 DEF OpToRel
  <2> QED
    BY <2>1, <2>2
<1> QED
  BY <1>3

(* Verified is well defined: it counts the lines before the first that     *)
(* does not hold, whatever the file.                                       *)
LEMMA VerifiedProperties ==
  ASSUME NEW S, NEW ls \in Seq(S), NEW from
  PROVE  /\ Verified(ls, from) \in 0..Len(ls)
         /\ \A i \in 1..Verified(ls, from) : Holds(ls, i, from)
         /\ Verified(ls, from) < Len(ls) => ~Holds(ls, Verified(ls, from) + 1, from)
<1> DEFINE P(n) == /\ \A i \in 1..n : Holds(ls, i, from)
                   /\ n < Len(ls) => ~Holds(ls, n + 1, from)
<1> DEFINE Bad == {i \in 1..Len(ls) : ~Holds(ls, i, from)}
<1>0. Len(ls) \in Nat /\ Bad \in SUBSET Nat
  BY LenProperties
<1>1. \E n \in 0..Len(ls) : P(n)
  <2>1. CASE Bad = {}
    <3>1. P(Len(ls)) /\ Len(ls) \in 0..Len(ls)
      BY <2>1, <1>0
    <3> QED
      BY <3>1
  <2>2. CASE Bad # {}
    <3>0. \A T \in SUBSET Nat : T # {} => \E b \in T : \A y \in T : b <= y
      BY LeastNat
    <3>1. PICK b \in Bad : \A y \in Bad : b <= y
      BY <1>0, <2>2, <3>0
    <3>2. b - 1 \in 0..Len(ls) /\ b \in 1..Len(ls)
      BY <1>0
    <3>3. \A i \in 1..(b - 1) : Holds(ls, i, from)
      BY <1>0, <3>1, <3>2
    <3>4. ~Holds(ls, (b - 1) + 1, from)
      <4>1. (b - 1) + 1 = b
        BY <3>2
      <4> QED
        BY <4>1
    <3> QED
      BY <3>2, <3>3, <3>4
  <2> QED
    BY <2>1, <2>2
<1>2. Verified(ls, from) = CHOOSE n \in 0..Len(ls) : P(n)
  BY DEF Verified
<1> QED
  BY <1>1, <1>2

(* Conversely, a count with those two properties is the one Verify makes.  *)
LEMMA VerifiedIs ==
  ASSUME NEW S, NEW ls \in Seq(S), NEW from, NEW n \in 0..Len(ls),
         \A i \in 1..n : Holds(ls, i, from),
         n < Len(ls) => ~Holds(ls, n + 1, from)
  PROVE  Verified(ls, from) = n
<1> DEFINE m == Verified(ls, from)
<1>1. /\ m \in 0..Len(ls)
      /\ \A i \in 1..m : Holds(ls, i, from)
      /\ m < Len(ls) => ~Holds(ls, m + 1, from)
  BY VerifiedProperties
<1>2. Len(ls) \in Nat
  BY LenProperties
<1> HIDE DEF m
<1>3. ~(m < n)
  BY <1>1, <1>2
<1>4. ~(n < m)
  BY <1>1, <1>2
<1> QED
  BY <1>1, <1>2, <1>3, <1>4 DEF m

(* A line's verdict depends on the line and the one before it only, so     *)
(* appending a line changes no earlier verdict.                            *)
LEMMA HoldsOfAppend ==
  ASSUME NEW S, NEW ls \in Seq(S), NEW x \in S, NEW from, NEW i \in 1..Len(ls)
  PROVE  Holds(Append(ls, x), i, from) <=> Holds(ls, i, from)
<1>1. Len(ls) \in Nat
  BY LenProperties
<1>2. Append(ls, x)[i] = ls[i]
  BY AppendProperties
<1>3. i # 1 => Append(ls, x)[i-1] = ls[i-1]
  BY <1>1, AppendProperties
<1>4. Reached(Append(ls, x), i, from) = Reached(ls, i, from)
  BY <1>3 DEF Reached
<1> QED
  BY <1>2, <1>4 DEF Holds

(* The lines a file is made of, as Verify walks them.                      *)
LEMMA WalkProperties ==
  ASSUME NEW f \in File
  PROVE  /\ Walk(f) \in Seq(Line)
         /\ f.tail = <<>> => Walk(f) = f.lines
         /\ f.tail # <<>> => /\ f.tail \in Line
                            /\ Walk(f) = Append(f.lines, f.tail)
                            /\ Len(Walk(f)) = Len(f.lines) + 1
                            /\ Walk(f)[Len(f.lines) + 1] = f.tail
         /\ \A i \in 1..Len(f.lines) : Walk(f)[i] = f.lines[i]
         /\ Len(f.lines) \in Nat
<1>1. f.lines \in Seq(Line) /\ f.tail \in Seq(Pieces)
  BY DEF File
<1>2. Len(f.lines) \in Nat
  BY <1>1, LenProperties
<1>3. CASE f.tail = <<>>
  BY <1>1, <1>2, <1>3 DEF Walk
<1>4. CASE f.tail # <<>>
  <2>1. f.tail \in Line
    BY <1>1, <1>4 DEF Line
  <2>2. Walk(f) = Append(f.lines, f.tail)
    BY <1>4 DEF Walk
  <2> QED
    BY <1>1, <1>2, <1>4, <2>1, <2>2, AppendProperties
<1> QED
  BY <1>3, <1>4

(* What it takes for a log to verify: every terminated line holds, and     *)
(* the text after the last newline, if any, stops mid-record or holds too. *)
Intact(f, from) ==
  /\ \A i \in 1..Len(f.lines) : Holds(f.lines, i, from)
  /\ \/ f.tail = <<>>
     \/ f.tail[1] = Torn
     \/ Holds(Walk(f), Len(f.lines) + 1, from)

LEMMA HoldsInWalk ==
  ASSUME NEW f \in File, NEW from, NEW i \in 1..Len(f.lines)
  PROVE  Holds(Walk(f), i, from) <=> Holds(f.lines, i, from)
<1>1. f.lines \in Seq(Line)
  BY DEF File
<1>2. CASE f.tail = <<>>
  BY <1>2, WalkProperties
<1>3. CASE f.tail # <<>>
  <2>1. f.tail \in Line /\ Walk(f) = Append(f.lines, f.tail)
    BY <1>3, WalkProperties
  <2> QED
    BY <1>1, <2>1, HoldsOfAppend
<1> QED
  BY <1>2, <1>3

(* The fields of Verify's result.                                          *)
Whole(f, from) == Verified(Walk(f), from) = Len(Walk(f))
TornTail(f, from) == Verified(Walk(f), from) + 1 = Len(Walk(f)) /\ EndsMidRecord(f)

LEMMA VerifyFields ==
  ASSUME NEW f, NEW from
  PROVE  /\ VerifyFrom(f, from).ok = (Whole(f, from) \/ TornTail(f, from))
         /\ VerifyFrom(f, from).records = Verified(Walk(f), from)
         /\ VerifyFrom(f, from).head = Reached(Walk(f), Verified(Walk(f), from) + 1, from).head
         /\ VerifyFrom(f, from).lastSeq = Reached(Walk(f), Verified(Walk(f), from) + 1, from).seq
         /\ VerifyFrom(f, from).truncatedTail = TornTail(f, from)
         /\ VerifyFrom(f, from).unterminatedFinalRecord = (Whole(f, from) /\ f.tail # <<>>)
BY Zenon DEF VerifyFrom, Whole, TornTail

(* Verify's loop, with its early returns, decides exactly that.            *)
LEMMA OkIffIntact ==
  ASSUME NEW f \in File, NEW from
  PROVE  VerifyFrom(f, from).ok <=> Intact(f, from)
<1> DEFINE ls == Walk(f)
           n == Verified(Walk(f), from)
           L == Len(f.lines)
<1>1. /\ n \in 0..Len(ls)
      /\ \A i \in 1..n : Holds(ls, i, from)
      /\ n < Len(ls) => ~Holds(ls, n + 1, from)
  BY WalkProperties, VerifiedProperties
<1>2. VerifyFrom(f, from).ok
        <=> (n = Len(ls) \/ (n + 1 = Len(ls) /\ f.tail # <<>> /\ f.tail[1] = Torn))
  BY VerifyFields, Zenon DEF EndsMidRecord, Whole, TornTail
<1>3. L \in Nat
  BY WalkProperties
<1>4. (\A i \in 1..L : Holds(f.lines, i, from)) <=> (\A i \in 1..L : Holds(ls, i, from))
  BY HoldsInWalk
<1>5. CASE f.tail = <<>>
  <2>1. Len(ls) = L
    BY <1>5, WalkProperties
  <2>2. VerifyFrom(f, from).ok <=> n = L
    BY <1>2, <1>5, <2>1, Zenon DEF L
  <2> HIDE DEF n, ls, L
  <2>3. n = L <=> \A i \in 1..L : Holds(ls, i, from)
    BY <1>1, <1>3, <2>1
  <2> QED
    BY <1>4, <1>5, <2>2, <2>3 DEF Intact, L, ls
<1>6. CASE f.tail # <<>>
  <2>1. Len(ls) = L + 1 /\ ls[L + 1] = f.tail
    BY <1>6, WalkProperties
  <2>2. f.tail[1] = Torn => ~Holds(ls, L + 1, from)
    BY <2>1 DEF Holds, Decodes
  <2> HIDE DEF n, ls, L
  <2>3. (n = L + 1 \/ (n = L /\ f.tail[1] = Torn))
           <=> /\ \A i \in 1..L : Holds(ls, i, from)
               /\ f.tail[1] = Torn \/ Holds(ls, L + 1, from)
    <3>1. CASE n = L + 1
      BY <1>1, <1>3, <2>1, <2>2, <3>1
    <3>2. CASE n = L
      BY <1>1, <1>3, <2>1, <3>2
    <3>3. CASE n < L
      BY <1>1, <1>3, <2>1, <3>3
    <3> QED
      BY <1>1, <1>3, <2>1, <3>1, <3>2, <3>3
  <2>4. VerifyFrom(f, from).ok <=> (n = L + 1 \/ (n = L /\ f.tail[1] = Torn))
    <3>1. (n + 1 = L + 1) <=> n = L
      BY <1>1, <1>3, <2>1
    <3> QED
      BY <1>2, <1>6, <2>1, <3>1, Zenon DEF ls, n
  <2> QED
    BY <1>4, <1>6, <2>3, <2>4 DEF Intact, L, ls
<1> QED
  BY <1>5, <1>6

(* A line that holds is one record.                                        *)
LEMMA HoldsIsRecord ==
  ASSUME NEW ls \in Seq(Line), NEW from, NEW i \in 1..Len(ls), Holds(ls, i, from)
  PROVE  ls[i][1] \in Record /\ Len(ls[i]) = 1
<1>1. ls[i] \in Seq(Pieces) /\ Len(ls[i]) = 1 /\ ls[i][1] # Torn
  BY ElementOfSeq DEF Line, Holds, Decodes
<1>2. ls[i][1] \in Pieces
  BY <1>1, ElementOfSeq
<1> QED
  BY <1>1, <1>2 DEF Pieces

(* What Verify reports as its head and last number is a point of a chain.  *)
LEMMA VerifyPoint ==
  ASSUME NEW f \in File
  PROVE  [head |-> Verify(f).head, seq |-> Verify(f).lastSeq] \in Point
<1> DEFINE ls == Walk(f)
           n == Verified(Walk(f), Genesis)
<1>1. /\ ls \in Seq(Line)
      /\ n \in 0..Len(ls)
      /\ \A i \in 1..n : Holds(ls, i, Genesis)
  BY WalkProperties, VerifiedProperties
<1>2. /\ Verify(f).head = Reached(ls, n + 1, Genesis).head
      /\ Verify(f).lastSeq = Reached(ls, n + 1, Genesis).seq
  BY VerifyFields DEF Verify
<1>3. Len(ls) \in Nat
  BY <1>1, LenProperties
<1> HIDE DEF ls, n
<1>4. CASE n = 0
  <2>1. Reached(ls, n + 1, Genesis) = Genesis
    BY <1>4 DEF Reached
  <2>2. <<>> \in Hashes
    BY EmptySeq DEF Hashes
  <2> QED
    BY <1>2, <2>1, <2>2 DEF Point, Genesis, GenesisHash
<1>5. CASE n # 0
  <2>1. n \in 1..Len(ls) /\ n + 1 # 1 /\ (n + 1) - 1 = n
    BY <1>1, <1>3, <1>5
  <2>2. ls[n][1] \in Record
    BY <1>1, <2>1, HoldsIsRecord
  <2>3. Reached(ls, n + 1, Genesis) = [head |-> ls[n][1].hash, seq |-> ls[n][1].seq]
    BY <2>1 DEF Reached
  <2> QED
    BY <1>2, <2>2, <2>3 DEF Point, Record
<1> QED
  BY <1>4, <1>5

(* The record Append builds is a record.                                   *)
LEMMA NextRecordType ==
  ASSUME NEW p \in Point, NEW b \in Bodies
  PROVE  /\ NextRecord(p, b) \in Record
         /\ [head |-> NextRecord(p, b).hash, seq |-> NextRecord(p, b).seq] \in Point
<1>1. p.head \in Seq(Nat \X Texts) /\ p.seq + 1 \in Nat
  BY DEF Point, Hashes
<1>2. <<p.seq + 1, b>> \in Nat \X Texts
  BY <1>1 DEF Texts
<1>3. ChainHash(p.head, p.seq + 1, b) \in Hashes
  BY <1>1, <1>2, AppendProperties DEF ChainHash, Hashes
<1> QED
  BY <1>1, <1>3 DEF NextRecord, Record, Point, Hashes
=============================================================================
