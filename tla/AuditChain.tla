----------------------------- MODULE AuditChain -----------------------------
(***************************************************************************)
(* The audit chain of internal/audit/audit.go as pure operators: what a    *)
(* record and its hash are, what a log file holds, and what Verify and     *)
(* VerifyFrom answer about it.                                             *)
(*                                                                         *)
(* SHA-256 is taken to be free of collisions: a hash IS the sequence of    *)
(* <<sequence number, encoded body>> pairs hashed so far, so two hashes    *)
(* are equal exactly when the hashed histories are.  A body stands for the *)
(* encoding of every field of a record other than Seq, Prev and Hash;      *)
(* Prev is not repeated in the pair, because chainHash hashes it as the    *)
(* prefix as well.                                                         *)
(***************************************************************************)
EXTENDS Integers, Sequences

CONSTANTS
  Bodies,     \* what a record can say, as the text json.Marshal writes
  Garbled,    \* the bodies with a field that is not valid UTF-8
  Respelled,  \* what a garbled body becomes when decoded and marshalled again
  Torn        \* the text of a record cut short: it does not decode

Texts == Bodies \cup {Respelled}

(* json.Marshal writes an invalid byte as the escape \ufffd; the decoder   *)
(* turns the escape into U+FFFD, and U+FFFD is marshalled as itself.       *)
Reencode(body) == IF body \in Garbled THEN Respelled ELSE body

Hashes == Seq(Nat \X Texts)
GenesisHash == <<>>

Record == [seq : Nat, prev : Hashes, body : Bodies, hash : Hashes]

ASSUME GarbledBodies == Garbled \subseteq Bodies
ASSUME Unspoken == Respelled \notin Bodies
ASSUME TornIsNoRecord == Torn \notin Record

ChainHash(prev, seq, text) == Append(prev, <<seq, text>>)

(* A point in a chain: the hash and the number of its last record.         *)
Point == [head : Hashes, seq : Nat]
Genesis == [head |-> GenesisHash, seq |-> 0]

(* The record Append builds on top of point p.                             *)
NextRecord(p, body) ==
  [seq  |-> p.seq + 1,
   prev |-> p.head,
   body |-> body,
   hash |-> ChainHash(p.head, p.seq + 1, body)]

-----------------------------------------------------------------------------
(* A log file: its newline-terminated lines, then whatever follows the     *)
(* last newline.  A line is the sequence of pieces written on it.  Blank   *)
(* lines, which Verify skips, are not represented.                         *)
Pieces == Record \cup {Torn}
Line   == Seq(Pieces) \ {<<>>}
File   == [lines : Seq(Line), tail : Seq(Pieces)]

EmptyFile == [lines |-> <<>>, tail |-> <<>>]

(* The lines in the order Verify reads them.                               *)
Walk(f) == IF f.tail = <<>> THEN f.lines ELSE Append(f.lines, f.tail)

(* The point Verify has reached when it reads line i of ls, every line     *)
(* before it having verified.                                              *)
MutReachedFromZero(ls, i, from) ==
  IF i = 1 THEN [head |-> from.head, seq |-> 0]
  ELSE [head |-> ls[i-1][1].hash, seq |-> ls[i-1][1].seq]

Reached(ls, i, from) ==
  IF i = 1 THEN from ELSE [head |-> ls[i-1][1].hash, seq |-> ls[i-1][1].seq]

(* Line i is a single record that decodes, is the next in sequence, names  *)
(* the previous hash, and carries the hash Verify recomputes.              *)
MutDecodesFirstOnly(line) == line[1] # Torn

Decodes(line) == Len(line) = 1 /\ line[1] # Torn

MutHashTrusted(ls, i, from) ==
  LET at == Reached(ls, i, from)
      r  == ls[i][1]
  IN Decodes(ls[i]) /\ r.seq = at.seq + 1 /\ r.prev = at.head

Holds(ls, i, from) ==
  LET at == Reached(ls, i, from)
      r  == ls[i][1]
  IN /\ Decodes(ls[i])
     /\ r.seq = at.seq + 1
     /\ r.prev = at.head
     /\ r.hash = ChainHash(at.head, r.seq, Reencode(r.body))

(* How many lines verify before the first that does not.                   *)
Verified(ls, from) ==
  CHOOSE n \in 0..Len(ls) :
    /\ \A i \in 1..n : Holds(ls, i, from)
    /\ n < Len(ls) => ~Holds(ls, n + 1, from)

(* Only a final line that never got its newline and stops in the middle of *)
(* its JSON is read as an interrupted write.                               *)
MutNoLeniency(f) == FALSE

EndsMidRecord(f) == f.tail # <<>> /\ f.tail[1] = Torn

VerifyFrom(f, from) ==
  LET ls    == Walk(f)
      n     == Verified(ls, from)
      whole == n = Len(ls)
      torn  == n + 1 = Len(ls) /\ EndsMidRecord(f)
      at    == Reached(ls, n + 1, from)
  IN [ok                      |-> whole \/ torn,
      records                 |-> n,
      head                    |-> at.head,
      lastSeq                 |-> at.seq,
      truncatedTail           |-> torn,
      unterminatedFinalRecord |-> whole /\ f.tail # <<>>,
      breakAt                 |-> IF whole \/ torn THEN 0
                                  ELSE IF Decodes(ls[n+1]) THEN ls[n+1][1].seq
                                  ELSE at.seq + 1]

Verify(f) == VerifyFrom(f, Genesis)

(* The exit code of egressgate verify, given the point --from-head and     *)
(* --from-seq name and --min-records.                                      *)
MutUnterminatedIsFine(f, from, minRecords) ==
  LET res == VerifyFrom(f, from) IN
  IF ~res.ok \/ res.records < minRecords THEN 1
  ELSE IF res.truncatedTail THEN 3
  ELSE 0

VerifyExit(f, from, minRecords) ==
  LET res == VerifyFrom(f, from) IN
  IF ~res.ok \/ res.records < minRecords THEN 1
  ELSE IF res.truncatedTail \/ res.unterminatedFinalRecord THEN 3
  ELSE 0
=============================================================================
