----------------------------- MODULE AuditReview -----------------------------
(***************************************************************************)
(* What the reader of a log can conclude from egressgate verify: of a log  *)
(* kept in several files, where --from-head and --from-seq continue the    *)
(* chain of the file before, and of a log someone has had in their hands,  *)
(* where the head the gate printed is compared with the one verify prints. *)
(* The logs are those the gates of AuditLog leave behind, crashes, failed  *)
(* writes and overlapping gates included.                                  *)
(***************************************************************************)
EXTENDS AuditLog

(* The first k lines of a log, and the segment that continues them.        *)
Upto(f, k) == [lines |-> SubSeq(f.lines, 1, k), tail |-> <<>>]
Beyond(f, k) == [lines |-> SubSeq(f.lines, k + 1, Len(f.lines)), tail |-> f.tail]

(* The point --from-head and --from-seq name: where a file's result ends.  *)
EndOf(res) == [head |-> res.head, seq |-> res.lastSeq]

-----------------------------------------------------------------------------
(* What an editor can make of a record: another body, with the hash left   *)
(* as it was or computed anew the way chainHash does.                      *)
Reworded(r, b) == [r EXCEPT !.body = b]
Rehashed(r) == [r EXCEPT !.hash = ChainHash(r.prev, r.seq, Reencode(r.body))]

Without(ls, i) == SubSeq(ls, 1, i - 1) \o SubSeq(ls, i + 1, Len(ls))
Repeating(ls, i) == SubSeq(ls, 1, i) \o SubSeq(ls, i, Len(ls))
Exchanging(ls, i, j) == [k \in DOMAIN ls |-> CASE k = i -> ls[j] [] k = j -> ls[i] [] OTHER -> ls[k]]
Rewriting(ls, i, r) == [ls EXCEPT ![i] = <<r>>]

Edits(ls) ==
  LET places  == DOMAIN ls
      records == {i \in places : Decodes(ls[i])}
  IN {Without(ls, i) : i \in places} \cup {Repeating(ls, i) : i \in places}
     \cup {SubSeq(ls, 1, i) : i \in places}
     \cup {Exchanging(ls, i, j) : i \in places, j \in places}
     \cup {Rewriting(ls, i, Reworded(ls[i][1], b)) : i \in records, b \in Bodies}
     \cup {Rewriting(ls, i, Rehashed(Reworded(ls[i][1], b))) : i \in records, b \in Bodies}

Edited(f) == {[lines |-> ls, tail |-> t] : ls \in Edits(f.lines), t \in {f.tail, <<>>}}

(* The records a reader takes from a log: those that verify, as decoded.   *)
ReadAs(f) == [i \in DOMAIN Evidence(f) |-> [Evidence(f)[i] EXCEPT !.body = Reencode(@)]]

Quiet == \A g \in Gates : Idle(g)

-----------------------------------------------------------------------------
(* A log kept in segments says what it would say in one file: wherever the *)
(* chain was cut, verifying the parts one after the other, each from the   *)
(* end of the one before, gives the verdict, the count, the head and the   *)
(* break of the whole (doc comment of VerifyFrom).                         *)
SegmentsCompose ==
  Quiet =>
    \A k \in 0..Len(file.lines) :
      LET first == Verify(Upto(file, k))
          rest  == VerifyFrom(Beyond(file, k), EndOf(first))
      IN Verify(file) = IF first.ok THEN [rest EXCEPT !.records = first.records + @]
                                    ELSE first

(* The chain is tamper-evident to whoever noted its head: a log with lines *)
(* taken out, repeated, exchanged, reworded or cut off, whose verification *)
(* ends at the head of the original, reads as the original does (package   *)
(* comment of audit, and "compare the head" in cmdVerify).                 *)
HeadPinsEvidence ==
  Quiet => \A f \in Edited(file) :
    Verify(f).head = Verify(file).head => ReadAs(f) = ReadAs(file)
=============================================================================
