------------------------------ MODULE AuditLog ------------------------------
(***************************************************************************)
(* Gates that keep their audit log in one file (egressgate serve --audit): *)
(* existingChainHead reads and repairs the file, Resume continues its      *)
(* chain, Append extends it, and a gate may be stopped, killed between any *)
(* two steps, or killed or refused by the file system inside a write.      *)
(* Gates other than the first are the processes a deploy starts next.      *)
(*                                                                         *)
(* A gate's start is several steps, because a kill, or another gate, can   *)
(* come between them: the verdict of Verify, the repair of the tail if it  *)
(* asks for one (a cut is a search and a truncation, an added newline is   *)
(* one write), and the opening of the file for append.  Append holds       *)
(* Log.mu throughout and is one step; only a kill can cut it short.        *)
(***************************************************************************)
EXTENDS AuditChain, FiniteSets

CONSTANTS
  Gates,         \* the processes that may be started on the file
  Exclusive,     \* a gate is started only when no other is running
  PartialWrites, \* a write that fails may leave a part of its bytes behind
  MaxAppends,    \* bound on attempted appends, over all gates
  MaxKills       \* bound on kills, over all gates

ASSUME ConstantsAssumption ==
  /\ Exclusive \in BOOLEAN /\ PartialWrites \in BOOLEAN
  /\ MaxAppends \in Nat /\ MaxKills \in Nat

VARIABLES
  file,    \* the audit file, as the kernel holds it
  phase,   \* what each gate is doing
  log,     \* Log.prev and Log.seq of each gate, or what Resume will be given
  keep,    \* how many lines the search before a gate's truncation has found
  acked,   \* the records whose Append returned without an error
  exposed, \* history: those of them appended between another gate's search
           \* and its truncation
  appends, \* appends attempted so far
  kills    \* kills so far

vars == <<file, phase, log, keep, acked, exposed, appends, kills>>

Phases == {"down", "truncating", "cutting", "terminating", "verified", "serving", "refused"}

TypeOK ==
  /\ file \in File
  /\ phase \in [Gates -> Phases]
  /\ log \in [Gates -> Point]
  /\ keep \in [Gates -> Nat]
  /\ acked \in SUBSET Record
  /\ exposed \in SUBSET Record
  /\ appends \in 0..MaxAppends
  /\ kills \in 0..MaxKills

Init ==
  /\ file = EmptyFile
  /\ phase = [g \in Gates |-> "down"]
  /\ log = [g \in Gates |-> Genesis]
  /\ keep = [g \in Gates |-> 0]
  /\ acked = {}
  /\ exposed = {}
  /\ appends = 0
  /\ kills = 0

Idle(g) == phase[g] \in {"down", "refused"}

Becomes(g, p) == phase' = [phase EXCEPT ![g] = p]

-----------------------------------------------------------------------------
(* existingChainHead reads the file and acts on Verify's verdict.          *)
MutVerdictCutsUnterminated(res) ==
  IF ~res.ok THEN "refused"
  ELSE IF res.truncatedTail \/ res.unterminatedFinalRecord THEN "truncating"
  ELSE "verified"
MutVerdictCutsBroken(res) ==
  IF ~res.ok \/ res.truncatedTail THEN "truncating"
  ELSE IF res.unterminatedFinalRecord THEN "terminating"
  ELSE "verified"

Verdict(res) ==
  IF ~res.ok THEN "refused"
  ELSE IF res.truncatedTail THEN "truncating"
  ELSE IF res.unterminatedFinalRecord THEN "terminating"
  ELSE "verified"

MutStartOffByOne(g) ==
  /\ phase[g] = "down"
  /\ Exclusive => \A h \in Gates : Idle(h)
  /\ LET res == Verify(file) IN
       /\ Becomes(g, Verdict(res))
       /\ log' = [log EXCEPT ![g] = [head |-> res.head, seq |-> res.lastSeq - 1]]
  /\ UNCHANGED <<file, keep, acked, exposed, appends, kills>>

Start(g) ==
  /\ phase[g] = "down"
  /\ Exclusive => \A h \in Gates : Idle(h)
  /\ LET res == Verify(file) IN
       /\ Becomes(g, Verdict(res))
       /\ log' = [log EXCEPT ![g] = [head |-> res.head, seq |-> res.lastSeq]]
  /\ UNCHANGED <<file, keep, acked, exposed, appends, kills>>

(* truncatePartialLine, first half: the end of the file, and backwards     *)
(* from there the newline of the last complete line.                       *)
MutSearchOneTooFar(g) ==
  /\ phase[g] = "truncating"
  /\ keep' = [keep EXCEPT ![g] = IF file.lines = <<>> THEN 0 ELSE Len(file.lines) - 1]
  /\ Becomes(g, "cutting")
  /\ UNCHANGED <<file, log, acked, exposed, appends, kills>>

FindLineEnd(g) ==
  /\ phase[g] = "truncating"
  /\ keep' = [keep EXCEPT ![g] = Len(file.lines)]
  /\ Becomes(g, "cutting")
  /\ UNCHANGED <<file, log, acked, exposed, appends, kills>>

(* Second half: the file is truncated to what was found, whatever it has   *)
(* become.  Truncating beyond the end, which takes another gate that cut   *)
(* it shorter, fills up with zero bytes, which do not decode.  Lines are   *)
(* taken to be of one length.                                              *)
Truncated(f, n) ==
  IF n <= Len(f.lines) THEN [lines |-> SubSeq(f.lines, 1, n), tail |-> <<>>]
  ELSE [f EXCEPT !.tail = Append(@, Torn)]

MutTruncateForgotten(g) ==
  /\ phase[g] = "cutting"
  /\ Becomes(g, "verified")
  /\ UNCHANGED <<file, log, keep, acked, exposed, appends, kills>>

CutBack(g) ==
  /\ phase[g] = "cutting"
  /\ file' = Truncated(file, keep[g])
  /\ Becomes(g, "verified")
  /\ UNCHANGED <<log, keep, acked, exposed, appends, kills>>

AppendMissingNewline(g) ==
  /\ phase[g] = "terminating"
  /\ file' = [lines |-> Walk(file), tail |-> <<>>]
  /\ Becomes(g, "verified")
  /\ UNCHANGED <<log, keep, acked, exposed, appends, kills>>

(* The file is opened for append and Resume takes the head and number.     *)
Serve(g) ==
  /\ phase[g] = "verified"
  /\ Becomes(g, "serving")
  /\ UNCHANGED <<file, log, keep, acked, exposed, appends, kills>>

-----------------------------------------------------------------------------
Attempt(g) ==
  /\ phase[g] = "serving"
  /\ appends < MaxAppends
  /\ appends' = appends + 1

(* The pieces land at the end of the file, with or without a newline.      *)
WriteLine(f, r) == [lines |-> Append(f.lines, Append(f.tail, r)), tail |-> <<>>]
WritePart(f, left) == [f EXCEPT !.tail = @ \o left]

(* What a write that does not finish can leave of record r's line, short   *)
(* of its newline.                                                         *)
Leftovers(r) == {<<>>, <<Torn>>, <<r>>}

AppendRecord(g, b) ==
  LET r == NextRecord(log[g], b) IN
  /\ Attempt(g)
  /\ file' = WriteLine(file, r)
  /\ log' = [log EXCEPT ![g] = [head |-> r.hash, seq |-> r.seq]]
  /\ acked' = acked \cup {r}
  /\ exposed' = IF \E h \in Gates : phase[h] = "cutting" THEN exposed \cup {r} ELSE exposed
  /\ UNCHANGED <<phase, keep, kills>>

(* The write returned an error: the caller is told, the chain in memory    *)
(* stays where it was, and the bytes that went out stay in the file.       *)
MutFailedWriteAdvances(g, b) ==
  LET r == NextRecord(log[g], b) IN
  /\ Attempt(g)
  /\ \E left \in Leftovers(r) :
       /\ left # <<>> => PartialWrites
       /\ file' = WritePart(file, left)
  /\ log' = [log EXCEPT ![g] = [head |-> r.hash, seq |-> r.seq]]
  /\ UNCHANGED <<phase, keep, acked, exposed, kills>>

AppendFailed(g, b) ==
  /\ Attempt(g)
  /\ \E left \in Leftovers(NextRecord(log[g], b)) :
       /\ left # <<>> => PartialWrites
       /\ file' = WritePart(file, left)
  /\ UNCHANGED <<phase, log, keep, acked, exposed, kills>>

-----------------------------------------------------------------------------
(* SIGKILL or an OOM kill in any phase; a repair or a listener that fails  *)
(* during the start ends the process as well.                              *)
Kill(g) ==
  /\ ~Idle(g)
  /\ kills < MaxKills
  /\ kills' = kills + 1
  /\ Becomes(g, "down")
  /\ UNCHANGED <<file, log, keep, acked, exposed, appends>>

(* The process dies inside the write of Append: any part of the line may   *)
(* have reached the file, all of it included, and nobody was told.         *)
KillInWrite(g, b) ==
  LET r == NextRecord(log[g], b) IN
  /\ Attempt(g)
  /\ kills < MaxKills
  /\ kills' = kills + 1
  /\ Becomes(g, "down")
  /\ \/ file' = WriteLine(file, r)
     \/ \E left \in Leftovers(r) : file' = WritePart(file, left)
  /\ UNCHANGED <<log, keep, acked, exposed>>

(* A graceful stop: SIGTERM, after which the deferred Close runs.          *)
Stop(g) ==
  /\ phase[g] = "serving"
  /\ Becomes(g, "down")
  /\ UNCHANGED <<file, log, keep, acked, exposed, appends, kills>>

-----------------------------------------------------------------------------
Startup(g) ==
  Start(g) \/ FindLineEnd(g) \/ CutBack(g) \/ AppendMissingNewline(g) \/ Serve(g)

Next ==
  \E g \in Gates :
    \/ Start(g)
    \/ FindLineEnd(g)
    \/ CutBack(g)
    \/ AppendMissingNewline(g)
    \/ Serve(g)
    \/ Kill(g)
    \/ Stop(g)
    \/ \E b \in Bodies :
         \/ AppendRecord(g, b)
         \/ AppendFailed(g, b)
         \/ KillInWrite(g, b)

Spec == Init /\ [][Next]_vars

(* The supervisor restarts a gate that is down, and a start that is not    *)
(* killed proceeds.  Nothing is asked of traffic, stops or kills.          *)
FairSpec == Spec /\ \A g \in Gates : WF_vars(Startup(g))

-----------------------------------------------------------------------------
(* The records of the lines that verify: what the log is evidence of.      *)
Evidence(f) == LET n == Verified(Walk(f), Genesis)
               IN [i \in 1..n |-> Walk(f)[i][1]]

(* Whatever a gate does and wherever it is killed, the file verifies up to *)
(* its last complete record: a crash never looks like tampering            *)
(* (VerifyResult.TruncatedTail, UnterminatedFinalRecord).                  *)
LogAlwaysVerifies == Verify(file).ok

(* A gate never finds the file its predecessors left to be broken, so no   *)
(* crash turns into a crash loop (existingChainHead).                      *)
NeverRefused == \A g \in Gates : phase[g] # "refused"

(* The chain a serving gate holds in memory is the one on disk: the next   *)
(* record it writes continues the last record that verifies, and the file  *)
(* ends at a line end (Resume, Append, truncatePartialLine).               *)
MemoryMatchesFile ==
  \A g \in Gates : phase[g] = "serving" =>
    /\ file.tail = <<>>
    /\ log[g] = [head |-> Verify(file).head, seq |-> Verify(file).lastSeq]

(* A record whose Append succeeded is among the records that verify, for   *)
(* good: no restart, repair or later append takes it out of the evidence.  *)
AckedIsEvidence ==
  \A r \in acked : \E i \in DOMAIN Evidence(file) : Evidence(file)[i] = r

(* verify --min-records with the number of acknowledged records never      *)
(* answers 1, and answers 0 exactly when the file ends at a record's       *)
(* newline: 3 is for a crash and for nothing else (exit codes of run.go).  *)
ExitCodeTellsCrash ==
  LET code == VerifyExit(file, Genesis, Cardinality(acked))
  IN code \in {0, 3} /\ (code = 0 <=> file.tail = <<>>)

(* A gate that is down, or is killed while it starts, is eventually back:  *)
(* some gate serves again and again.                                       *)
AlwaysServesAgain == []<>(\E g \in Gates : phase[g] = "serving")

(* What the reader of the log is promised, whatever the gates go through.  *)
Abstract == INSTANCE AppendOnlyChain WITH
  chain     <- [i \in DOMAIN Evidence(file) |-> Evidence(file)[i].body],
  announced <- {r.seq : r \in acked}

ImplementsAppendOnlyChain == Abstract!ASpec

(* Under failed writes, garbled records and overlapping gates too: the     *)
(* bytes of a record whose Append succeeded stay in the file, even when    *)
(* the line they are on no longer verifies.  Nothing locks the file, so    *)
(* there is one exception, and no other: a record appended after another   *)
(* gate's search and before its truncation (truncatePartialLine).          *)
AckedStaysOnDisk ==
  \A r \in acked \ exposed :
    \E i \in DOMAIN file.lines : \E j \in DOMAIN file.lines[i] : file.lines[i][j] = r

(* Under the same faults and with the same exception: when an acknowledged *)
(* record is missing from the evidence, Verify says that the chain is      *)
(* broken; it is never passed over in silence (VerifyFrom).                *)
LossIsVisible ==
  Verify(file).ok =>
    \A r \in acked \ exposed : \E i \in DOMAIN Evidence(file) : Evidence(file)[i] = r

(* A log that does not verify is never made to verify again by anything a  *)
(* gate does: no start goes on to repair it, and no repair that is under   *)
(* way tidies the break away (existingChainHead).  The one exception needs *)
(* two gates on the file: a gate whose search came before the other one    *)
(* wrote.                                                                  *)
BreaksAreKept ==
  [][ ~Verify(file).ok =>
        /\ \A g \in Gates : phase[g] = "down" => phase'[g] \in {"down", "refused"}
        /\ (\A g \in Gates : phase[g] # "cutting") => ~Verify(file').ok ]_vars


(* "A failed write leaves the chain untouched": it costs its own record    *)
(* and does not turn the records acknowledged after it into "an            *)
(* unverifiable remainder" (comment on Append).                            *)
FailedWriteCostsOneRecord ==
  \A r \in acked : \E i \in DOMAIN Evidence(file) : Evidence(file)[i] = r

(* "Writer and verifier both use this package, so the chain is             *)
(* self-consistent" (comment on chainHash): what Append wrote, Verify      *)
(* accepts.                                                                *)
WriterAndVerifierAgree == Verify(file).ok
=============================================================================
