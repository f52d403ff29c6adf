------------------------------- MODULE TunnelPump -------------------------------
(***************************************************************************)
(* The inside of one open tunnel: pump of internal/proxy/connect.go, its   *)
(* two copying goroutines with their idleReader and cappedWriter, the      *)
(* clock they share, and the two peers.                                    *)
(*                                                                         *)
(* A byte is counted, never looked at.  Time is kept as distances: ticks   *)
(* since the clock was touched, ticks until a deadline.  A tick passes     *)
(* only when every goroutine is blocked, so that code takes no time and    *)
(* the peers and the deadlines do.                                         *)
(***************************************************************************)
EXTENDS Integers

CONSTANTS
  UpBytes,    \* bound: the bytes the client sends
  DownBytes,  \* bound: the bytes the upstream sends
  Early,      \* of the client's, those that came with the CONNECT request
  Chunk,      \* the size of io.Copy's buffer
  Window,     \* bytes a connection takes before its peer reads them
  Cap,        \* Config.MaxTunnelBytes, 0 for none
  Idle        \* Config.IdleTimeout in ticks, 0 for none

ASSUME PumpAssumption ==
  /\ {UpBytes, DownBytes, Early, Cap, Idle} \subseteq Nat
  /\ {Chunk, Window} \subseteq Nat \ {0}
  /\ Early <= UpBytes

Directions == {"up", "down"}
Ends == {"client", "upstream"}

Source(d) == IF d = "up" THEN "client" ELSE "upstream"
Sink(d) == IF d = "up" THEN "upstream" ELSE "client"
Budget(d) == IF d = "up" THEN UpBytes ELSE DownBytes

VARIABLES
  sent,       \* bytes each direction's source has sent
  finished,   \* peers that have half-closed
  gone,       \* peers that have reset their connection
  taken,      \* bytes each direction's sink has read
  closed,     \* connections the gate has closed
  pc,         \* where each copying goroutine is
  got,        \* bytes its reader has returned
  delivered,  \* bytes its writer has written: io.Copy's count
  capped,     \* cappedWriter.capped
  armed,      \* ticks until the read deadline last set
  age,        \* ticks since idleClock.last, Idle standing for more
  quiet,      \* history: ticks, up to Idle, since a byte was read
  main,       \* where pump is
  report      \* what it returns

peerVars == <<sent, finished, gone, taken>>
copyVars == <<pc, got, delivered, capped, armed>>
timeVars == <<age, quiet>>
pumpVars == <<main, report>>
vars == <<peerVars, closed, copyVars, timeVars, pumpVars>>

-----------------------------------------------------------------------------
CopyPcs == {"arm", "wait", "touch", "judge", "write", "done"}
MainPcs == {"wait", "closing", "drain", "returned"}

Least(m, n) == IF m < n THEN m ELSE n

TypeOK ==
  /\ sent \in [Directions -> Nat]
  /\ finished \in SUBSET Ends
  /\ gone \in SUBSET Ends
  /\ taken \in [Directions -> Nat]
  /\ closed \in SUBSET Ends
  /\ pc \in [Directions -> CopyPcs]
  /\ got \in [Directions -> Nat]
  /\ delivered \in [Directions -> Nat]
  /\ capped \in [Directions -> BOOLEAN]
  /\ armed \in [Directions -> 0..Idle]
  /\ age \in 0..Idle
  /\ quiet \in 0..Idle
  /\ main \in MainPcs
  /\ report \in [bytes : [Directions -> Nat], capped : BOOLEAN]

Init ==
  /\ sent = [d \in Directions |-> IF d = "up" THEN Early ELSE 0]
  /\ finished = {}
  /\ gone = {}
  /\ taken = [d \in Directions |-> 0]
  /\ closed = {}
  /\ pc = [d \in Directions |-> "arm"]
  /\ got = [d \in Directions |-> 0]
  /\ delivered = [d \in Directions |-> 0]
  /\ capped = [d \in Directions |-> FALSE]
  /\ armed = [d \in Directions |-> 0]
  /\ age = 0
  /\ quiet = 0
  /\ main = "wait"
  /\ report = [bytes |-> [d \in Directions |-> 0], capped |-> FALSE]

-----------------------------------------------------------------------------
Pending(d) == sent[d] - got[d]

(* The buffered reader still holds bytes of the CONNECT packet: it returns *)
(* them without a look at the connection.                                  *)
HasEarly(d) == d = "up" /\ got[d] < Early

Moves(d, from, to) ==
  /\ pc[d] = from
  /\ pc' = [pc EXCEPT ![d] = to]

GoesOn(d, from, to) ==
  /\ Moves(d, from, to)
  /\ UNCHANGED <<peerVars, closed, got, delivered, capped, armed, timeVars, pumpVars>>

(* idleClock.deadline, as ticks from now: not after now when nothing was   *)
(* read for the whole timeout, however the goroutine spent it.             *)
MutRemaining == Idle - age + 1

Remaining == Idle - age

(* idleReader.Read sets the deadline before every read.  A read that       *)
(* starts past its deadline fails at once, whatever there is to read.      *)
Arm(d) ==
  LET expired == Idle > 0 /\ Remaining = 0 /\ Source(d) \notin closed /\ ~HasEarly(d)
  IN /\ Moves(d, "arm", IF expired THEN "judge" ELSE "wait")
     /\ armed' = [armed EXCEPT ![d] = Remaining]
     /\ UNCHANGED <<peerVars, closed, got, delivered, capped, timeVars, pumpVars>>

Reads(d, n) ==
  /\ Moves(d, "wait", "touch")
  /\ got' = [got EXCEPT ![d] = @ + n]
  /\ quiet' = 0
  /\ UNCHANGED <<peerVars, closed, delivered, capped, armed, age, pumpVars>>

ReadEarly(d) ==
  /\ HasEarly(d)
  /\ Reads(d, Least(Chunk, Early - got[d]))

ReadData(d) ==
  /\ ~HasEarly(d)
  /\ Pending(d) > 0
  /\ Source(d) \notin closed
  /\ Reads(d, Least(Chunk, Pending(d)))

ReadEOF(d) ==
  /\ ~HasEarly(d)
  /\ Pending(d) = 0
  /\ Source(d) \in finished \ closed
  /\ GoesOn(d, "wait", "done")

MutReadFailsRetried(d) ==
  /\ ~HasEarly(d)
  /\ Source(d) \in closed \cup gone
  /\ GoesOn(d, "wait", "judge")

ReadFails(d) ==
  /\ ~HasEarly(d)
  /\ Source(d) \in closed \cup gone
  /\ GoesOn(d, "wait", "done")

ReadTimesOut(d) ==
  /\ Idle > 0
  /\ armed[d] = 0
  /\ ~HasEarly(d)
  /\ Source(d) \notin closed
  /\ GoesOn(d, "wait", "judge")

(* activity.touch.                                                         *)
MutTouchForgotten(d) == GoesOn(d, "touch", "write")

Touch(d) ==
  /\ Moves(d, "touch", "write")
  /\ age' = 0
  /\ UNCHANGED <<peerVars, closed, got, delivered, capped, armed, quiet, pumpVars>>

(* After a timeout the shared clock decides: the other direction may have  *)
(* moved since the deadline was set.                                       *)
MutAlwaysExtend(d) == GoesOn(d, "judge", "arm")

Judge(d) == GoesOn(d, "judge", IF age < Idle THEN "arm" ELSE "done")

-----------------------------------------------------------------------------
(* cappedWriter.Write forwards what of the chunk fits under the cap; the   *)
(* rest of it, if any, is what turns the flag on.                          *)
Limit(d) == IF Cap = 0 THEN got[d] ELSE Least(got[d], Cap)

MutOver(d) == Cap > 0 /\ got[d] >= Cap

Over(d) == Cap > 0 /\ got[d] > Cap

Broken(e) == e \in closed \cup gone

WriteByte(d) ==
  /\ pc[d] = "write"
  /\ delivered[d] < Limit(d)
  /\ ~Broken(Sink(d))
  /\ delivered[d] - taken[d] < Window
  /\ delivered' = [delivered EXCEPT ![d] = @ + 1]
  /\ UNCHANGED <<peerVars, closed, pc, got, capped, armed, timeVars, pumpVars>>

WriteDone(d) ==
  /\ delivered[d] >= Limit(d)
  /\ Moves(d, "write", IF Over(d) THEN "done" ELSE "arm")
  /\ capped' = [capped EXCEPT ![d] = Over(d)]
  /\ UNCHANGED <<peerVars, closed, got, delivered, armed, timeVars, pumpVars>>

WriteFails(d) ==
  /\ delivered[d] < Limit(d)
  /\ Broken(Sink(d))
  /\ GoesOn(d, "write", "done")

(* A goroutine whose copy ended stores its count and its flag and sends on *)
(* the channel, which is the step others see.                              *)
Done(d) == pc[d] = "done"

CopyStep(d) ==
  \/ Arm(d) \/ ReadEarly(d) \/ ReadData(d) \/ ReadEOF(d) \/ ReadFails(d)
  \/ ReadTimesOut(d) \/ Touch(d) \/ Judge(d)
  \/ WriteByte(d) \/ WriteDone(d) \/ WriteFails(d)

-----------------------------------------------------------------------------
MainMoves(from, to) ==
  /\ main = from
  /\ main' = to

(* The first of two receives from done, and closeBoth.                     *)
FirstDone ==
  /\ \E d \in Directions : Done(d)
  /\ MainMoves("wait", "closing")
  /\ closed' = closed \cup {"client"}
  /\ UNCHANGED <<peerVars, copyVars, timeVars, report>>

MutCloseUpstreamForgotten ==
  /\ MainMoves("closing", "drain")
  /\ UNCHANGED <<peerVars, closed, copyVars, timeVars, report>>

CloseUpstream ==
  /\ MainMoves("closing", "drain")
  /\ closed' = closed \cup {"upstream"}
  /\ UNCHANGED <<peerVars, copyVars, timeVars, report>>

(* What the goroutines have stored by now.                                 *)
Stored == [bytes  |-> [d \in Directions |-> IF Done(d) THEN delivered[d] ELSE 0],
           capped |-> \E d \in Directions : Done(d) /\ capped[d]]

MutReturnUnwaited ==
  /\ MainMoves("drain", "returned")
  /\ report' = Stored
  /\ UNCHANGED <<peerVars, closed, copyVars, timeVars>>

Return ==
  /\ \A d \in Directions : Done(d)
  /\ MainMoves("drain", "returned")
  /\ report' = Stored
  /\ UNCHANGED <<peerVars, closed, copyVars, timeVars>>

MainStep == FirstDone \/ CloseUpstream \/ Return

-----------------------------------------------------------------------------
(* The peers, and the shutdown of the gate, which closes the client's      *)
(* connection of a tunnel and then the upstream's.  Once pump has returned *)
(* what they do concerns nobody here.                                      *)
Send(d) ==
  /\ sent[d] < Budget(d)
  /\ Source(d) \notin finished \cup gone \cup closed
  /\ sent' = [sent EXCEPT ![d] = @ + 1]
  /\ UNCHANGED <<finished, gone, taken, closed, copyVars, timeVars, pumpVars>>

FinishSending(e) ==
  /\ e \notin finished /\ ~Broken(e)
  /\ finished' = finished \cup {e}
  /\ UNCHANGED <<sent, gone, taken, closed, copyVars, timeVars, pumpVars>>

Reset(e) ==
  /\ ~Broken(e)
  /\ gone' = gone \cup {e}
  /\ UNCHANGED <<sent, finished, taken, closed, copyVars, timeVars, pumpVars>>

Take(d) ==
  /\ taken[d] < delivered[d]
  /\ ~Broken(Sink(d))
  /\ taken' = [taken EXCEPT ![d] = @ + 1]
  /\ UNCHANGED <<sent, finished, gone, closed, copyVars, timeVars, pumpVars>>

Sever(e) ==
  /\ main = "wait"
  /\ e = "upstream" => "client" \in closed
  /\ closed' = closed \cup {e}
  /\ UNCHANGED <<peerVars, copyVars, timeVars, pumpVars>>

PeerStep ==
  /\ main # "returned"
  /\ \/ \E d \in Directions : Send(d) \/ Take(d)
     \/ \E e \in Ends : FinishSending(e) \/ Reset(e) \/ Sever(e)

-----------------------------------------------------------------------------
(* A read waits for bytes, an end or a deadline; a write for room.         *)
Reading(d) ==
  /\ pc[d] = "wait"
  /\ ~HasEarly(d)
  /\ Pending(d) = 0
  /\ Source(d) \notin finished
  /\ ~Broken(Source(d))
  /\ Idle > 0 => armed[d] > 0

Writing(d) ==
  /\ pc[d] = "write"
  /\ delivered[d] < Limit(d)
  /\ ~Broken(Sink(d))
  /\ delivered[d] - taken[d] >= Window

Blocked(d) == Reading(d) \/ Writing(d) \/ Done(d)

MainBlocked ==
  \/ main = "wait" /\ \A d \in Directions : ~Done(d)
  \/ main = "drain" /\ \E d \in Directions : ~Done(d)
  \/ main = "returned"

AllBlocked == MainBlocked /\ \A d \in Directions : Blocked(d)

Tick ==
  /\ AllBlocked
  /\ age' = Least(Idle, age + 1)
  /\ quiet' = Least(Idle, quiet + 1)
  /\ armed' = [d \in Directions |-> IF armed[d] > 0 THEN armed[d] - 1 ELSE 0]
  /\ UNCHANGED <<peerVars, closed, pc, got, delivered, capped, pumpVars>>

Next == MainStep \/ PeerStep \/ Tick \/ \E d \in Directions : CopyStep(d)

Spec == Init /\ [][Next]_vars

(* Goroutines are scheduled and time passes.  Nothing is assumed of the    *)
(* peers or of the shutdown.                                               *)
FairSpec ==
  /\ Spec
  /\ \A d \in Directions : WF_vars(CopyStep(d))
  /\ WF_vars(MainStep)
  /\ WF_vars(Tick)

-----------------------------------------------------------------------------
Promise == INSTANCE TunnelPromise WITH offered <- sent, over <- (main = "returned")

(* pump does what handleConnect records of it: no byte is invented or sent *)
(* beyond the cap, the counts it returns are what was written in each      *)
(* direction, and nothing moves once it has returned.                      *)
ImplementsTunnelPromise == Promise!Spec

(* "A write that exactly fills the remainder is not capped, because        *)
(* nothing was turned away" (cappedWriter.Write): the record blames the    *)
(* cap exactly when a direction filled it and had read a byte more.        *)
CappedMeansTurnedAway ==
  main = "returned" =>
    (report.capped <=> \E d \in Directions : Cap > 0 /\ delivered[d] = Cap /\ got[d] > Cap)

(* A timeout ends a tunnel only if neither direction has read a byte for   *)
(* the whole timeout, but for one that was read and is not stamped yet: a  *)
(* quiet direction does not end a busy one (idleReader.Read).  Bytes that  *)
(* a slow write moves meanwhile do not count here, since they do not touch *)
(* the clock (idleClock.touch), though the comment on idleClock would have *)
(* it expire only when nothing has moved either way.                       *)
GivesUpOnlyWithoutReads ==
  [][(\E d \in Directions : pc[d] = "judge" /\ pc'[d] = "done")
       => quiet = Idle \/ \E d \in Directions : pc[d] = "touch"]_vars

(* "Closing both ends unblocks the other copy, which would otherwise wait  *)
(* for its idle timeout" (pump): from the end of one direction to the      *)
(* return nothing waits, for a peer or for the clock.                      *)
NothingWaitsAfterTheEnd ==
  main \in {"closing", "drain"} => ~AllBlocked

(* When both connections of a tunnel are closed under it, as the shutdown  *)
(* of the gate does, the pump returns, whatever the peers do.              *)
ClosedTunnelsEnd == closed = Ends ~> main = "returned"

(* "IdleTimeout closes a CONNECT tunnel in which neither direction has     *)
(* moved bytes for this long" (Config): a tunnel in which nothing was read *)
(* for the timeout sees bytes again, or ends.                              *)
IdleTunnelsEnd == quiet = Idle ~> quiet < Idle \/ main = "returned"
=============================================================================
