---------------------------- MODULE TunnelPumpProofs ----------------------------
(***************************************************************************)
(* Theorems about TunnelPump, for any amount of bytes, any cap, any idle   *)
(* timeout and any room in the connections.                                *)
(***************************************************************************)
EXTENDS TunnelPump, TLAPS

LEMMA LeastIsOneOfThem ==
  ASSUME NEW m \in Int, NEW n \in Int
  PROVE  Least(m, n) \in {m, n} /\ Least(m, n) <= m /\ Least(m, n) <= n
BY DEF Least

LEMMA Ways ==
  /\ Directions = {"up", "down"}
  /\ \A d \in Directions : Source(d) \in Ends /\ Sink(d) \in Ends
BY DEF Directions, Ends, Source, Sink

-----------------------------------------------------------------------------
LEMMA TypeInit == Init => TypeOK
BY PumpAssumption DEF Init, TypeOK, Directions, Ends, CopyPcs, MainPcs

LEMMA TypeCopyStep ==
  ASSUME TypeOK, NEW d \in Directions, CopyStep(d)
  PROVE  TypeOK'
<1> USE PumpAssumption
<1>1. CASE Arm(d)
  BY <1>1 DEF TypeOK, Arm, Moves, Remaining, CopyPcs, peerVars, timeVars, pumpVars
<1>2. ASSUME NEW n \in Nat, Reads(d, n)
      PROVE  TypeOK'
  BY <1>2 DEF TypeOK, Reads, Moves, CopyPcs, peerVars, pumpVars
<1>3. CASE ReadEarly(d)
  <2>1. Least(Chunk, Early - got[d]) \in Nat
    BY <1>3 DEF ReadEarly, HasEarly, Least, TypeOK
  <2> QED BY <1>2, <1>3, <2>1 DEF ReadEarly
<1>4. CASE ReadData(d)
  <2>1. Least(Chunk, Pending(d)) \in Nat
    BY <1>4 DEF ReadData, Pending, Least, TypeOK
  <2> QED BY <1>2, <1>4, <2>1 DEF ReadData
<1>5. ASSUME NEW from \in CopyPcs, NEW to \in CopyPcs, GoesOn(d, from, to)
      PROVE  TypeOK'
  BY <1>5 DEF TypeOK, GoesOn, Moves, peerVars, timeVars, pumpVars
<1>6. CASE ReadEOF(d) \/ ReadFails(d) \/ ReadTimesOut(d) \/ Judge(d) \/ WriteFails(d)
  BY <1>5, <1>6 DEF ReadEOF, ReadFails, ReadTimesOut, Judge, WriteFails, CopyPcs
<1>7. CASE Touch(d)
  BY <1>7 DEF TypeOK, Touch, Moves, CopyPcs, peerVars, pumpVars
<1>8. CASE WriteByte(d)
  BY <1>8 DEF TypeOK, WriteByte, peerVars, timeVars, pumpVars
<1>9. CASE WriteDone(d)
  BY <1>9 DEF TypeOK, WriteDone, Moves, Over, CopyPcs, peerVars, timeVars, pumpVars
<1> QED BY <1>1, <1>3, <1>4, <1>6, <1>7, <1>8, <1>9 DEF CopyStep

LEMMA TypeMainStep ==
  ASSUME TypeOK, MainStep
  PROVE  TypeOK'
<1>1. CASE FirstDone \/ CloseUpstream
  BY <1>1 DEF TypeOK, FirstDone, CloseUpstream, MainMoves, MainPcs, Ends,
              peerVars, copyVars, timeVars
<1>2. CASE Return
  BY <1>2 DEF TypeOK, Return, Stored, Done, MainMoves, MainPcs, peerVars, copyVars, timeVars
<1> QED BY <1>1, <1>2 DEF MainStep

LEMMA TypePeerStep ==
  ASSUME TypeOK, PeerStep
  PROVE  TypeOK'
<1>1. ASSUME NEW d \in Directions, Send(d) \/ Take(d)
      PROVE  TypeOK'
  BY <1>1 DEF TypeOK, Send, Take, copyVars, timeVars, pumpVars
<1>2. ASSUME NEW e \in Ends, FinishSending(e) \/ Reset(e) \/ Sever(e)
      PROVE  TypeOK'
  BY <1>2 DEF TypeOK, FinishSending, Reset, Sever, peerVars, copyVars, timeVars, pumpVars
<1> QED BY <1>1, <1>2 DEF PeerStep

LEMMA TypeTick ==
  ASSUME TypeOK, Tick
  PROVE  TypeOK'
BY PumpAssumption DEF TypeOK, Tick, Least, peerVars, pumpVars

LEMMA TypeNext == TypeOK /\ [Next]_vars => TypeOK'
<1> SUFFICES ASSUME TypeOK, [Next]_vars PROVE TypeOK'
  OBVIOUS
<1>1. CASE UNCHANGED vars
  BY <1>1 DEF TypeOK, vars, peerVars, copyVars, timeVars, pumpVars
<1> QED BY <1>1, TypeCopyStep, TypeMainStep, TypePeerStep, TypeTick DEF Next

(* Every variable of the pump keeps its type: the counters of bytes never  *)
(* go below zero, no deadline is further away than the timeout.            *)
THEOREM PumpTypeCorrect == Spec => []TypeOK
BY TypeInit, TypeNext, PTL DEF Spec

-----------------------------------------------------------------------------
(* What a goroutine has read it writes before it reads again, up to the    *)
(* cap; a copy that is over has its flag up exactly if it filled the cap   *)
(* and had read more.                                                      *)
CountsInv ==
  \A d \in Directions :
    /\ delivered[d] <= Limit(d)
    /\ got[d] <= sent[d]
    /\ d = "up" => Early <= sent[d]
    /\ pc[d] \in {"arm", "wait", "judge"} => delivered[d] = got[d]
    /\ capped[d] <=> Done(d) /\ Over(d) /\ delivered[d] = Cap

LEMMA CountsInit == Init => CountsInv
BY PumpAssumption DEF Init, CountsInv, Limit, Done, Over, Least, Directions

(* A step that moves one goroutine and leaves the counters alone.          *)
LEMMA CountsKept ==
  ASSUME TypeOK, CountsInv, NEW d \in Directions,
         pc' = [pc EXCEPT ![d] = pc'[d]],
         pc[d] # "done",
         pc[d] = "write" => pc'[d] = "done" /\ delivered[d] # Cap,
         pc[d] = "touch" => pc'[d] = "write",
         UNCHANGED <<got, delivered, capped, sent>>
  PROVE  CountsInv'
<1> USE PumpAssumption
<1>1. pc[d] \in {"arm", "wait", "judge", "touch", "write"}
  BY DEF TypeOK, CopyPcs
<1>2. \A e \in Directions : e # d => pc'[e] = pc[e]
  BY DEF TypeOK
<1>3. pc'[d] \in {"arm", "wait", "judge"} => delivered[d] = got[d]
  BY <1>1 DEF CountsInv
<1>4. ~capped[d]
  BY <1>1 DEF CountsInv, Done
<1>5. ~(pc'[d] = "done" /\ Over(d) /\ delivered[d] = Cap)
  <2>1. CASE pc[d] \in {"arm", "wait", "judge"}
    BY <2>1 DEF CountsInv, TypeOK, Over
  <2>2. CASE pc[d] \in {"touch", "write"}
    BY <2>2
  <2> QED BY <1>1, <2>1, <2>2
<1>6. ASSUME NEW e \in Directions
      PROVE  capped[e] <=> pc'[e] = "done" /\ Over(e) /\ delivered[e] = Cap
  BY <1>2, <1>4, <1>5 DEF CountsInv, Done
<1> QED BY <1>2, <1>3, <1>6 DEF CountsInv, Limit, Done, Over

LEMMA CountsCopyStep ==
  ASSUME TypeOK, CountsInv, NEW d \in Directions, CopyStep(d)
  PROVE  CountsInv'
<1>1. CASE Arm(d)
  BY <1>1, CountsKept DEF TypeOK, Arm, Moves, peerVars
<1>2. ASSUME NEW n \in Nat, Reads(d, n), got[d] + n <= sent[d]
      PROVE  CountsInv'
  BY <1>2, PumpAssumption
  DEF TypeOK, CountsInv, Reads, Moves, Limit, Least, Done, Over, peerVars
<1>3. CASE ReadEarly(d)
  <2>1. /\ Least(Chunk, Early - got[d]) \in Nat
        /\ got[d] + Least(Chunk, Early - got[d]) <= sent[d]
    BY <1>3, PumpAssumption DEF ReadEarly, HasEarly, Least, TypeOK, CountsInv
  <2> QED BY <1>2, <1>3, <2>1 DEF ReadEarly
<1>4. CASE ReadData(d)
  <2>1. /\ Least(Chunk, Pending(d)) \in Nat
        /\ got[d] + Least(Chunk, Pending(d)) <= sent[d]
    BY <1>4, PumpAssumption DEF ReadData, Pending, Least, TypeOK
  <2> QED BY <1>2, <1>4, <2>1 DEF ReadData
<1>5. CASE ReadEOF(d) \/ ReadFails(d) \/ ReadTimesOut(d) \/ Judge(d)
  BY <1>5, CountsKept
  DEF TypeOK, ReadEOF, ReadFails, ReadTimesOut, Judge, GoesOn, Moves, peerVars
<1>6. CASE Touch(d)
  BY <1>6, CountsKept DEF TypeOK, Touch, Moves, peerVars
<1>7. CASE WriteByte(d)
  BY <1>7, PumpAssumption
  DEF TypeOK, CountsInv, WriteByte, Limit, Least, Done, Over, peerVars
<1>8. CASE WriteDone(d)
  <2>1. /\ pc' = [pc EXCEPT ![d] = IF Over(d) THEN "done" ELSE "arm"]
        /\ capped' = [capped EXCEPT ![d] = Over(d)]
        /\ UNCHANGED <<sent, got, delivered>>
    BY <1>8 DEF WriteDone, Moves, peerVars
  <2>. Limit(d) \in Nat /\ delivered[d] \in Nat
    BY PumpAssumption DEF Limit, Least, TypeOK
  <2>. delivered[d] = Limit(d)
    BY <1>8 DEF WriteDone, CountsInv
  <2>2. IF Over(d) THEN delivered[d] = Cap ELSE delivered[d] = got[d]
    BY <2>1, PumpAssumption DEF Limit, Least, Over, TypeOK
  <2>3. \A e \in Directions : e # d => pc'[e] = pc[e] /\ capped'[e] = capped[e]
    BY <2>1 DEF TypeOK
  <2>4. /\ pc'[d] = IF Over(d) THEN "done" ELSE "arm"
        /\ capped'[d] = Over(d)
    BY <2>1 DEF TypeOK
  <2>5. ASSUME NEW e \in Directions
        PROVE  capped'[e] <=> pc'[e] = "done" /\ Over(e) /\ delivered[e] = Cap
    <3>1. CASE e = d
      BY <2>2, <2>4, <3>1
    <3>2. CASE e # d
      BY <2>3, <3>2 DEF CountsInv, Done
    <3> QED BY <3>1, <3>2
  <2>6. ASSUME NEW e \in Directions, pc'[e] \in {"arm", "wait", "judge"}
        PROVE  delivered[e] = got[e]
    BY <2>2, <2>3, <2>4, <2>6 DEF CountsInv
  <2> QED BY <2>1, <2>5, <2>6 DEF CountsInv, Limit, Done, Over
<1>9. CASE WriteFails(d)
  <2>1. delivered[d] # Cap \/ ~Over(d)
    BY <1>9, PumpAssumption DEF WriteFails, Limit, Least, Over, TypeOK
  <2> QED
    BY <1>9, <2>1, PumpAssumption
    DEF TypeOK, CountsInv, WriteFails, GoesOn, Moves, Limit, Least, Done, Over, peerVars
<1> QED BY <1>1, <1>3, <1>4, <1>5, <1>6, <1>7, <1>8, <1>9 DEF CopyStep

LEMMA CountsOtherStep ==
  ASSUME TypeOK, CountsInv, MainStep \/ PeerStep \/ Tick \/ UNCHANGED vars
  PROVE  CountsInv'
<1>1. CASE MainStep \/ Tick \/ UNCHANGED vars
  BY <1>1 DEF MainStep, FirstDone, CloseUpstream, Return, Tick, CountsInv, Limit, Done, Over,
              vars, peerVars, copyVars
<1>2. ASSUME NEW d \in Directions, Send(d) \/ Take(d)
      PROVE  CountsInv'
  BY <1>2, PumpAssumption DEF Send, Take, CountsInv, TypeOK, Limit, Done, Over, copyVars
<1>3. ASSUME NEW e \in Ends, FinishSending(e) \/ Reset(e) \/ Sever(e)
      PROVE  CountsInv'
  BY <1>3 DEF FinishSending, Reset, Sever, CountsInv, Limit, Done, Over, peerVars, copyVars
<1> QED BY <1>1, <1>2, <1>3 DEF PeerStep

LEMMA CountsNext == TypeOK /\ CountsInv /\ [Next]_vars => CountsInv'
BY CountsCopyStep, CountsOtherStep DEF Next

-----------------------------------------------------------------------------
(* What pump has closed and reported by the time it is where it is.        *)
MainInv ==
  /\ main = "closing" => "client" \in closed
  /\ main = "drain" => closed = Ends
  /\ main = "returned" =>
       /\ \A d \in Directions : Done(d)
       /\ report = [bytes |-> delivered, capped |-> \E d \in Directions : capped[d]]
  /\ main # "returned" =>
       report = [bytes |-> [d \in Directions |-> 0], capped |-> FALSE]

LEMMA StoredWhenDone ==
  ASSUME TypeOK, \A d \in Directions : Done(d)
  PROVE  Stored = [bytes |-> delivered, capped |-> \E d \in Directions : capped[d]]
BY DEF TypeOK, Stored

LEMMA MainNext == TypeOK /\ MainInv /\ [Next]_vars => MainInv'
<1> SUFFICES ASSUME TypeOK, MainInv, [Next]_vars PROVE MainInv'
  OBVIOUS
<1>1. ASSUME NEW d \in Directions, CopyStep(d)
      PROVE  MainInv'
  <2>1. UNCHANGED <<main, report, closed>> /\ ~Done(d)
    BY <1>1 DEF CopyStep, Arm, ReadEarly, ReadData, Reads, ReadEOF, ReadFails, ReadTimesOut,
                Touch, Judge, WriteByte, WriteDone, WriteFails, GoesOn, Moves, Done, pumpVars
  <2>2. main # "returned"
    BY <2>1 DEF MainInv
  <2> QED BY <2>1, <2>2 DEF MainInv
<1>2. CASE FirstDone
  BY <1>2 DEF FirstDone, MainMoves, MainInv
<1>3. CASE CloseUpstream
  <2>1. closed' = Ends
    BY <1>3 DEF CloseUpstream, MainMoves, MainInv, Ends, TypeOK
  <2> QED BY <1>3, <2>1 DEF CloseUpstream, MainMoves, MainInv
<1>4. CASE Return
  BY <1>4, StoredWhenDone DEF Return, MainMoves, MainInv, Done, copyVars
<1>5. CASE PeerStep
  BY <1>5 DEF PeerStep, Send, Take, FinishSending, Reset, Sever, MainInv, Ends, copyVars, pumpVars
<1>6. CASE Tick \/ UNCHANGED vars
  BY <1>6 DEF Tick, MainInv, Done, vars, copyVars, pumpVars
<1> QED BY <1>1, <1>2, <1>3, <1>4, <1>5, <1>6 DEF Next, MainStep

IInv == TypeOK /\ CountsInv /\ MainInv

LEMMA Inductive == Spec => []IInv
<1>1. Init => IInv
  BY TypeInit, CountsInit DEF IInv, Init, MainInv
<1>2. IInv /\ [Next]_vars => IInv'
  BY TypeNext, CountsNext, MainNext DEF IInv
<1> QED BY <1>1, <1>2, PTL DEF Spec

(* The record blames the cap exactly when a direction filled it and had    *)
(* read a byte more (connect.go:268-307).                                  *)
THEOREM CappedMeansTurnedAwayAlways == Spec => []CappedMeansTurnedAway
<1>1. IInv => CappedMeansTurnedAway
  BY DEF IInv, CountsInv, MainInv, Over, CappedMeansTurnedAway
<1> QED BY <1>1, Inductive, PTL

(* From the end of one direction to the return of pump no goroutine waits  *)
(* for a peer or for the clock (connect.go:220-230).                       *)
THEOREM NothingWaitsAfterTheEndAlways == Spec => []NothingWaitsAfterTheEnd
<1>1. IInv => NothingWaitsAfterTheEnd
  <2> SUFFICES ASSUME IInv, main \in {"closing", "drain"}, AllBlocked PROVE FALSE
    BY DEF NothingWaitsAfterTheEnd
  <2>1. main = "drain" /\ \E d \in Directions : ~Done(d)
    BY DEF AllBlocked, MainBlocked
  <2>2. PICK d \in Directions : ~Done(d) /\ Blocked(d)
    BY <2>1 DEF AllBlocked
  <2>3. Source(d) \in closed /\ Sink(d) \in closed
    BY <2>1, Ways DEF IInv, MainInv
  <2> QED BY <2>2, <2>3 DEF Blocked, Reading, Writing, Broken
<1> QED BY <1>1, Inductive, PTL

-----------------------------------------------------------------------------
(* The shared clock is never behind the quiet of the tunnel, but for a     *)
(* byte that was read and not stamped yet.                                 *)
ClockInv == age <= quiet \/ \E d \in Directions : pc[d] = "touch"

LEMMA ClockNext == TypeOK /\ ClockInv /\ [Next]_vars => ClockInv'
<1> SUFFICES ASSUME TypeOK, ClockInv, [Next]_vars PROVE ClockInv'
  OBVIOUS
<1> USE PumpAssumption
<1>1. ASSUME NEW d \in Directions, CopyStep(d), ~Touch(d), pc[d] = "wait" => pc'[d] # "touch"
      PROVE  ClockInv'
  BY <1>1 DEF CopyStep, Arm, ReadEarly, ReadData, Reads, ReadEOF, ReadFails, ReadTimesOut,
              Judge, WriteByte, WriteDone, WriteFails, GoesOn, Moves, timeVars, ClockInv, TypeOK
<1>2. ASSUME NEW d \in Directions, CopyStep(d), pc'[d] = "touch"
      PROVE  ClockInv'
  BY <1>2 DEF ClockInv
<1>3. ASSUME NEW d \in Directions, Touch(d)
      PROVE  ClockInv'
  BY <1>3 DEF Touch, ClockInv, TypeOK
<1>4. CASE MainStep \/ PeerStep \/ UNCHANGED vars
  BY <1>4 DEF MainStep, FirstDone, CloseUpstream, Return, PeerStep, Send, Take, FinishSending,
              Reset, Sever, vars, copyVars, timeVars, ClockInv
<1>5. CASE Tick
  <2>1. age <= quiet
    BY <1>5 DEF Tick, AllBlocked, Blocked, Reading, Writing, Done, ClockInv
  <2> QED BY <1>5, <2>1 DEF Tick, Least, ClockInv, TypeOK
<1> QED BY <1>1, <1>2, <1>3, <1>4, <1>5 DEF Next

(* A timeout ends a tunnel only if neither direction has read a byte for   *)
(* the whole timeout, but for one not stamped yet (connect.go:357-361).    *)
THEOREM GivesUpOnlyWithoutReadsAlways == Spec => GivesUpOnlyWithoutReads
<1>1. Init => ClockInv
  BY DEF Init, ClockInv
<1>2. TypeOK /\ ClockInv /\ [Next]_vars =>
        [(\E d \in Directions : pc[d] = "judge" /\ pc'[d] = "done")
           => quiet = Idle \/ \E d \in Directions : pc[d] = "touch"]_vars
  <2> SUFFICES ASSUME TypeOK, ClockInv, [Next]_vars,
                      NEW d \in Directions, pc[d] = "judge", pc'[d] = "done"
               PROVE  quiet = Idle \/ \E e \in Directions : pc[e] = "touch"
    OBVIOUS
  <2>1. Judge(d)
    <3>1. \A e \in Directions : CopyStep(e) => pc' = [pc EXCEPT ![e] = pc'[e]]
      BY DEF CopyStep, Arm, ReadEarly, ReadData, Reads, ReadEOF, ReadFails, ReadTimesOut,
             Touch, Judge, WriteByte, WriteDone, WriteFails, GoesOn, Moves, TypeOK
    <3>2. CopyStep(d)
      BY <3>1 DEF Next, MainStep, FirstDone, CloseUpstream, Return, PeerStep, Send, Take,
                  FinishSending, Reset, Sever, Tick, vars, copyVars, TypeOK
    <3> QED
      BY <3>2 DEF CopyStep, Arm, ReadEarly, ReadData, Reads, ReadEOF, ReadFails, ReadTimesOut,
                  Touch, WriteByte, WriteDone, WriteFails, GoesOn, Moves, TypeOK
  <2>2. age >= Idle
    BY <2>1, PumpAssumption DEF Judge, GoesOn, Moves, TypeOK
  <2> QED BY <2>2, PumpAssumption DEF ClockInv, TypeOK
<1> QED BY <1>1, <1>2, ClockNext, PumpTypeCorrect, PTL DEF Spec, GivesUpOnlyWithoutReads

-----------------------------------------------------------------------------
LEMMA PromiseKept ==
  ASSUME IInv, [Next]_vars
  PROVE  [Promise!Next]_(Promise!vars)
<1> DEFINE Still == UNCHANGED <<sent, delivered, report, main = "returned">>
<1> SUFFICES Still \/ Promise!Next
  BY DEF Promise!vars
<1> USE DEF IInv
<1>1. ASSUME NEW d \in Directions, WriteByte(d)
      PROVE  Promise!Forward(d)
  <2>1. main # "returned"
    BY <1>1 DEF MainInv, Done, WriteByte
  <2>2. delivered[d] < sent[d] /\ (Cap = 0 \/ delivered[d] < Cap)
    BY <1>1, PumpAssumption DEF WriteByte, Limit, Least, CountsInv, TypeOK
  <2> QED BY <1>1, <2>1, <2>2 DEF WriteByte, Promise!Forward, peerVars, pumpVars
<1>2. ASSUME NEW d \in Directions, CopyStep(d), ~WriteByte(d)
      PROVE  Still
  BY <1>2 DEF CopyStep, Arm, ReadEarly, ReadData, Reads, ReadEOF, ReadFails, ReadTimesOut,
              Touch, Judge, WriteDone, WriteFails, GoesOn, Moves, peerVars, pumpVars
<1>3. CASE FirstDone \/ CloseUpstream
  BY <1>3 DEF FirstDone, CloseUpstream, MainMoves, peerVars, copyVars
<1>4. CASE Return
  <2>1. report' = [bytes |-> delivered, capped |-> \E d \in Directions : capped[d]]
    BY <1>4, StoredWhenDone DEF Return
  <2>2. ASSUME NEW d \in Directions, capped[d]
        PROVE  Promise!TurnedAway(d)
    BY <2>2, PumpAssumption DEF CountsInv, Over, Promise!TurnedAway, TypeOK
  <2>3. main = "drain" /\ main' = "returned" /\ UNCHANGED <<sent, delivered>>
    BY <1>4 DEF Return, MainMoves, peerVars, copyVars
  <2>4. Promise!Return
    BY <2>1, <2>2, <2>3 DEF Promise!Return
  <2> QED BY <2>4 DEF Promise!Next
<1>5. ASSUME NEW d \in Directions, Send(d)
      PROVE  Promise!Offer(d)
  BY <1>5 DEF Send, Promise!Offer, copyVars, pumpVars
<1>6. ASSUME NEW d \in Directions, Take(d)
      PROVE  Still
  BY <1>6 DEF Take, copyVars, pumpVars
<1>7. ASSUME NEW e \in Ends, FinishSending(e) \/ Reset(e) \/ Sever(e)
      PROVE  Still
  BY <1>7 DEF FinishSending, Reset, Sever, peerVars, copyVars, pumpVars
<1>8. CASE Tick \/ UNCHANGED vars
  BY <1>8 DEF Tick, vars, peerVars, copyVars, pumpVars
<1> QED
  BY <1>1, <1>2, <1>3, <1>4, <1>5, <1>6, <1>7, <1>8 DEF Next, MainStep, PeerStep, Promise!Next

(* pump does what handleConnect records of it (connect.go:172-231): bytes  *)
(* within the cap, a report that is the truth, and nothing after it.       *)
THEOREM PumpKeepsItsPromise == Spec => ImplementsTunnelPromise
<1>1. Init => Promise!Init
  BY PumpAssumption DEF Init, Promise!Init, Promise!Nothing, Directions
<1> QED BY <1>1, PromiseKept, Inductive, PTL DEF Spec, ImplementsTunnelPromise, Promise!Spec
=============================================================================
