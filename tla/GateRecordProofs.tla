--------------------------- MODULE GateRecordProofs ---------------------------
(***************************************************************************)
(* What the records of Gate say and how many there are, for every finite   *)
(* set of requests.                                                        *)
(***************************************************************************)
EXTENDS GateProofs

Records(r) == {i \in DOMAIN audit : audit[i].req = r}

(* A request has no record before its finish, and afterwards one record or *)
(* one reported failure.                                                   *)
OnceInv ==
  \A r \in Requests :
    /\ pc[r] \notin After => Records(r) = {} /\ r \notin unwritten
    /\ pc[r] \in After /\ r \in unwritten => Records(r) = {}
    /\ pc[r] \in After /\ r \notin unwritten => \E i \in DOMAIN audit : Records(r) = {i}

(* The handler steps other than Finish neither write nor cross the line    *)
(* between a request before its finish and one past it.                    *)
Writeless(r) ==
  /\ pc' = [pc EXCEPT ![r] = pc'[r]]
  /\ pc'[r] \in After <=> pc[r] \in After
  /\ UNCHANGED <<audit, unwritten, shutdownVars>>

HandlerMove(r) == Arrive(r) \/ HandlerStep(r) \/ PumpEnds(r) \/ CopyEnds(r)

LEMMA OnlyFinishWrites ==
  ASSUME TypeOK, NEW r \in Requests, HandlerMove(r), ~Finish(r)
  PROVE  Writeless(r)
<1>1. CASE GaugeInc(r) \/ GaugeDec(r) \/ RegisterTunnel(r) \/ RemoveTunnel(r) \/ ReleaseWait(r)
  BY <1>1 DEF TypeOK, GaugeInc, GaugeDec, RegisterTunnel, RemoveTunnel, ReleaseWait, Moves,
              Writeless, After
<1> USE DEF TypeOK, Settles, GoesOn, Moves, handlerVars, Writeless, After
<1>2. CASE Arrive(r) \/ JudgeRefused(r) \/ JudgeAllowed(r) \/ CheckClosing(r)
  BY <1>2 DEF Arrive, JudgeRefused, JudgeAllowed, CheckClosing
<1>3. CASE DialFails(r) \/ DialSucceeds(r) \/ HijackFails(r) \/ HijackSucceeds(r)
  BY <1>3 DEF DialFails, DialSucceeds, HijackFails, HijackSucceeds
<1>4. CASE GreetFails(r) \/ GreetSucceeds(r) \/ RegisterRefused(r) \/ PumpEnds(r)
  BY <1>4 DEF GreetFails, GreetSucceeds, RegisterRefused, PumpEnds
<1>5. CASE RoundTripFails(r) \/ RoundTripSucceeds(r) \/ WriteHeaderPanics(r) \/ CopyEnds(r)
  BY <1>5 DEF RoundTripFails, RoundTripSucceeds, WriteHeaderPanics, CopyEnds
<1> QED
  BY <1>1, <1>2, <1>3, <1>4, <1>5 DEF HandlerMove, HandlerStep

(* The goroutine of cmdServe writes no record and moves no handler.        *)
LEMMA OnlyHandlersWrite ==
  ASSUME StopSignal \/ ServerFails \/ MainStep \/ WaitExpires \/ Over \/ UNCHANGED vars
  PROVE  UNCHANGED <<pc, status, handlerVars>>
BY DEF StopSignal, ServerFails, MainStep, DrainDone, DrainExpires, BeginClosing, SeverLive,
       WaitDone, ReadHead, Exit, FailedExit, WaitExpires, MainMoves, Over, vars

LEMMA AppendedRecords ==
  ASSUME TypeOK, NEW e \in [req : Requests, status : Statuses], audit' = Append(audit, e),
         NEW r \in Requests
  PROVE  /\ DOMAIN audit' = DOMAIN audit \cup {Len(audit) + 1}
         /\ Len(audit) + 1 \notin DOMAIN audit
         /\ audit'[Len(audit) + 1] = e
         /\ \A i \in DOMAIN audit : audit'[i] = audit[i]
         /\ Records(r)' = IF e.req = r THEN Records(r) \cup {Len(audit) + 1} ELSE Records(r)
<1>1. audit \in Seq([req : Requests, status : Statuses])
  BY DEF TypeOK
<1>2. /\ Len(audit) \in Nat /\ DOMAIN audit = 1..Len(audit)
      /\ Len(audit') = Len(audit) + 1 /\ DOMAIN audit' = 1..Len(audit')
      /\ audit'[Len(audit) + 1] = e
      /\ \A i \in 1..Len(audit) : audit'[i] = audit[i]
  BY <1>1, AppendProperties, LenProperties
<1> QED BY <1>2 DEF Records

LEMMA OnceNext == TypeOK /\ OnceInv /\ [Next]_vars => OnceInv'
<1> SUFFICES ASSUME TypeOK, OnceInv, [Next]_vars PROVE OnceInv'
  OBVIOUS
<1>1. ASSUME NEW r \in Requests, Writeless(r)
      PROVE  OnceInv'
  BY <1>1 DEF Writeless, OnceInv, Records, TypeOK
<1>2. ASSUME NEW r \in Requests, Finish(r)
      PROVE  OnceInv'
  <2>1. /\ pc[r] \notin After /\ pc'[r] \in After
        /\ \A q \in Requests : q # r => pc'[q] = pc[q]
    BY <1>2 DEF Finish, AfterFinish, After, TypeOK
  <2>2. Records(r) = {} /\ r \notin unwritten
    BY <2>1 DEF OnceInv
  <2>3. CASE audit' = Append(audit, [req |-> r, status |-> status[r]]) /\ UNCHANGED unwritten
    <3>1. [req |-> r, status |-> status[r]] \in [req : Requests, status : Statuses]
      BY DEF TypeOK
    <3>2. /\ Records(r)' = {Len(audit) + 1} /\ Len(audit) + 1 \in DOMAIN audit'
          /\ \A q \in Requests : q # r => Records(q)' = Records(q)
          /\ DOMAIN audit \subseteq DOMAIN audit'
      BY <2>2, <2>3, <3>1, AppendedRecords
    <3> QED BY <2>1, <2>2, <2>3, <3>2 DEF OnceInv
  <2>4. CASE unwritten' = unwritten \cup {r} /\ UNCHANGED audit
    BY <2>1, <2>2, <2>4 DEF OnceInv, Records
  <2> QED BY <1>2, <2>3, <2>4 DEF Finish
<1>3. CASE UNCHANGED <<pc, status, handlerVars>>
  BY <1>3 DEF OnceInv, Records, handlerVars
<1> QED
  BY <1>1, <1>2, <1>3, OnlyFinishWrites, OnlyHandlersWrite DEF Next, HandlerMove

LEMMA OnceAlways == Spec => []OnceInv
<1>1. Init => OnceInv
  BY DEF Init, OnceInv, Records, After
<1> QED BY <1>1, OnceNext, GateTypeCorrect, PTL DEF Spec

(* For any number of requests: no path of a handler ends in finish twice,  *)
(* and one that goes on from it has ended there once (proxy.go:450).       *)
THEOREM OneRecordPerRequestAlways == Spec => []OneRecordPerRequest
<1>1. TypeOK /\ OnceInv => OneRecordPerRequest
  <2> SUFFICES ASSUME TypeOK, OnceInv, NEW r \in Requests
               PROVE  Ends(r) = IF pc[r] \in After THEN 1 ELSE 0
    BY DEF OneRecordPerRequest, After
  <2>1. Cardinality({}) = 0 /\ Cardinality({r}) = 1
        /\ \A i \in DOMAIN audit : Cardinality({i}) = 1
    BY FS_EmptySet, FS_Singleton
  <2>2. {r} \cap unwritten = IF r \in unwritten THEN {r} ELSE {}
    OBVIOUS
  <2>3. Ends(r) = Cardinality(Records(r)) + Cardinality({r} \cap unwritten)
    BY DEF Ends, Records
  <2> QED BY <2>1, <2>2, <2>3 DEF OnceInv
<1> QED BY <1>1, OnceAlways, GateTypeCorrect, PTL

-----------------------------------------------------------------------------
(* The status a CONNECT is about to be recorded with: 200 behind a tunnel, *)
(* another one before it, and 503 only when the gate was closing.  A       *)
(* CONNECT never takes the way of a plain request.                         *)
StatusInv ==
  \A r \in Connects :
    /\ pc[r] \notin {"roundTrip", "copy"}
    /\ pc[r] = "finishTunnel" => status[r] = 200
    /\ pc[r] \in {"finish", "finishRefused"} => status[r] # 200 /\ (status[r] = 503 => closing)

(* What a request may be recorded with where it is going.                  *)
Fits(r, to, s) ==
  r \in Connects =>
    /\ to \notin {"roundTrip", "copy"}
    /\ to = "finishTunnel" => s = 200
    /\ to \in {"finish", "finishRefused"} => s # 200 /\ (s = 503 => closing)

LEMMA StatusSettles ==
  ASSUME TypeOK, StatusInv, NEW r \in Requests, NEW from, NEW to, NEW s,
         Settles(r, from, to, s), Fits(r, to, s)
  PROVE  StatusInv'
<1>1. closing' = closing
  BY DEF Settles, shutdownVars
<1>2. ASSUME NEW q \in Connects
      PROVE  /\ q = r => pc'[q] = to /\ status'[q] = s
             /\ q # r => pc'[q] = pc[q] /\ status'[q] = status[q]
  BY DEF Settles, Moves, WithStatus, TypeOK, Requests
<1> QED BY <1>1, <1>2 DEF StatusInv, Fits

LEMMA StatusGoesOn ==
  ASSUME TypeOK, StatusInv, NEW r \in Requests, NEW from, NEW to,
         Moves(r, from, to), status' = status, closing' = closing,
         r \in Connects => to \notin {"roundTrip", "copy", "finishTunnel", "finish", "finishRefused"}
  PROVE  StatusInv'
<1>1. ASSUME NEW q \in Connects
      PROVE  /\ q = r => pc'[q] = to
             /\ q # r => pc'[q] = pc[q]
  BY DEF Moves, TypeOK, Requests
<1> QED BY <1>1 DEF StatusInv

LEMMA StatusNext ==
  ASSUME TypeOK, StatusInv, [Next]_vars
  PROVE  StatusInv'
<1>1. ASSUME NEW r \in Requests, HandlerMove(r)
      PROVE  StatusInv'
  <2>1. CASE JudgeRefused(r)
    <3>1. PICK s \in {400, 403} : Settles(r, "judge", "finish", s)
      BY <2>1 DEF JudgeRefused
    <3>2. Fits(r, "finish", s)
      BY DEF Fits
    <3> QED BY <3>1, <3>2, StatusSettles
  <2>2. CASE CheckClosing(r)
    <3>1. CASE closing /\ Settles(r, "check", "finish", 503)
      <4>1. Fits(r, "finish", 503)
        BY <3>1 DEF Fits
      <4> QED BY <3>1, <4>1, StatusSettles
    <3>2. CASE GoesOn(r, "check", "dial")
      BY <3>2, StatusGoesOn DEF GoesOn, shutdownVars
    <3> QED BY <2>2, <3>1, <3>2 DEF CheckClosing
  <2>3. CASE DialFails(r) \/ HijackFails(r) \/ GreetFails(r)
    <3>1. Fits(r, "finish", 502) /\ Fits(r, "finish", 500) /\ Fits(r, "finishRefused", 502)
      BY DEF Fits
    <3> QED BY <2>3, <3>1, StatusSettles DEF DialFails, HijackFails, GreetFails
  <2>4. CASE RegisterRefused(r)
    <3>1. Fits(r, "finishRefused", 503) /\ Settles(r, "register", "finishRefused", 503)
      BY <2>4 DEF Fits, RegisterRefused
    <3> QED BY <3>1, StatusSettles
  <2>5. CASE PumpEnds(r)
    <3>1. Fits(r, "finishTunnel", 200)
      BY DEF Fits
    <3> QED BY <2>5, <3>1, StatusSettles DEF PumpEnds
  <2>6. CASE RoundTripFails(r) \/ CopyEnds(r)
    <3>1. r \notin Connects
      BY <2>6 DEF RoundTripFails, CopyEnds, Settles, Moves, StatusInv
    <3>2. Fits(r, "finish", 502) /\ Fits(r, "finish", 200)
      BY <3>1 DEF Fits
    <3> QED BY <2>6, <3>2, StatusSettles DEF RoundTripFails, CopyEnds
  <2>7. CASE JudgeAllowed(r)
    <3>1. Moves(r, "judge", IF r \in Connects THEN "check" ELSE "roundTrip")
          /\ status' = status /\ closing' = closing
      BY <2>7 DEF JudgeAllowed, GoesOn, shutdownVars
    <3> QED BY <3>1, StatusGoesOn
  <2>8. CASE RoundTripSucceeds(r)
    <3>1. r \notin Connects
      BY <2>8 DEF RoundTripSucceeds, GoesOn, Moves, StatusInv
    <3> QED BY <2>8, <3>1, StatusGoesOn DEF RoundTripSucceeds, GoesOn, shutdownVars
  <2>9. CASE \/ Arrive(r) \/ DialSucceeds(r) \/ HijackSucceeds(r) \/ GreetSucceeds(r)
             \/ WriteHeaderPanics(r)
    BY <2>9, StatusGoesOn
    DEF Arrive, DialSucceeds, HijackSucceeds, GreetSucceeds, WriteHeaderPanics, GoesOn,
        shutdownVars
  <2>10. CASE \/ RegisterTunnel(r) \/ GaugeInc(r) \/ GaugeDec(r) \/ RemoveTunnel(r)
              \/ ReleaseWait(r)
    BY <2>10, StatusGoesOn
    DEF RegisterTunnel, GaugeInc, GaugeDec, RemoveTunnel, ReleaseWait, shutdownVars
  <2>11. CASE Finish(r)
    <3>1. Moves(r, pc[r], AfterFinish(pc[r])) /\ status' = status /\ closing' = closing
      BY <2>11 DEF Finish, Moves, shutdownVars
    <3> QED BY <3>1, StatusGoesOn DEF AfterFinish
  <2> QED
    BY <1>1, <2>1, <2>2, <2>3, <2>4, <2>5, <2>6, <2>7, <2>8, <2>9, <2>10, <2>11
    DEF HandlerMove, HandlerStep
<1>2. CASE StopSignal \/ ServerFails \/ MainStep \/ WaitExpires \/ Over \/ UNCHANGED vars
  <2>1. UNCHANGED <<pc, status>> /\ (closing => closing')
    BY <1>2 DEF StopSignal, ServerFails, MainStep, DrainDone, DrainExpires, BeginClosing,
                SeverLive, WaitDone, ReadHead, Exit, FailedExit, WaitExpires, MainMoves, Over,
                vars, shutdownVars
  <2> QED BY <2>1 DEF StatusInv
<1> QED BY <1>1, <1>2 DEF Next, HandlerMove

LEMMA StatusAlways == Spec => []StatusInv
<1>1. Init => StatusInv
  BY DEF Init, StatusInv, Requests
<1>2. TypeOK /\ StatusInv /\ [Next]_vars => StatusInv'
  BY StatusNext
<1> QED BY <1>1, <1>2, GateTypeCorrect, PTL DEF Spec

LEMMA TruthNext ==
  ASSUME IInv, OnceInv, StatusInv, RecordIsTruthful, [Next]_vars
  PROVE  RecordIsTruthful'
<1> USE DEF IInv
<1>1. ASSUME NEW r \in Requests, Finish(r)
      PROVE  RecordIsTruthful'
  <2>1. started' = started /\ closing' = closing
    BY <1>1 DEF Finish, shutdownVars
  <2>2. CASE audit' = Append(audit, [req |-> r, status |-> status[r]])
    <3>1. [req |-> r, status |-> status[r]] \in [req : Requests, status : Statuses]
      BY DEF TypeOK
    <3>2. r \in Connects =>
            /\ status[r] = 200 <=> r \in started
            /\ status[r] = 503 => closing
      <4>1. CASE pc[r] = "finishTunnel"
        BY <4>1 DEF Started, StatusInv, Counted
      <4>2. CASE pc[r] \in {"finish", "finishRefused"}
        BY <4>2 DEF Started, StatusInv, Counted
      <4> QED BY <1>1, <4>1, <4>2 DEF Finish
    <3> QED BY <2>1, <2>2, <3>1, <3>2, AppendedRecords DEF RecordIsTruthful
  <2>3. CASE UNCHANGED audit
    BY <2>1, <2>3 DEF RecordIsTruthful
  <2> QED BY <1>1, <2>2, <2>3 DEF Finish
<1>2. ASSUME NEW r \in Requests, HandlerMove(r), ~Finish(r)
      PROVE  RecordIsTruthful'
  <2>1. UNCHANGED <<audit, closing>>
    BY <1>2, OnlyFinishWrites DEF Writeless, shutdownVars
  <2>2. CASE RegisterTunnel(r)
    <3>1. Records(r) = {} /\ started' = started \cup {r}
      BY <2>2 DEF OnceInv, RegisterTunnel, Moves, After
    <3> QED BY <2>1, <3>1 DEF RecordIsTruthful, Records
  <2>3. CASE ~RegisterTunnel(r)
    <3>1. started' = started
      BY <1>2, <2>3
      DEF HandlerMove, HandlerStep, Arrive, JudgeRefused, JudgeAllowed, CheckClosing,
          DialFails, DialSucceeds, HijackFails, HijackSucceeds, GreetFails, GreetSucceeds,
          RegisterRefused, GaugeInc, GaugeDec, RemoveTunnel, ReleaseWait, PumpEnds,
          RoundTripFails, RoundTripSucceeds, WriteHeaderPanics, CopyEnds, Settles, GoesOn,
          handlerVars
    <3> QED BY <2>1, <3>1 DEF RecordIsTruthful
  <2> QED BY <2>2, <2>3
<1>3. CASE StopSignal \/ ServerFails \/ MainStep \/ WaitExpires \/ Over \/ UNCHANGED vars
  <2>1. closing => closing'
    BY <1>3 DEF StopSignal, ServerFails, MainStep, DrainDone, DrainExpires, BeginClosing,
                SeverLive, WaitDone, ReadHead, Exit, FailedExit, WaitExpires, MainMoves, Over,
                vars, shutdownVars
  <2> QED BY <1>3, <2>1, OnlyHandlersWrite DEF RecordIsTruthful, handlerVars
<1> QED BY <1>1, <1>2, <1>3 DEF Next, HandlerMove

(* A CONNECT's record says 200 exactly for a tunnel that was registered,   *)
(* and 503 only when the gate was closing (connect.go:87-91, 139-157).     *)
THEOREM RecordIsTruthfulAlways == Spec => []RecordIsTruthful
<1>1. Init => RecordIsTruthful
  BY DEF Init, RecordIsTruthful
<1>2. IInv /\ OnceInv /\ StatusInv /\ RecordIsTruthful /\ [Next]_vars => RecordIsTruthful'
  BY TruthNext
<1> QED BY <1>1, <1>2, IInvAlways, OnceAlways, StatusAlways, PTL DEF Spec

-----------------------------------------------------------------------------
Open == {"pump", "finishTunnel", "uncount"}

LEMMA GaugeNext ==
  ASSUME TypeOK, GaugeCoversOpenTunnels, [Next]_vars
  PROVE  GaugeCoversOpenTunnels'
<1>0. /\ pc \in [Requests -> Pcs]
      /\ gauge = Cardinality(In(Open)) /\ gauge \in Int
  BY PcFunction DEF GaugeCoversOpenTunnels, In, Open, TypeOK
<1> SUFFICES gauge' = Cardinality(In(Open)')
  BY DEF GaugeCoversOpenTunnels, In, Open
<1>1. ASSUME NEW r \in Requests, GaugeInc(r)
      PROVE  gauge' = Cardinality(In(Open)')
  <2>1. /\ pc' = [pc EXCEPT ![r] = "pump"] /\ pc[r] \notin Open /\ "pump" \in Open \cap Pcs
        /\ gauge' = gauge + 1
    BY <1>1 DEF GaugeInc, Moves, Open, Pcs, Counted
  <2> QED BY <1>0, <2>1, Enters
<1>2. ASSUME NEW r \in Requests, GaugeDec(r)
      PROVE  gauge' = Cardinality(In(Open)')
  <2>1. /\ pc' = [pc EXCEPT ![r] = "remove"] /\ pc[r] \in Open /\ "remove" \in Pcs \ Open
        /\ gauge' = gauge - 1
    BY <1>2 DEF GaugeDec, Moves, Open, Pcs, Counted
  <2> QED BY <1>0, <2>1, Leaves
<1>3. ASSUME NEW r \in Requests, HandlerMove(r), ~GaugeInc(r), ~GaugeDec(r)
      PROVE  gauge' = Cardinality(In(Open)')
  <2>1. gauge' = gauge /\ \E to : pc' = [pc EXCEPT ![r] = to] /\ (pc[r] \in Open <=> to \in Open)
    <3> USE DEF Settles, GoesOn, Moves, handlerVars, Open
    <3>1. CASE Arrive(r) \/ JudgeRefused(r) \/ JudgeAllowed(r) \/ CheckClosing(r)
      BY <3>1 DEF Arrive, JudgeRefused, JudgeAllowed, CheckClosing
    <3>2. CASE DialFails(r) \/ DialSucceeds(r) \/ HijackFails(r) \/ HijackSucceeds(r)
      BY <3>2 DEF DialFails, DialSucceeds, HijackFails, HijackSucceeds
    <3>3. CASE GreetFails(r) \/ GreetSucceeds(r) \/ RegisterTunnel(r) \/ RegisterRefused(r)
      BY <3>3 DEF GreetFails, GreetSucceeds, RegisterTunnel, RegisterRefused
    <3>4. CASE RemoveTunnel(r) \/ ReleaseWait(r) \/ PumpEnds(r)
      BY <3>4 DEF RemoveTunnel, ReleaseWait, PumpEnds
    <3>5. CASE RoundTripFails(r) \/ RoundTripSucceeds(r) \/ WriteHeaderPanics(r) \/ CopyEnds(r)
      BY <3>5 DEF RoundTripFails, RoundTripSucceeds, WriteHeaderPanics, CopyEnds
    <3>6. CASE Finish(r)
      <4>1. gauge' = gauge /\ pc' = [pc EXCEPT ![r] = AfterFinish(pc[r])]
        BY <3>6 DEF Finish
      <4>2. pc[r] \in Open <=> AfterFinish(pc[r]) \in Open
        BY <3>6 DEF Finish, AfterFinish
      <4> QED BY <4>1, <4>2
    <3> QED
      BY <1>3, <3>1, <3>2, <3>3, <3>4, <3>5, <3>6 DEF HandlerMove, HandlerStep
  <2>2. In(Open)' = In(Open)
    BY <1>0, <2>1 DEF In
  <2> QED BY <1>0, <2>1, <2>2
<1>4. CASE UNCHANGED <<pc, status, handlerVars>>
  BY <1>0, <1>4 DEF In, handlerVars
<1> QED
  BY <1>1, <1>2, <1>3, <1>4, OnlyHandlersWrite DEF Next, HandlerMove

(* egressgate_active_tunnels counts the tunnels that are open or being     *)
(* recorded (connect.go:147-148).                                          *)
THEOREM GaugeCoversOpenTunnelsAlways == Spec => []GaugeCoversOpenTunnels
<1>1. Init => GaugeCoversOpenTunnels
  <2>1. ASSUME Init PROVE {r \in Requests : pc[r] \in {"pump", "finishTunnel", "uncount"}} = {}
    BY <2>1 DEF Init
  <2> QED BY <2>1, FS_EmptySet DEF Init, GaugeCoversOpenTunnels
<1>2. TypeOK /\ GaugeCoversOpenTunnels /\ [Next]_vars => GaugeCoversOpenTunnels'
  BY GaugeNext
<1> QED BY <1>1, <1>2, GateTypeCorrect, PTL DEF Spec

-----------------------------------------------------------------------------
(* When http.Server.Shutdown returned without an error no connection of    *)
(* the server's was left, and none comes back: a handler leaves the        *)
(* server's care for good, and nothing arrives behind a closed listener.   *)
DrainInv ==
  main \in Closed \cup {"drained"} /\ ~drainExpired => \A r \in Requests : pc[r] \notin Served

LEMMA DrainNext ==
  ASSUME TypeOK, DrainInv, [Next]_vars
  PROVE  DrainInv'
<1> DEFINE Quiet == main \in Closed \cup {"drained"} /\ ~drainExpired
<1>1. ASSUME NEW r \in Requests, HandlerMove(r)
      PROVE  DrainInv'
  <2>1. main' = main /\ drainExpired' = drainExpired
    BY <1>1, OnlyFinishWrites DEF Finish, Writeless, shutdownVars
  <2>2. SUFFICES ASSUME Quiet PROVE \A q \in Requests : pc'[q] \notin Served
    BY <2>1 DEF DrainInv
  <2>3. \A q \in Requests : pc[q] \notin Served
    BY <2>2 DEF DrainInv
  <2>4. ~Arrive(r)
    BY <2>2 DEF Arrive, Closed
  <2>5. \E to : pc' = [pc EXCEPT ![r] = to] /\ to \notin Served
    <3> USE <2>3 DEF Settles, GoesOn, Moves, Served
    <3>1. CASE JudgeRefused(r) \/ JudgeAllowed(r) \/ CheckClosing(r)
      BY <3>1 DEF JudgeRefused, JudgeAllowed, CheckClosing
    <3>2. CASE DialFails(r) \/ DialSucceeds(r) \/ HijackFails(r) \/ HijackSucceeds(r)
      BY <3>2 DEF DialFails, DialSucceeds, HijackFails, HijackSucceeds
    <3>3. CASE GreetFails(r) \/ GreetSucceeds(r) \/ RegisterTunnel(r) \/ RegisterRefused(r)
      BY <3>3 DEF GreetFails, GreetSucceeds, RegisterTunnel, RegisterRefused
    <3>4. CASE GaugeInc(r) \/ GaugeDec(r) \/ RemoveTunnel(r) \/ ReleaseWait(r) \/ PumpEnds(r)
      BY <3>4 DEF GaugeInc, GaugeDec, RemoveTunnel, ReleaseWait, PumpEnds
    <3>5. CASE RoundTripFails(r) \/ RoundTripSucceeds(r) \/ WriteHeaderPanics(r) \/ CopyEnds(r)
      BY <3>5 DEF RoundTripFails, RoundTripSucceeds, WriteHeaderPanics, CopyEnds
    <3>6. CASE Finish(r)
      <4> DEFINE to == AfterFinish(pc[r])
      <4>1. pc' = [pc EXCEPT ![r] = to]
        BY <3>6 DEF Finish
      <4>2. to \notin Served
        BY <3>6 DEF Finish, AfterFinish
      <4> QED BY <4>1, <4>2
    <3> QED BY <1>1, <2>4, <3>1, <3>2, <3>3, <3>4, <3>5, <3>6 DEF HandlerMove, HandlerStep
  <2> QED BY <2>3, <2>5 DEF TypeOK
<1>2. CASE StopSignal \/ ServerFails \/ MainStep \/ WaitExpires \/ Over \/ UNCHANGED vars
  <2>1. pc' = pc
    BY <1>2, OnlyHandlersWrite
  <2>2. Quiet' => Quiet \/ Drained
    BY <1>2 DEF StopSignal, ServerFails, MainStep, DrainDone, DrainExpires, BeginClosing,
                SeverLive, WaitDone, ReadHead, Exit, FailedExit, WaitExpires, MainMoves, Over,
                vars, shutdownVars, Closed
  <2> QED BY <2>1, <2>2 DEF DrainInv, Drained
<1> QED BY <1>1, <1>2 DEF Next, HandlerMove

LEMMA DrainAlways == Spec => []DrainInv
<1>1. Init => DrainInv
  BY DEF Init, DrainInv, Closed
<1>2. TypeOK /\ DrainInv /\ [Next]_vars => DrainInv'
  BY DrainNext
<1> QED BY <1>1, <1>2, GateTypeCorrect, PTL DEF Spec

(* The head printed at exit covers every request the two Shutdowns wait    *)
(* for (run.go:269-281): all that arrived, but for a CONNECT between its   *)
(* hijack and its registration and a handler that panicked.                *)
THEOREM HeadCoversAllButWindowAlways == Spec => HeadCoversAllButWindow
<1>1. ASSUME IInv, OnceInv, DrainInv, [Next]_vars,
             main = "reading", main' = "exiting", ~drainExpired, ~waitExpired,
             NEW r \in Requests, pc[r] \notin {"idle", "aborted"} \cup Window
      PROVE  Recorded(r, head')
  <2>1. head' = Len(audit) /\ UNCHANGED <<audit, unwritten>>
    <3>1. ~\E q \in Requests : HandlerMove(q)
      BY <1>1, OnlyFinishWrites DEF Finish, Writeless, shutdownVars, IInv
    <3>2. ReadHead
      BY <1>1, <3>1 DEF Next, HandlerMove, StopSignal, ServerFails, MainStep, DrainDone,
             DrainExpires, BeginClosing, SeverLive, WaitDone, ReadHead, Exit, FailedExit,
             WaitExpires, MainMoves, Over, vars, shutdownVars
    <3> QED BY <3>2 DEF ReadHead, MainMoves, handlerVars
  <2>2. pc[r] \in Counted \cup After
    <3>1. pc[r] \notin Served
      BY <1>1 DEF DrainInv, Closed
    <3> QED BY <1>1, <3>1, PcFunction DEF IInv, Pcs, After
  <2>3. CASE pc[r] \in Counted
    BY <1>1, <2>1, <2>3 DEF IInv, Started, Stages
  <2>4. CASE pc[r] \in After
    <3>1. r \in unwritten \/ \E i \in DOMAIN audit : Records(r) = {i}
      BY <1>1, <2>4 DEF OnceInv
    <3>2. DOMAIN audit = 1..Len(audit)
      BY <1>1, LenProperties DEF IInv, TypeOK
    <3>3. \A i \in DOMAIN audit : Records(r) = {i} => audit[i].req = r
      BY DEF Records
    <3> QED BY <2>1, <3>1, <3>2, <3>3 DEF Recorded
  <2> QED BY <2>2, <2>3, <2>4
<1>2. IInv /\ OnceInv /\ DrainInv /\ [Next]_vars
        => (main = "reading" /\ main' = "exiting" /\ ~drainExpired /\ ~waitExpired
             => \A r \in Requests : pc[r] \notin {"idle", "aborted"} \cup Window
                                      => Recorded(r, head'))
  BY <1>1
<1> QED
  BY <1>2, IInvAlways, OnceAlways, DrainAlways, PTL DEF Spec, HeadCoversAllButWindow

-----------------------------------------------------------------------------

(* A handler that moves changes the stage of its request and no other, and *)
(* only while the process runs.                                            *)
LEMMA Becoming ==
  ASSUME TypeOK, NEW r \in Requests, NEW to, Running,
         pc' = [pc EXCEPT ![r] = to], UNCHANGED shutdownVars
  PROVE  Promise!Becomes(r, StageOf(pc[r]), StageOf(to))
<1> DEFINE stage == [q \in Requests |-> StageOf(pc[q])]
<1>1. stage' = [stage EXCEPT ![r] = StageOf(to)] /\ stage[r] = StageOf(pc[r])
  <2>1. \A q \in Requests : pc'[q] = IF q = r THEN to ELSE pc[q]
    BY DEF TypeOK
  <2>2. \A q \in Requests : StageOf(pc'[q]) = IF q = r THEN StageOf(to) ELSE StageOf(pc[q])
    BY <2>1
  <2> QED BY <2>2
<1>2. PhaseOf(main) # "gone"
  BY DEF Running, PhaseOf
<1>3. UNCHANGED <<PhaseOf(main), waitExpired, stranded, head>>
  BY DEF shutdownVars
<1> QED BY <1>1, <1>2, <1>3, Zenon DEF Promise!Becomes

(* Where the handlers are when a request comes in, opens a tunnel, leaves  *)
(* or is aborted, and between which points its stage stays what it is.     *)
LEMMA StagesOfPoints ==
  /\ StageOf("idle") = "absent" /\ StageOf("judge") = "inside"
  /\ StageOf("register") = "inside" /\ StageOf("count") = "tunnel"
  /\ StageOf("roundTrip") = "inside" /\ StageOf("aborted") = "aborted"
  /\ StageOf("finish") = "inside" /\ StageOf("finishRefused") = "inside"
  /\ StageOf("finishTunnel") = "tunnel"
  /\ \A p \in After : StageOf(p) = "left"
BY DEF StageOf, Served, Window, After

(* A step that leaves the stages, the log and the shutdown alone.          *)
LEMMA Standing ==
  ASSUME TypeOK, NEW r \in Requests, NEW to, pc' = [pc EXCEPT ![r] = to],
         StageOf(to) = StageOf(pc[r]), UNCHANGED <<audit, unwritten, shutdownVars>>
  PROVE  UNCHANGED Promise!vars
<1>1. \A q \in Requests : pc'[q] = IF q = r THEN to ELSE pc[q]
  BY DEF TypeOK
<1>2. \A q \in Requests : StageOf(pc'[q]) = StageOf(pc[q])
  BY <1>1
<1>3. [q \in Requests |-> StageOf(pc[q])]' = [q \in Requests |-> StageOf(pc[q])]
  BY <1>2
<1> QED BY <1>3 DEF Promise!vars, shutdownVars

LEMMA HandlersKeepThePromise ==
  ASSUME IInv, OnceInv, StatusInv, NEW r \in Requests, HandlerMove(r)
  PROVE  [Promise!Next]_(Promise!vars)
<1> SUFFICES \/ Promise!ComeIn(r) \/ Promise!OpenTunnel(r) \/ Promise!Leave(r) \/ Promise!Abort(r)
             \/ UNCHANGED Promise!vars
  BY DEF Promise!Next, Promise!Requests, Requests
<1>t. TypeOK
  BY DEF IInv
<1>1. CASE Arrive(r)
  <2>1. Running /\ pc[r] = "idle" /\ pc' = [pc EXCEPT ![r] = "judge"]
        /\ UNCHANGED <<audit, unwritten>> /\ UNCHANGED shutdownVars
    BY <1>1 DEF Arrive, GoesOn, Moves, handlerVars
  <2> QED BY <1>t, <2>1, Becoming, StagesOfPoints DEF Promise!ComeIn
<1>2. CASE RegisterTunnel(r)
  <2>1. Running /\ pc[r] = "register" /\ pc' = [pc EXCEPT ![r] = "count"]
        /\ UNCHANGED <<audit, unwritten>> /\ UNCHANGED shutdownVars /\ ~closing
    BY <1>2 DEF RegisterTunnel, Moves
  <2>2. r \in Connects
    BY <2>1 DEF IInv, Kinds, TunnelPcs, Window
  <2>3. PhaseOf(main) = "open"
    BY <2>1 DEF IInv, Stages, Closed, Running, PhaseOf
  <2> QED BY <1>t, <2>1, <2>2, <2>3, Becoming, StagesOfPoints DEF Promise!OpenTunnel
<1>3. CASE WriteHeaderPanics(r)
  <2>1. Running /\ pc[r] = "roundTrip" /\ pc' = [pc EXCEPT ![r] = "aborted"]
        /\ UNCHANGED <<audit, unwritten>> /\ UNCHANGED shutdownVars
    BY <1>3 DEF WriteHeaderPanics, GoesOn, Moves, handlerVars
  <2>2. r \in Https
    BY <2>1 DEF StatusInv, Requests
  <2> QED BY <1>t, <2>1, <2>2, Becoming, StagesOfPoints DEF Promise!Abort
<1>4. CASE Finish(r)
  <2>1. Running /\ pc[r] \in {"finish", "finishRefused", "finishTunnel"}
        /\ pc' = [pc EXCEPT ![r] = AfterFinish(pc[r])] /\ UNCHANGED shutdownVars
    BY <1>4 DEF Finish
  <2>2. StageOf(pc[r]) \in {"inside", "tunnel"} /\ StageOf(AfterFinish(pc[r])) = "left"
    BY <2>1, StagesOfPoints DEF AfterFinish, After
  <2>3. \E from \in {"inside", "tunnel"} : Promise!Becomes(r, from, "left")
    BY <1>t, <2>1, <2>2, Becoming
  <2>4. status[r] \in Statuses /\ Promise!Truth(r, status[r])
    <3>1. status[r] \in Statuses
      BY <1>t DEF TypeOK
    <3>2. [q \in Requests |-> StageOf(pc[q])][r] = StageOf(pc[r])
      OBVIOUS
    <3>3. r \in Connects => (status[r] = 200 <=> StageOf(pc[r]) = "tunnel")
      BY <2>1, StagesOfPoints DEF StatusInv
    <3>4. r \in Connects /\ status[r] = 503 => PhaseOf(main) # "open"
      BY <2>1 DEF StatusInv, IInv, Stages, Closed, PhaseOf
    <3> QED BY <3>1, <3>2, <3>3, <3>4 DEF Promise!Truth
  <2>5. \/ audit' = Append(audit, [req |-> r, status |-> status[r]]) /\ UNCHANGED unwritten
        \/ unwritten' = unwritten \cup {r} /\ UNCHANGED audit
    BY <1>4 DEF Finish
  <2> QED BY <2>3, <2>4, <2>5 DEF Promise!Leave
<1>5. CASE GaugeDec(r) \/ RemoveTunnel(r) \/ ReleaseWait(r)
  BY <1>5, <1>t, StagesOfPoints, Standing
  DEF GaugeDec, RemoveTunnel, ReleaseWait, Moves, After
<1>6. CASE GaugeInc(r) \/ PumpEnds(r)
  <2>1. StageOf("count") = StageOf("pump") /\ StageOf("pump") = StageOf("finishTunnel")
    BY DEF StageOf, Served, Window
  <2> QED BY <1>6, <1>t, <2>1, Standing DEF GaugeInc, PumpEnds, Settles, Moves, handlerVars
<1>7. CASE \/ JudgeRefused(r) \/ JudgeAllowed(r) \/ CheckClosing(r)
           \/ DialFails(r) \/ DialSucceeds(r) \/ HijackFails(r) \/ HijackSucceeds(r)
           \/ GreetFails(r) \/ GreetSucceeds(r) \/ RegisterRefused(r)
           \/ RoundTripFails(r) \/ RoundTripSucceeds(r) \/ CopyEnds(r)
  <2>1. \E to \in Served \cup Window :
          /\ pc[r] \in Served \cup Window /\ pc' = [pc EXCEPT ![r] = to]
          /\ UNCHANGED <<audit, unwritten, shutdownVars>>
    <3> USE DEF Settles, GoesOn, Moves, handlerVars, Served, Window
    <3>1. CASE JudgeRefused(r) \/ JudgeAllowed(r) \/ CheckClosing(r)
      BY <3>1 DEF JudgeRefused, JudgeAllowed, CheckClosing
    <3>2. CASE DialFails(r) \/ DialSucceeds(r) \/ HijackFails(r) \/ HijackSucceeds(r)
      BY <3>2 DEF DialFails, DialSucceeds, HijackFails, HijackSucceeds
    <3>3. CASE GreetFails(r) \/ GreetSucceeds(r) \/ RegisterRefused(r)
      BY <3>3 DEF GreetFails, GreetSucceeds, RegisterRefused
    <3>4. CASE RoundTripFails(r) \/ RoundTripSucceeds(r) \/ CopyEnds(r)
      BY <3>4 DEF RoundTripFails, RoundTripSucceeds, CopyEnds
    <3> QED BY <1>7, <3>1, <3>2, <3>3, <3>4
  <2>2. \A p \in Served \cup Window : StageOf(p) = "inside"
    BY DEF StageOf, Served, Window
  <2> QED BY <1>t, <2>1, <2>2, Standing
<1> QED
  BY <1>1, <1>2, <1>3, <1>4, <1>5, <1>6, <1>7 DEF HandlerMove, HandlerStep

(* The tunnels of the promise are handlers the map still holds.            *)
LEMMA TunnelsAreRegistered ==
  ASSUME IInv
  PROVE  /\ \A r \in Requests : StageOf(pc[r]) = "tunnel"
                                  => pc[r] \in Registered /\ pc[r] \notin After /\ r \in started
         /\ Promise!Tunnels \subseteq tunnels
         /\ IsFiniteSet(tunnels)
<1>1. ASSUME NEW r \in Requests, StageOf(pc[r]) = "tunnel"
      PROVE  pc[r] \in {"count", "pump", "finishTunnel"}
  BY <1>1, PcFunction DEF StageOf, IInv, Pcs, Served, Window, Counted
<1>2. ASSUME NEW r \in Requests, pc[r] \in {"count", "pump", "finishTunnel"}
      PROVE  pc[r] \in Registered /\ pc[r] \notin After /\ r \in started
  BY <1>2 DEF IInv, Started, Registered, Counted, After
<1>3. tunnels = In(Registered) /\ IsFiniteSet(tunnels)
  BY InFinite DEF IInv, Books
<1>4. Promise!Tunnels = {r \in Requests : StageOf(pc[r]) = "tunnel"}
  BY DEF Promise!Tunnels, Promise!Requests, Requests
<1> QED BY <1>1, <1>2, <1>3, <1>4 DEF In

LEMMA MainKeepsThePromise ==
  ASSUME IInv, OnceInv,
         StopSignal \/ ServerFails \/ MainStep \/ WaitExpires \/ Over \/ UNCHANGED vars
  PROVE  [Promise!Next]_(Promise!vars)
<1>1. UNCHANGED <<pc, audit, unwritten>>
  BY OnlyHandlersWrite DEF handlerVars
<1>2. UNCHANGED <<[r \in Requests |-> StageOf(pc[r])], audit, unwritten>>
  BY <1>1
<1>3. CASE BeginClosing
  <2>1. PhaseOf(main) = "open" /\ PhaseOf(main)' = "closing"
        /\ UNCHANGED <<waitExpired, stranded, head>>
    BY <1>3 DEF BeginClosing, MainMoves, PhaseOf
  <2> QED BY <1>2, <2>1 DEF Promise!Next, Promise!Close, Promise!Passes
<1>4. CASE WaitExpires
  <2>1. PhaseOf(main) = "closing" /\ PhaseOf(main)' = "closing"
        /\ waitExpired' = TRUE /\ stranded' = Cardinality(tunnels) /\ head' = head
    BY <1>4 DEF WaitExpires, MainMoves, PhaseOf
  <2>2. Cardinality(Promise!Tunnels) <= Cardinality(tunnels)
        /\ Cardinality(tunnels) \in Nat /\ Cardinality(Promise!Tunnels) \in Nat
    BY TunnelsAreRegistered, FS_Subset, FS_CardinalityType
  <2>3. stranded' \in Nat /\ stranded' >= Cardinality(Promise!Tunnels)
    BY <2>1, <2>2
  <2>4. Promise!Passes("closing", "closing")
    BY <1>2, <2>1 DEF Promise!Passes
  <2>5. Promise!Cardinality(Promise!Tunnels) = Cardinality(Promise!Tunnels)
    BY Zenon DEF Promise!Cardinality, Cardinality
  <2>6. Promise!GiveUp
    BY <2>1, <2>3, <2>4, <2>5 DEF Promise!GiveUp
  <2> QED BY <2>6, Zenon DEF Promise!Next
<1>5. CASE ReadHead
  <2>1. main = "reading" /\ PhaseOf(main) = "closing" /\ PhaseOf(main)' = "signed"
        /\ head' = Len(audit) /\ UNCHANGED <<waitExpired, stranded>>
    BY <1>5 DEF ReadHead, MainMoves, PhaseOf
  <2>2. waitExpired \/ Promise!Tunnels = {}
    <3>1. SUFFICES ASSUME ~waitExpired, NEW r \in Requests, StageOf(pc[r]) = "tunnel"
                   PROVE  FALSE
      BY DEF Promise!Tunnels, Promise!Requests, Requests
    <3>2. pc[r] \notin After /\ r \in started
      BY <3>1, TunnelsAreRegistered
    <3>3. Recorded(r, Len(audit))
      BY <2>1, <3>1, <3>2 DEF IInv, Stages
    <3>4. r \notin unwritten /\ Records(r) = {}
      BY <3>2 DEF OnceInv
    <3>5. DOMAIN audit = 1..Len(audit)
      BY LenProperties DEF IInv, TypeOK
    <3> QED BY <3>3, <3>4, <3>5 DEF Recorded, Records
  <2> QED BY <1>2, <2>1, <2>2, Zenon DEF Promise!Next, Promise!Sign, Promise!Passes
<1>6. CASE Exit \/ FailedExit
  <2>1. PhaseOf(main) \in {"signed", "open"} /\ PhaseOf(main)' = "gone"
        /\ UNCHANGED <<waitExpired, stranded, head>>
    BY <1>6 DEF Exit, FailedExit, MainMoves, PhaseOf
  <2> QED BY <1>2, <2>1 DEF Promise!Next, Promise!Go, Promise!Passes
<1>7. CASE StopSignal \/ ServerFails \/ DrainDone \/ DrainExpires \/ SeverLive \/ WaitDone
  <2>1. PhaseOf(main)' = PhaseOf(main) /\ UNCHANGED <<waitExpired, stranded, head>>
    BY <1>7 DEF StopSignal, ServerFails, DrainDone, DrainExpires, SeverLive, WaitDone,
                MainMoves, PhaseOf
  <2> QED BY <1>2, <2>1 DEF Promise!vars
<1>8. CASE Over \/ UNCHANGED vars
  BY <1>2, <1>8 DEF Over, vars, shutdownVars, Promise!vars
<1> QED
  BY <1>3, <1>4, <1>5, <1>6, <1>7, <1>8 DEF MainStep

(* What the README promises of the log while a gate serves and stops       *)
(* (README.md:178-192) holds of every interleaving of its handlers with    *)
(* its shutdown (proxy.go:208-278, connect.go:41-158).                     *)
THEOREM GateKeepsItsPromise == Spec => ImplementsGatePromise
<1>1. Init => Promise!Init
  <2> SUFFICES ASSUME Init PROVE Promise!Init
    OBVIOUS
  <2>1. [r \in Requests |-> StageOf(pc[r])] = [r \in Promise!Requests |-> "absent"]
    BY StagesOfPoints DEF Init, Promise!Requests, Requests
  <2>2. PhaseOf(main) = "open"
    BY DEF Init, PhaseOf
  <2> QED BY <2>1, <2>2, Zenon DEF Init, Promise!Init
<1>2. IInv /\ OnceInv /\ StatusInv /\ [Next]_vars => [Promise!Next]_(Promise!vars)
  BY HandlersKeepThePromise, MainKeepsThePromise DEF Next, HandlerMove
<1> QED
  BY <1>1, <1>2, IInvAlways, OnceAlways, StatusAlways, PTL
  DEF Spec, ImplementsGatePromise, Promise!Spec

=============================================================================
