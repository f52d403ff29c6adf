----------------------------- MODULE TrafficProofs -----------------------------
(***************************************************************************)
(* Proofs about one plain exchange, for request and response bodies of any *)
(* length, and about a request that ServeHTTP sends one way or the other:  *)
(* whatever holds of a tunnel or of an exchange alone holds of it.         *)
(***************************************************************************)
EXTENDS Traffic, TunnelPumpProofs

(* Units are read from the body, added to the count and written to the     *)
(* wire in this order, so each of the three is ahead of the next.          *)
OrderInv ==
  /\ counted + left + (IF sender = "add" THEN 1 ELSE 0) <= Body
  /\ wire + (IF sender = "write" THEN 1 ELSE 0) <= counted

(* The upstream answers once, and a record with its status follows that.   *)
AnswerInv ==
  /\ answer = "none" => ~consumed /\ handler \notin {"copy", "count"} /\ record.status # 200
  /\ consumed => wire = Body
  /\ handler \in {"roundTrip", "copy", "count"} => record.status = 0 /\ record.fate = "open"
  /\ record.status = 200 /\ consumed => record.up = Body

ExchangeInv == ExchangeTypeOK /\ OrderInv /\ AnswerInv

LEMMA ExchangeTypeInit == ExchangeInit => ExchangeTypeOK
<1> SUFFICES ASSUME ExchangeInit PROVE ExchangeTypeOK
  OBVIOUS
<1>1. 0 \in 0..Body /\ Body \in 0..Body /\ 0 \in 0..Reply
  BY ExchangeAssumption
<1>2. /\ handler \in HandlerPcs
      /\ sender \in {"read", "add", "write", "stopped"}
      /\ answer \in Answers
      /\ conn \in BOOLEAN /\ consumed \in BOOLEAN
  BY DEF ExchangeInit, HandlerPcs, Answers
<1>3. record \in [status : {0, 200, 502}, up : 0..Body, down : 0..Reply,
                 fate : {"open", "kept", "lost"}]
  BY <1>1 DEF ExchangeInit
<1> QED BY <1>1, <1>2, <1>3 DEF ExchangeInit, ExchangeTypeOK

LEMMA OrderNext ==
  ASSUME ExchangeTypeOK, OrderInv, [ExchangeNext]_exchangeVars
  PROVE  OrderInv'
<1> USE ExchangeAssumption DEF ExchangeTypeOK, OrderInv
<1>1. CASE SenderStep
  BY <1>1 DEF SenderStep, ReadBody, ReadEnds, Add, SendUnit, SendFails, SenderMoves
<1>2. CASE ServerDiscards
  BY <1>2 DEF ServerDiscards, senderVars
<1>3. CASE UpstreamStep \/ HandlerStep \/ UNCHANGED exchangeVars
  BY <1>3 DEF UpstreamStep, Answer, LoseConnection, HandlerStep, RoundTripFails,
              RoundTripReturns, CopyUnit, CopyEnds, Count, Finish, CloseBody, HandlerMoves,
              exchangeVars, senderVars
<1> QED BY <1>1, <1>2, <1>3 DEF ExchangeNext

LEMMA ExchangeTypeNext ==
  ASSUME ExchangeTypeOK, OrderInv, [ExchangeNext]_exchangeVars
  PROVE  ExchangeTypeOK'
<1> USE ExchangeAssumption
<1>1. CASE SenderStep
  BY <1>1 DEF SenderStep, ReadBody, ReadEnds, Add, SendUnit, SendFails, SenderMoves,
              ExchangeTypeOK, OrderInv
<1>2. ASSUME NEW a \in {"final", "below100"}, Answer(a)
      PROVE  ExchangeTypeOK'
  BY <1>2 DEF Answer, Answers, ExchangeTypeOK, senderVars
<1>3. CASE LoseConnection
  BY <1>3 DEF LoseConnection, ExchangeTypeOK, senderVars
<1>4. CASE ServerDiscards
  BY <1>4 DEF ServerDiscards, ExchangeTypeOK, senderVars
<1>5. CASE RoundTripFails \/ Count
  BY <1>5 DEF RoundTripFails, Count, HandlerMoves, HandlerPcs, ExchangeTypeOK, senderVars
<1>6. CASE RoundTripReturns \/ CopyUnit \/ CopyEnds
  BY <1>6 DEF RoundTripReturns, CopyUnit, CopyEnds, HandlerMoves, HandlerPcs, ExchangeTypeOK, senderVars
<1>7. CASE Finish
  BY <1>7 DEF Finish, HandlerMoves, HandlerPcs, ExchangeTypeOK, senderVars
<1>8. CASE CloseBody
  BY <1>8 DEF CloseBody, HandlerMoves, HandlerPcs, ExchangeTypeOK, senderVars
<1>9. CASE UNCHANGED exchangeVars
  BY <1>9 DEF exchangeVars, ExchangeTypeOK, senderVars
<1> QED
  BY <1>1, <1>2, <1>3, <1>4, <1>5, <1>6, <1>7, <1>8, <1>9 DEF ExchangeNext, UpstreamStep, HandlerStep

LEMMA AnswerNext ==
  ASSUME ExchangeTypeOK, OrderInv, AnswerInv, [ExchangeNext]_exchangeVars
  PROVE  AnswerInv'
<1> USE DEF AnswerInv
<1>1. CASE SenderStep
  <2>1. CASE SendUnit
    <3>1. ~consumed
      BY <2>1, ExchangeAssumption DEF SendUnit, SenderMoves, ExchangeTypeOK, OrderInv
    <3> QED BY <2>1, <3>1 DEF SendUnit, SenderMoves
  <2>2. CASE ReadBody \/ ReadEnds \/ Add \/ SendFails
    BY <2>2 DEF ReadBody, ReadEnds, Add, SendFails, SenderMoves
  <2> QED BY <1>1, <2>1, <2>2 DEF SenderStep
<1>2. ASSUME NEW a \in {"final", "below100"}, Answer(a)
      PROVE  AnswerInv'
  BY <1>2 DEF Answer, senderVars
<1>3. CASE LoseConnection \/ ServerDiscards
  BY <1>3 DEF LoseConnection, ServerDiscards, senderVars
<1>4. CASE RoundTripFails
  BY <1>4 DEF RoundTripFails, HandlerMoves, senderVars
<1>5. CASE RoundTripReturns \/ CopyUnit \/ CopyEnds
  BY <1>5 DEF RoundTripReturns, CopyUnit, CopyEnds, HandlerMoves, senderVars
<1>6. CASE Count
  <2>1. consumed => counted = Body
    BY ExchangeAssumption DEF ExchangeTypeOK, OrderInv
  <2> QED BY <1>6, <2>1 DEF Count, HandlerMoves, senderVars
<1>7. CASE Finish \/ CloseBody
  BY <1>7 DEF Finish, CloseBody, HandlerMoves, senderVars, ExchangeTypeOK
<1>8. CASE UNCHANGED exchangeVars
  BY <1>8 DEF exchangeVars, senderVars
<1> QED
  BY <1>1, <1>2, <1>3, <1>4, <1>5, <1>6, <1>7, <1>8 DEF ExchangeNext, UpstreamStep, HandlerStep

LEMMA ExchangeInductive == ExchangeSpec => []ExchangeInv
<1>1. ExchangeInit => ExchangeInv
  BY ExchangeTypeInit, ExchangeAssumption DEF ExchangeInit, ExchangeInv, OrderInv, AnswerInv
<1>2. ExchangeInv /\ [ExchangeNext]_exchangeVars => ExchangeInv'
  BY ExchangeTypeNext, OrderNext, AnswerNext DEF ExchangeInv
<1> QED BY <1>1, <1>2, PTL DEF ExchangeSpec

(* Every counter of an exchange stays within the body it counts.           *)
THEOREM ExchangeTypeCorrect == ExchangeSpec => []ExchangeTypeOK
<1>1. ExchangeInv => ExchangeTypeOK
  BY DEF ExchangeInv
<1> QED BY <1>1, ExchangeInductive, PTL

(* At the moment a record is given its count, no unit of the body has left *)
(* that is not in it (proxy.go:425, proxy.go:445).                         *)
THEOREM CountCoversWireAlways == ExchangeSpec => CountCoversWire
<1>1. ExchangeInv /\ [ExchangeNext]_exchangeVars =>
        [handler # "finish" /\ handler' = "finish" => record'.up >= wire]_exchangeVars
  <2> SUFFICES ASSUME ExchangeInv, ExchangeNext, handler # "finish", handler' = "finish"
               PROVE  record'.up >= wire
    BY DEF exchangeVars
  <2>1. RoundTripFails \/ Count
    BY DEF ExchangeNext, SenderStep, ReadBody, ReadEnds, Add, SendUnit, SendFails, SenderMoves,
           UpstreamStep, Answer, LoseConnection, ServerDiscards, HandlerStep, RoundTripReturns,
           CopyUnit, CopyEnds, Finish, CloseBody, HandlerMoves
  <2> QED
    BY <2>1, ExchangeAssumption DEF RoundTripFails, Count, ExchangeInv, ExchangeTypeOK, OrderInv
<1> QED BY <1>1, ExchangeInductive, PTL DEF ExchangeSpec, CountCoversWire

(* An upstream that had the whole body when it answered is recorded with   *)
(* exactly that body.                                                      *)
THEOREM ConsumedIsExactAlways == ExchangeSpec => []ConsumedIsExact
<1>1. ExchangeInv => ConsumedIsExact
  BY DEF ExchangeInv, AnswerInv, ConsumedIsExact
<1> QED BY <1>1, ExchangeInductive, PTL

-----------------------------------------------------------------------------
(* A step of the request is a step of the way it took, and the other way's *)
(* state stands still.                                                     *)
LEMMA EachStepIsOneWays ==
  ASSUME [TrafficNext]_trafficVars
  PROVE  [Next]_vars /\ [ExchangeNext]_exchangeVars
<1>1. CASE TunnelStep(Next)
  BY <1>1 DEF TunnelStep
<1>2. CASE PlainStep
  BY <1>2 DEF PlainStep
<1>3. CASE Dispatch \/ PlainOver \/ UNCHANGED trafficVars
  BY <1>3 DEF Dispatch, PlainOver, trafficVars
<1> QED
  BY <1>1, <1>2, <1>3 DEF TrafficNext

LEMMA TrafficIsATunnel == TrafficSpec => Spec
<1>1. [TrafficNext]_trafficVars => [Next]_vars
  BY EachStepIsOneWays
<1> QED BY <1>1, PTL DEF TrafficSpec, TrafficInit, Spec

LEMMA TrafficIsAnExchange == TrafficSpec => ExchangeSpec
<1>1. [TrafficNext]_trafficVars => [ExchangeNext]_exchangeVars
  BY EachStepIsOneWays
<1> QED BY <1>1, PTL DEF TrafficSpec, TrafficInit, ExchangeSpec

(* Whichever way ServeHTTP chooses, both keep their types                  *)
(* (proxy.go:327-333).                                                     *)
THEOREM TrafficTypeCorrect == TrafficSpec => []TrafficTypeOK
<1>1. TypeOK /\ ExchangeTypeOK => TrafficTypeOK
  BY DEF TrafficTypeOK
<1> QED
  BY <1>1, TrafficIsATunnel, TrafficIsAnExchange, PumpTypeCorrect, ExchangeTypeCorrect, PTL

(* What a tunnel promises its handler, and what it never does, is not lost *)
(* when the handler is one of the two ServeHTTP chooses between.           *)
THEOREM TrafficKeepsTheTunnelsPromises ==
  TrafficSpec => /\ ImplementsTunnelPromise
                 /\ []CappedMeansTurnedAway
                 /\ []NothingWaitsAfterTheEnd
                 /\ GivesUpOnlyWithoutReads
BY TrafficIsATunnel, PumpKeepsItsPromise, CappedMeansTurnedAwayAlways,
   NothingWaitsAfterTheEndAlways, GivesUpOnlyWithoutReadsAlways, PTL

(* Nor are the counts of a plain request's record.                         *)
THEOREM TrafficKeepsTheCounts ==
  TrafficSpec => CountCoversWire /\ []ConsumedIsExact
BY TrafficIsAnExchange, CountCoversWireAlways, ConsumedIsExactAlways, PTL

=============================================================================
