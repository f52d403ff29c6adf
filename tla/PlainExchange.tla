----------------------------- MODULE PlainExchange -----------------------------
(***************************************************************************)
(* One allowed plain request, from RoundTrip to the end of handleHTTP in   *)
(* internal/proxy/proxy.go: the handler copies the response back and reads *)
(* the byte counts for its record, while the transport's own goroutine may *)
(* still be sending the request body through the countingReader.           *)
(*                                                                         *)
(* A unit of a body is what one Read of it returns.                        *)
(***************************************************************************)
EXTENDS Integers

CONSTANTS
  Body,  \* units in the request body
  Reply  \* bound: units in the response body

ASSUME ExchangeAssumption == Body \in Nat /\ Reply \in Nat

VARIABLES
  handler,   \* where handleHTTP is
  sender,    \* where the transport's write loop is
  left,      \* units of the request body nobody has read yet
  counted,   \* countingReader.n
  wire,      \* units written to the upstream
  conn,      \* the upstream connection is open
  answer,    \* what the upstream answered with
  consumed,  \* history: it had the whole body when it answered
  down,      \* units of the response io.Copy has written to the client
  record     \* the audit record as far as it is filled in

senderVars == <<sender, counted, wire>>
exchangeVars == <<handler, senderVars, left, conn, answer, consumed, down, record>>

HandlerPcs == {"roundTrip", "copy", "count", "finish", "close", "over", "panicked"}

(* A status below 100 reaches the handler like any other.                  *)
Answers == {"none", "final", "below100"}

ExchangeTypeOK ==
  /\ handler \in HandlerPcs
  /\ sender \in {"read", "add", "write", "stopped"}
  /\ left \in 0..Body
  /\ counted \in 0..Body
  /\ wire \in 0..Body
  /\ conn \in BOOLEAN
  /\ answer \in Answers
  /\ consumed \in BOOLEAN
  /\ down \in 0..Reply
  /\ record \in [status : {0, 200, 502}, up : 0..Body, down : 0..Reply,
                 fate : {"open", "kept", "lost"}]

ExchangeInit ==
  /\ handler = "roundTrip"
  /\ sender = "read"
  /\ left = Body
  /\ counted = 0
  /\ wire = 0
  /\ conn = TRUE
  /\ answer = "none"
  /\ consumed = FALSE
  /\ down = 0
  /\ record = [status |-> 0, up |-> 0, down |-> 0, fate |-> "open"]

-----------------------------------------------------------------------------
SenderMoves(from, to) ==
  /\ sender = from
  /\ sender' = to
  /\ UNCHANGED <<handler, conn, answer, consumed, down, record>>

(* The server closes a request body when the handler has returned.         *)
BodyOpen == handler \notin {"over", "panicked"}

(* countingReader.Read: the underlying read, and then the addition.        *)
ReadBody ==
  /\ BodyOpen /\ left > 0
  /\ left' = left - 1
  /\ SenderMoves("read", "add")
  /\ UNCHANGED <<counted, wire>>

ReadEnds ==
  /\ ~BodyOpen \/ left = 0
  /\ SenderMoves("read", "stopped")
  /\ UNCHANGED <<left, counted, wire>>

MutAddIsStore ==
  /\ SenderMoves("add", "write")
  /\ counted' = 1
  /\ UNCHANGED <<left, wire>>

Add ==
  /\ SenderMoves("add", "write")
  /\ counted' = counted + 1
  /\ UNCHANGED <<left, wire>>

SendUnit ==
  /\ conn
  /\ SenderMoves("write", "read")
  /\ wire' = wire + 1
  /\ UNCHANGED <<left, counted>>

SendFails ==
  /\ ~conn
  /\ SenderMoves("write", "stopped")
  /\ UNCHANGED <<left, counted, wire>>

-----------------------------------------------------------------------------
(* The upstream may answer before it has the body, "which is every 401,    *)
(* 413 or 429", and the connection may be lost at any time.                *)
Answer(a) ==
  /\ conn /\ answer = "none"
  /\ answer' = a
  /\ consumed' = (wire = Body)
  /\ UNCHANGED <<handler, senderVars, left, conn, down, record>>

LoseConnection ==
  /\ conn
  /\ conn' = FALSE
  /\ UNCHANGED <<handler, senderVars, left, answer, consumed, down, record>>

(* Before a server sends response headers it discards the request body it  *)
(* finds unread.                                                           *)
ServerDiscards ==
  /\ handler \in {"copy", "count", "finish", "close"}
  /\ left > 0
  /\ left' = 0
  /\ UNCHANGED <<handler, senderVars, conn, answer, consumed, down, record>>

-----------------------------------------------------------------------------
HandlerMoves(from, to) ==
  /\ handler = from
  /\ handler' = to
  /\ UNCHANGED <<senderVars, left, answer, consumed>>

(* A lost connection, a timeout, or a client that left.                    *)
RoundTripFails ==
  /\ HandlerMoves("roundTrip", "finish")
  /\ record' = [status |-> 502, up |-> counted, down |-> 0, fate |-> "open"]
  /\ UNCHANGED <<conn, down>>

(* WriteHeader panics on a status below 100; the server recovers, and      *)
(* finish is never reached.                                                *)
RoundTripReturns ==
  /\ answer # "none"
  /\ HandlerMoves("roundTrip", IF answer = "final" THEN "copy" ELSE "panicked")
  /\ UNCHANGED <<conn, down, record>>

CopyUnit ==
  /\ down < Reply
  /\ HandlerMoves("copy", "copy")
  /\ down' = down + 1
  /\ UNCHANGED <<conn, record>>

(* At the end of the response, at an error of the upstream or the client.  *)
CopyEnds ==
  /\ HandlerMoves("copy", "count")
  /\ UNCHANGED <<conn, down, record>>

MutUpForgotten ==
  /\ HandlerMoves("count", "finish")
  /\ record' = [status |-> 200, up |-> 0, down |-> down, fate |-> "open"]
  /\ UNCHANGED <<conn, down>>

Count ==
  /\ HandlerMoves("count", "finish")
  /\ record' = [status |-> 200, up |-> counted, down |-> down, fate |-> "open"]
  /\ UNCHANGED <<conn, down>>

(* finish; an Append that fails keeps no record.                           *)
Finish ==
  /\ HandlerMoves("finish", "close")
  /\ \E fate \in {"kept", "lost"} : record' = [record EXCEPT !.fate = fate]
  /\ UNCHANGED <<conn, down>>

(* The deferred close of the response body gives up a connection that is   *)
(* still being written to.                                                 *)
CloseBody ==
  /\ HandlerMoves("close", "over")
  /\ conn' = (conn /\ sender = "stopped")
  /\ UNCHANGED <<down, record>>

SenderStep == ReadBody \/ ReadEnds \/ Add \/ SendUnit \/ SendFails

UpstreamStep == LoseConnection \/ \E a \in {"final", "below100"} : Answer(a)

HandlerStep ==
  \/ RoundTripFails \/ RoundTripReturns \/ CopyUnit \/ CopyEnds
  \/ Count \/ Finish \/ CloseBody

ExchangeNext == SenderStep \/ UpstreamStep \/ ServerDiscards \/ HandlerStep

ExchangeSpec == ExchangeInit /\ [][ExchangeNext]_exchangeVars

-----------------------------------------------------------------------------
(* "So the audit record can report how much left the network"              *)
(* (countingReader): at the moment a record is given its count, no unit    *)
(* has left that is not in it, though the body may still be on its way.    *)
CountCoversWire ==
  [][handler # "finish" /\ handler' = "finish" => record'.up >= wire]_exchangeVars

(* An upstream that answered when it had the whole body is recorded with   *)
(* exactly that body, whatever the sender was still doing to its counter.  *)
ConsumedIsExact ==
  record.fate = "kept" /\ record.status = 200 /\ consumed => record.up = Body /\ wire = Body
=============================================================================
