-------------------------------- MODULE Traffic --------------------------------
(***************************************************************************)
(* Handler.ServeHTTP of internal/proxy/proxy.go chooses by the method how  *)
(* the bytes of an allowed request travel: as a tunnel, or as one request  *)
(* and its response.                                                       *)
(***************************************************************************)
EXTENDS TunnelPump, PlainExchange

VARIABLE kind  \* what the request turned out to be

trafficVars == <<kind, vars, exchangeVars>>

TrafficInit == kind = "unread" /\ Init /\ ExchangeInit

(* ServeHTTP.                                                              *)
Dispatch ==
  /\ kind = "unread"
  /\ kind' \in {"connect", "http"}
  /\ UNCHANGED <<vars, exchangeVars>>

TunnelStep(A) == kind = "connect" /\ A /\ UNCHANGED <<kind, exchangeVars>>

PlainStep ==
  /\ kind = "http"
  /\ ExchangeNext
  /\ UNCHANGED <<kind, vars>>

(* An exchange whose goroutines have all ended.                            *)
PlainOver ==
  /\ ~BodyOpen /\ sender = "stopped"
  /\ UNCHANGED trafficVars

TrafficNext == Dispatch \/ TunnelStep(Next) \/ PlainStep \/ PlainOver

(* As FairSpec of TunnelPump.                                              *)
TrafficSpec ==
  /\ TrafficInit
  /\ [][TrafficNext]_trafficVars
  /\ \A d \in Directions : WF_trafficVars(TunnelStep(CopyStep(d)))
  /\ WF_trafficVars(TunnelStep(MainStep))
  /\ WF_trafficVars(TunnelStep(Tick))

-----------------------------------------------------------------------------
(* Every variable of the two ways keeps its type.                          *)
TrafficTypeOK == TypeOK /\ ExchangeTypeOK

(* Peers that go on reading and at some time stop sending lose their       *)
(* tunnel: the idle timeout ends it if nothing else does.                  *)
TunnelEnds ==
  (\A d \in Directions : WF_trafficVars(TunnelStep(Take(d))))
    => (kind = "connect" ~> main = "returned")
================================================================================
