----------------------------- MODULE TunnelPromise -----------------------------
(***************************************************************************)
(* What pump of internal/proxy/connect.go promises handleConnect: bytes    *)
(* are forwarded in each direction, never more than were offered and never *)
(* beyond the cap; when it reports, the counts are what was forwarded,     *)
(* nothing moves afterwards, and the cap is blamed only where a byte was   *)
(* turned away.                                                            *)
(***************************************************************************)
EXTENDS Naturals

CONSTANTS
  Directions,  \* the two ways bytes travel
  Cap          \* Config.MaxTunnelBytes, 0 for none

VARIABLES
  offered,    \* bytes the source of each direction has sent
  delivered,  \* bytes handed to the sink of each direction
  report,     \* what pump returns
  over        \* it has returned

vars == <<offered, delivered, report, over>>

Nothing == [bytes |-> [d \in Directions |-> 0], capped |-> FALSE]

Init ==
  /\ offered \in [Directions -> Nat]
  /\ delivered = [d \in Directions |-> 0]
  /\ report = Nothing
  /\ over = FALSE

Offer(d) ==
  /\ offered' = [offered EXCEPT ![d] = @ + 1]
  /\ UNCHANGED <<delivered, report, over>>

Forward(d) ==
  /\ ~over
  /\ delivered[d] < offered[d]
  /\ Cap = 0 \/ delivered[d] < Cap
  /\ delivered' = [delivered EXCEPT ![d] = @ + 1]
  /\ UNCHANGED <<offered, report, over>>

TurnedAway(d) == Cap > 0 /\ delivered[d] = Cap /\ offered[d] > Cap

Return ==
  /\ ~over
  /\ over' = TRUE
  /\ report'.bytes = delivered
  /\ report'.capped => \E d \in Directions : TurnedAway(d)
  /\ UNCHANGED <<offered, delivered>>

Next == Return \/ \E d \in Directions : Offer(d) \/ Forward(d)

Spec == Init /\ [][Next]_vars
=============================================================================
