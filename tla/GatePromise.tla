------------------------------ MODULE GatePromise ------------------------------
(***************************************************************************)
(* What a gate promises those who read its log, with no goroutine, lock or *)
(* counter in sight: a request comes in, may become a tunnel while the     *)
(* gate is open, and leaves one record, or one reported failure, unless    *)
(* its handler panics; the record says what became of it; and the head is  *)
(* signed when no tunnel is left, or after the number of those left was    *)
(* told.                                                                   *)
(***************************************************************************)
EXTENDS Naturals, Sequences, FiniteSets

CONSTANTS
  Connects,  \* requests that may become tunnels
  Https,     \* requests that never do
  Statuses   \* what a record can say

VARIABLES
  stage,  \* what became of each request
  log,    \* the records
  lost,   \* requests whose record could not be written
  phase,  \* "open", then "closing", then "signed"; and "gone"
  late,   \* the wait for the tunnels was given up
  told,   \* the number of tunnels then said to be left
  head    \* the records behind the signed head

vars == <<stage, log, lost, phase, late, told, head>>

Requests == Connects \cup Https

Init ==
  /\ stage = [r \in Requests |-> "absent"]
  /\ log = <<>>
  /\ lost = {}
  /\ phase = "open"
  /\ late = FALSE
  /\ told = 0
  /\ head = 0

(* A request changes its stage, as long as there is a process.             *)
Becomes(r, from, to) ==
  /\ phase # "gone"
  /\ stage[r] = from
  /\ stage' = [stage EXCEPT ![r] = to]
  /\ UNCHANGED <<phase, late, told, head>>

ComeIn(r) == Becomes(r, "absent", "inside") /\ UNCHANGED <<log, lost>>

OpenTunnel(r) ==
  /\ r \in Connects
  /\ phase = "open"
  /\ Becomes(r, "inside", "tunnel")
  /\ UNCHANGED <<log, lost>>

(* 200 for a CONNECT that was a tunnel and for no other, 503 only once the *)
(* gate is closing.                                                        *)
Truth(r, s) ==
  r \in Connects => (s = 200 <=> stage[r] = "tunnel") /\ (s = 503 => phase # "open")

Leave(r) ==
  /\ \E from \in {"inside", "tunnel"} : Becomes(r, from, "left")
  /\ \/ /\ \E s \in Statuses : Truth(r, s) /\ log' = Append(log, [req |-> r, status |-> s])
        /\ UNCHANGED lost
     \/ lost' = lost \cup {r} /\ UNCHANGED log

(* A handler that panicked leaves nothing.                                 *)
Abort(r) ==
  /\ r \in Https
  /\ Becomes(r, "inside", "aborted")
  /\ UNCHANGED <<log, lost>>

Tunnels == {r \in Requests : stage[r] = "tunnel"}

Passes(from, to) ==
  /\ phase = from
  /\ phase' = to
  /\ UNCHANGED <<stage, log, lost>>

Close == Passes("open", "closing") /\ UNCHANGED <<late, told, head>>

GiveUp ==
  /\ Passes("closing", "closing")
  /\ late' = TRUE
  /\ told' \in Nat /\ told' >= Cardinality(Tunnels)
  /\ UNCHANGED head

Sign ==
  /\ late \/ Tunnels = {}
  /\ Passes("closing", "signed")
  /\ head' = Len(log)
  /\ UNCHANGED <<late, told>>

(* With a head printed, or with a server that failed and none.             *)
Go == (Passes("signed", "gone") \/ Passes("open", "gone")) /\ UNCHANGED <<late, told, head>>

Next ==
  \/ \E r \in Requests : ComeIn(r) \/ OpenTunnel(r) \/ Leave(r) \/ Abort(r)
  \/ Close \/ GiveUp \/ Sign \/ Go

Spec == Init /\ [][Next]_vars
=============================================================================
