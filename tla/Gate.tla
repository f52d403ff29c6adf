-------------------------------- MODULE Gate --------------------------------
(***************************************************************************)
(* One process of egressgate serve from the first request to its exit: the *)
(* handlers of internal/proxy (handleConnect, handleHTTP, finish,          *)
(* registerTunnel, Shutdown) and the goroutine of cmdServe that stops      *)
(* them.  Every handler is a process; the steps of a handler are the       *)
(* points between which another handler, or the shutdown, can run.         *)
(*                                                                         *)
(* The audit log is the sequence of records Append completed.  What is     *)
(* dialled, copied and answered is left out; whether a connection is still *)
(* the server's or has been hijacked is not, because http.Server.Shutdown  *)
(* waits for the one and not for the other.                                *)
(***************************************************************************)
EXTENDS Integers, Sequences, FiniteSets

CONSTANTS
  Connects,  \* the CONNECT requests that may arrive
  Https      \* the plain HTTP requests that may arrive

ASSUME RequestsAssumption ==
  Connects \cap Https = {} /\ IsFiniteSet(Connects) /\ IsFiniteSet(Https)

Requests == Connects \cup Https

VARIABLES
  pc,           \* where each request's handler is
  status,       \* the status its record will carry
  audit,        \* the records appended, in order
  unwritten,    \* requests whose Append returned an error
  tunnels,      \* Handler.tunnels
  wg,           \* the counter of Handler.tunnelWG
  gauge,        \* egressgate_active_tunnels
  closing,      \* Handler.closing
  live,         \* Shutdown's snapshot of tunnels
  severed,      \* tunnels whose two connections Shutdown has closed
  started,      \* history: every tunnel that was ever registered
  main,         \* where cmdServe is
  drainExpired, \* http.Server.Shutdown gave up on open requests
  waitExpired,  \* Handler.Shutdown gave up on the tunnels
  stranded,     \* the number it then reported
  head          \* the number of records behind the head printed at exit

handlerVars == <<audit, unwritten, tunnels, wg, gauge, started>>
shutdownVars == <<closing, live, severed, main, drainExpired, waitExpired, stranded, head>>
vars == <<pc, status, handlerVars, shutdownVars>>

-----------------------------------------------------------------------------
(* The handler is running and its connection still belongs to the server.  *)
Served == {"judge", "check", "dial", "hijack", "roundTrip", "copy", "finish"}

(* The connection is hijacked and the tunnel is not registered.            *)
Window == {"greet", "register", "finishRefused"}

(* The tunnel is registered and the WaitGroup counts it.                   *)
Counted == {"count", "pump", "finishTunnel", "uncount", "remove", "release"}

Registered == Counted \ {"release"}

Statuses == {0, 200, 400, 403, 500, 502, 503}

MainPcs == {"serving", "draining", "drained", "closing", "waiting", "reading",
            "exiting", "exited", "failDraining", "failed"}

TypeOK ==
  /\ pc \in [Requests -> {"idle", "done", "aborted"} \cup Served \cup Window \cup Counted]
  /\ status \in [Requests -> Statuses]
  /\ audit \in Seq([req : Requests, status : Statuses])
  /\ unwritten \in SUBSET Requests
  /\ tunnels \in SUBSET Connects
  /\ wg \in Nat
  /\ gauge \in Int
  /\ closing \in BOOLEAN
  /\ live \in SUBSET Connects
  /\ severed \in SUBSET Connects
  /\ started \in SUBSET Connects
  /\ main \in MainPcs
  /\ drainExpired \in BOOLEAN
  /\ waitExpired \in BOOLEAN
  /\ stranded \in Nat
  /\ head \in Nat

Init ==
  /\ pc = [r \in Requests |-> "idle"]
  /\ status = [r \in Requests |-> 0]
  /\ audit = <<>>
  /\ unwritten = {}
  /\ tunnels = {}
  /\ wg = 0
  /\ gauge = 0
  /\ closing = FALSE
  /\ live = {}
  /\ severed = {}
  /\ started = {}
  /\ main = "serving"
  /\ drainExpired = FALSE
  /\ waitExpired = FALSE
  /\ stranded = 0
  /\ head = 0

Running == main \notin {"exited", "failed"}

(* A handler moves from one point to another while the process runs.       *)
Moves(r, from, to) ==
  /\ Running
  /\ pc[r] = from
  /\ pc' = [pc EXCEPT ![r] = to]

WithStatus(r, s) == status' = [status EXCEPT ![r] = s]

(* A step that only fixes the outcome, or only goes on.                    *)
Settles(r, from, to, s) ==
  /\ Moves(r, from, to)
  /\ WithStatus(r, s)
  /\ UNCHANGED <<handlerVars, shutdownVars>>

GoesOn(r, from, to) ==
  /\ Moves(r, from, to)
  /\ UNCHANGED <<status, handlerVars, shutdownVars>>

-----------------------------------------------------------------------------
(* A request is read on a connection of the data server.  Shutdown closes  *)
(* the listener, but a connection accepted before may still send its       *)
(* request until Shutdown sees no connection left, and for as long as the  *)
(* process lives when Shutdown gave up.                                    *)
Arrive(r) ==
  /\ main \in {"serving", "draining", "failDraining"} \/ drainExpired
  /\ GoesOn(r, "idle", "judge")

(* A malformed request is 400, one the policy denies 403.                  *)
JudgeRefused(r) == \E s \in {400, 403} : Settles(r, "judge", "finish", s)

JudgeAllowed(r) == GoesOn(r, "judge", IF r \in Connects THEN "check" ELSE "roundTrip")

(* isClosing, before anything is dialled.                                  *)
CheckClosing(r) ==
  \/ closing /\ Settles(r, "check", "finish", 503)
  \/ ~closing /\ GoesOn(r, "check", "dial")

DialFails(r) == Settles(r, "dial", "finish", 502)
DialSucceeds(r) == GoesOn(r, "dial", "hijack")

HijackFails(r) == Settles(r, "hijack", "finish", 500)
HijackSucceeds(r) == GoesOn(r, "hijack", "greet")

(* "200 Connection Established" is written to the hijacked connection.     *)
GreetFails(r) == Settles(r, "greet", "finishRefused", 502)
GreetSucceeds(r) == GoesOn(r, "greet", "register")

(* registerTunnel, under tunnelMu.                                         *)
MutRegisterUnguarded(r) ==
  /\ Moves(r, "register", "count")
  /\ tunnels' = tunnels \cup {r}
  /\ wg' = wg + 1
  /\ started' = started \cup {r}
  /\ UNCHANGED <<status, audit, unwritten, gauge, shutdownVars>>

RegisterTunnel(r) ==
  /\ ~closing
  /\ Moves(r, "register", "count")
  /\ tunnels' = tunnels \cup {r}
  /\ wg' = wg + 1
  /\ started' = started \cup {r}
  /\ UNCHANGED <<status, audit, unwritten, gauge, shutdownVars>>

MutRefusedAsOpened(r) == closing /\ Settles(r, "register", "finishRefused", 200)

RegisterRefused(r) == closing /\ Settles(r, "register", "finishRefused", 503)

GaugeInc(r) ==
  /\ Moves(r, "count", "pump")
  /\ gauge' = gauge + 1
  /\ UNCHANGED <<status, audit, unwritten, tunnels, wg, started, shutdownVars>>

(* One direction finished, by itself or because Shutdown closed the        *)
(* connections.                                                            *)
PumpEnds(r) == Settles(r, "pump", "finishTunnel", 200)

MutGaugeNotDecremented(r) == GoesOn(r, "uncount", "remove")

GaugeDec(r) ==
  /\ Moves(r, "uncount", "remove")
  /\ gauge' = gauge - 1
  /\ UNCHANGED <<status, audit, unwritten, tunnels, wg, started, shutdownVars>>

(* unregister: the deletion is under tunnelMu, tunnelWG.Done is not.       *)
RemoveTunnel(r) ==
  /\ Moves(r, "remove", "release")
  /\ tunnels' = tunnels \ {r}
  /\ UNCHANGED <<status, audit, unwritten, wg, gauge, started, shutdownVars>>

MutReleaseTwice(r) ==
  /\ Moves(r, "release", "done")
  /\ wg' = wg - 2
  /\ UNCHANGED <<status, audit, unwritten, tunnels, gauge, started, shutdownVars>>

ReleaseWait(r) ==
  /\ Moves(r, "release", "done")
  /\ wg' = wg - 1
  /\ UNCHANGED <<status, audit, unwritten, tunnels, gauge, started, shutdownVars>>

RoundTripFails(r) == Settles(r, "roundTrip", "finish", 502)
RoundTripSucceeds(r) == GoesOn(r, "roundTrip", "copy")
CopyEnds(r) == Settles(r, "copy", "finish", 200)

(* A status below 100 makes WriteHeader panic.  The server recovers, and   *)
(* closes the connection; finish is not reached.                           *)
WriteHeaderPanics(r) == GoesOn(r, "roundTrip", "aborted")

(* finish: one Append, which may fail.  What the handler does after it on  *)
(* a path without a tunnel is to answer and return.                        *)
MutNoReturnAfterRefusal(p) ==
  CASE p = "finishTunnel" -> "uncount" [] p = "finishRefused" -> "finish" [] OTHER -> "done"

AfterFinish(p) == IF p = "finishTunnel" THEN "uncount" ELSE "done"

Finish(r) ==
  /\ Running
  /\ pc[r] \in {"finish", "finishRefused", "finishTunnel"}
  /\ pc' = [pc EXCEPT ![r] = AfterFinish(pc[r])]
  /\ \/ audit' = Append(audit, [req |-> r, status |-> status[r]]) /\ UNCHANGED unwritten
     \/ unwritten' = unwritten \cup {r} /\ UNCHANGED audit
  /\ UNCHANGED <<status, tunnels, wg, gauge, started, shutdownVars>>

-----------------------------------------------------------------------------
MainMoves(from, to) ==
  /\ main = from
  /\ main' = to
  /\ UNCHANGED <<pc, status, handlerVars>>

(* SIGTERM, or the injected stop.                                          *)
StopSignal ==
  /\ MainMoves("serving", "draining")
  /\ UNCHANGED <<closing, live, severed, drainExpired, waitExpired, stranded, head>>

(* http.Server.Shutdown waits for the connections it still owns.           *)
MutDrainForgotten == TRUE

Drained == \A r \in Requests : pc[r] \notin Served

DrainDone ==
  /\ Drained
  /\ MainMoves("draining", "drained")
  /\ UNCHANGED <<closing, live, severed, drainExpired, waitExpired, stranded, head>>

(* Its five seconds are over; the error is dropped.                        *)
DrainExpires ==
  /\ MainMoves("draining", "drained")
  /\ drainExpired' = TRUE
  /\ UNCHANGED <<closing, live, severed, waitExpired, stranded, head>>

(* Handler.Shutdown: the flag and the snapshot, under tunnelMu.            *)
MutHeadBeforeTunnels ==
  /\ MainMoves("drained", "reading")
  /\ closing' = TRUE
  /\ live' = tunnels
  /\ UNCHANGED <<severed, drainExpired, waitExpired, stranded, head>>

BeginClosing ==
  /\ MainMoves("drained", "closing")
  /\ closing' = TRUE
  /\ live' = tunnels
  /\ UNCHANGED <<severed, drainExpired, waitExpired, stranded, head>>

MutSeverNothing ==
  /\ MainMoves("closing", "waiting")
  /\ UNCHANGED <<closing, live, severed, drainExpired, waitExpired, stranded, head>>

SeverLive ==
  /\ MainMoves("closing", "waiting")
  /\ severed' = severed \cup live
  /\ UNCHANGED <<closing, live, drainExpired, waitExpired, stranded, head>>

WaitDone ==
  /\ wg = 0
  /\ MainMoves("waiting", "reading")
  /\ UNCHANGED <<closing, live, severed, drainExpired, waitExpired, stranded, head>>

MutExpiresQuietly ==
  /\ MainMoves("waiting", "reading")
  /\ waitExpired' = TRUE
  /\ stranded' = Cardinality(tunnels \ severed)
  /\ UNCHANGED <<closing, live, severed, drainExpired, head>>

WaitExpires ==
  /\ MainMoves("waiting", "reading")
  /\ waitExpired' = TRUE
  /\ stranded' = Cardinality(tunnels)
  /\ UNCHANGED <<closing, live, severed, drainExpired, head>>

ReadHead ==
  /\ MainMoves("reading", "exiting")
  /\ head' = Len(audit)
  /\ UNCHANGED <<closing, live, severed, drainExpired, waitExpired, stranded>>

Exit ==
  /\ MainMoves("exiting", "exited")
  /\ UNCHANGED <<closing, live, severed, drainExpired, waitExpired, stranded, head>>

(* A server's accept loop failed: the servers are shut down, the tunnels   *)
(* are not, and no head is printed.                                        *)
ServerFails ==
  /\ MainMoves("serving", "failDraining")
  /\ UNCHANGED <<closing, live, severed, drainExpired, waitExpired, stranded, head>>

FailedExit ==
  /\ MainMoves("failDraining", "failed")
  /\ drainExpired' = ~Drained
  /\ UNCHANGED <<closing, live, severed, waitExpired, stranded, head>>

(* The process is gone.                                                    *)
Over == ~Running /\ UNCHANGED vars

-----------------------------------------------------------------------------
(* The steps a handler takes without waiting for a peer that may never     *)
(* move: the dialler, the response headers and the hijacked write are      *)
(* bounded by timeouts or by the socket buffer.                            *)
HandlerStep(r) ==
  \/ JudgeRefused(r) \/ JudgeAllowed(r) \/ CheckClosing(r)
  \/ DialFails(r) \/ DialSucceeds(r) \/ HijackFails(r) \/ HijackSucceeds(r)
  \/ GreetFails(r) \/ GreetSucceeds(r) \/ RegisterTunnel(r) \/ RegisterRefused(r)
  \/ GaugeInc(r) \/ GaugeDec(r) \/ RemoveTunnel(r) \/ ReleaseWait(r)
  \/ RoundTripFails(r) \/ RoundTripSucceeds(r) \/ WriteHeaderPanics(r) \/ Finish(r)

MainStep ==
  \/ DrainDone \/ DrainExpires \/ BeginClosing \/ SeverLive \/ WaitDone
  \/ ReadHead \/ Exit \/ FailedExit

Next ==
  \/ \E r \in Requests : Arrive(r) \/ HandlerStep(r) \/ PumpEnds(r) \/ CopyEnds(r)
  \/ StopSignal \/ ServerFails \/ MainStep \/ WaitExpires
  \/ Over

Spec == Init /\ [][Next]_vars

(* Goroutines are scheduled; a closed connection ends its copy.  No stop,  *)
(* no request, no end of an open tunnel or of a response is assumed, and   *)
(* not that the second deadline ever fires.                                *)
FairSpec ==
  /\ Spec
  /\ \A r \in Requests : WF_vars(HandlerStep(r)) /\ WF_vars(r \in severed /\ PumpEnds(r))
  /\ WF_vars(MainStep)

-----------------------------------------------------------------------------
(* Request r's record is among the first n of the log, or its Append       *)
(* reported an error.                                                      *)
Recorded(r, n) == r \in unwritten \/ \E i \in 1..n : audit[i].req = r

(* How often request r was brought to an end: its records in the log, and  *)
(* the failure of an Append.                                               *)
Ends(r) ==
  Cardinality({i \in DOMAIN audit : audit[i].req = r}) + Cardinality({r} \cap unwritten)

(* No path of a handler ends in finish twice, on any of its returns, and   *)
(* one that goes on from it, to take its tunnel down or to return, has     *)
(* ended there once (handleConnect, handleHTTP).                           *)
OneRecordPerRequest ==
  \A r \in Requests :
    /\ Ends(r) <= 1
    /\ pc[r] \in {"uncount", "remove", "release", "done"} => Ends(r) = 1

(* The wait of Handler.Shutdown means "every tunnel is audited" rather     *)
(* than "every tunnel is closed": at zero, every tunnel ever registered    *)
(* has its record.                                                         *)
WaitMeansRecorded ==
  wg = 0 => \A r \in started : Recorded(r, Len(audit))

(* The head printed at exit covers every tunnel, unless the second         *)
(* deadline passed (comment before handler.Shutdown in cmdServe).          *)
HeadCoversTunnels ==
  main \in {"exiting", "exited"} /\ ~waitExpired
    => \A r \in started : Recorded(r, head)

(* What the head covers when no deadline passed: every request that        *)
(* arrived, but for a CONNECT between its hijack and its registration,     *)
(* which neither Shutdown waits for, and for a handler that panicked.      *)
HeadCoversAllButWindow ==
  [][ main = "reading" /\ main' = "exiting" /\ ~drainExpired /\ ~waitExpired
      => \A r \in Requests : pc[r] \notin {"idle", "aborted"} \cup Window => Recorded(r, head') ]_vars

(* A tunnel that left no record is counted in the message on stderr: the   *)
(* number may be too high, never too low.                                  *)
StrandedCoversLost ==
  main \in {"reading", "exiting", "exited"}
    => Cardinality({r \in started : ~Recorded(r, Len(audit))}) <= stranded

(* "Neither order leaves a tunnel running that nobody is waiting on": once *)
(* Shutdown waits, every tunnel still carrying traffic has been closed.    *)
NoTunnelUnattended ==
  main \in {"waiting", "reading", "exiting", "exited"}
    => \A r \in Requests : pc[r] \in {"count", "pump"} => r \in severed

(* After Shutdown has begun no tunnel starts, and the WaitGroup, on which  *)
(* Wait may be pending, is never added to.                                 *)
NoTunnelAfterClosing == [][closing => started' = started /\ wg' <= wg]_vars

(* What a CONNECT's record says happened did happen: 200 for a tunnel that *)
(* was opened, 503 for one refused because the gate was shutting down.     *)
RecordIsTruthful ==
  \A i \in DOMAIN audit : audit[i].req \in Connects =>
    /\ audit[i].status = 200 <=> audit[i].req \in started
    /\ audit[i].status = 503 => closing

(* What became of a request, by where its handler is, and how far the      *)
(* process has got, by where cmdServe is.                                  *)
StageOf(p) ==
  CASE p = "idle" -> "absent"
    [] p \in Served \cup Window -> "inside"
    [] p \in {"count", "pump", "finishTunnel"} -> "tunnel"
    [] p = "aborted" -> "aborted"
    [] OTHER -> "left"

PhaseOf(m) ==
  CASE m \in {"closing", "waiting", "reading"} -> "closing"
    [] m = "exiting" -> "signed"
    [] m \in {"exited", "failed"} -> "gone"
    [] OTHER -> "open"

Promise ==
  INSTANCE GatePromise WITH
    stage <- [r \in Requests |-> StageOf(pc[r])],
    log   <- audit,
    lost  <- unwritten,
    phase <- PhaseOf(main),
    late  <- waitExpired,
    told  <- stranded

(* Whatever the handlers and the shutdown interleave, the gate does what   *)
(* GatePromise says of the log: one record, that says what happened, for   *)
(* every request whose handler did not panic, no tunnel once it is         *)
(* closing, and a head behind every tunnel or a number on stderr that is   *)
(* not too low.                                                            *)
ImplementsGatePromise == Promise!Spec

(* egressgate_active_tunnels covers the window in which a tunnel is open   *)
(* and absent from the log, and comes back to zero.                        *)
GaugeCoversOpenTunnels ==
  gauge = Cardinality({r \in Requests : pc[r] \in {"pump", "finishTunnel", "uncount"}})

(* A stopped gate exits, and does not need the second deadline for it:     *)
(* closing the connections is enough for every tunnel to end and record.   *)
ShutdownTerminates == main = "draining" ~> main = "exited"

(* "Every request path ends here exactly once" (doc comment of finish),    *)
(* and the failure to prevent is "a tunnel that leaves no trace, and that  *)
(* includes one refused in this window" (comment before registerTunnel is  *)
(* called): a gate that stopped with no deadline passed has a record of    *)
(* every request it let in, or has reported why not.                       *)
EveryRequestIsRecorded ==
  main = "exited" /\ ~drainExpired /\ ~waitExpired
    => \A r \in Requests : pc[r] # "idle" => Recorded(r, Len(audit))

(* "A tunnel still open when the gate stops is not left unrecorded" (doc   *)
(* comment of handleConnect), whichever way the gate stops.                *)
NoTunnelLeftUnrecorded ==
  main \in {"exited", "failed"} /\ ~waitExpired
    => \A r \in started : Recorded(r, Len(audit))
=============================================================================
