----------------------------- MODULE GateProofs -----------------------------
(***************************************************************************)
(* Theorems about Gate, for every finite set of requests.                  *)
(***************************************************************************)
EXTENDS Gate, FiniteSetTheorems, SequenceTheorems, TLAPS

LEMMA RequestsFinite == IsFiniteSet(Requests)
BY RequestsAssumption, FS_Union DEF Requests

In(P) == {r \in Requests : pc[r] \in P}

LEMMA InFinite ==
  ASSUME NEW P
  PROVE  IsFiniteSet(In(P)) /\ Cardinality(In(P)) \in Nat
<1>1. IsFiniteSet(In(P))
  BY RequestsFinite, FS_Subset DEF In
<1> QED
  BY <1>1, FS_CardinalityType

(* A request that enters, leaves or stays out of a group of points changes *)
(* the group's size by one or not at all.                                  *)
LEMMA Enters ==
  ASSUME NEW P, NEW T, pc \in [Requests -> T], NEW r \in Requests, NEW to \in T,
         pc' = [pc EXCEPT ![r] = to], pc[r] \notin P, to \in P
  PROVE  Cardinality(In(P)') = Cardinality(In(P)) + 1
<1>1. In(P)' = In(P) \cup {r} /\ r \notin In(P)
  BY DEF In
<1> QED
  BY <1>1, InFinite, FS_AddElement

LEMMA Leaves ==
  ASSUME NEW P, NEW T, pc \in [Requests -> T], NEW r \in Requests, NEW to \in T,
         pc' = [pc EXCEPT ![r] = to], pc[r] \in P, to \notin P
  PROVE  Cardinality(In(P)') = Cardinality(In(P)) - 1
<1>1. In(P)' = In(P) \ {r} /\ r \in In(P)
  BY DEF In
<1> QED
  BY <1>1, InFinite, FS_RemoveElement

LEMMA Stays ==
  ASSUME NEW P, NEW T, pc \in [Requests -> T], NEW r \in Requests, NEW to \in T,
         pc' = [pc EXCEPT ![r] = to], pc[r] \in P <=> to \in P
  PROVE  In(P)' = In(P)
BY DEF In

-----------------------------------------------------------------------------
Pcs == {"idle", "done", "aborted"} \cup Served \cup Window \cup Counted
TunnelPcs == {"check", "dial", "hijack"} \cup Window \cup Counted
After == {"uncount", "remove", "release", "done"}
Closed == {"closing", "waiting", "reading", "exiting", "exited"}

(* Only a CONNECT is ever on the path of a tunnel.                         *)
Kinds == \A r \in Requests : pc[r] \in TunnelPcs => r \in Connects

(* The map and the WaitGroup say where the handlers are.                   *)
Books == tunnels = In(Registered) /\ wg = Cardinality(In(Counted))

(* A tunnel that was started is between its registration and its return,   *)
(* and is past its finish only with a record.                              *)
Started ==
  \A r \in Requests :
    /\ pc[r] \in Counted => r \in started
    /\ r \in started => pc[r] \in Counted \cup {"done"}
    /\ r \in started /\ pc[r] \in After => Recorded(r, Len(audit))

(* What each stage of the shutdown has achieved.                           *)
Stages ==
  /\ closing <=> main \in Closed
  /\ main = "closing" => In(Registered) \subseteq live
  /\ main \in Closed \ {"closing"} => In(Registered) \subseteq severed
  /\ main \in {"reading", "exiting", "exited"} /\ ~waitExpired
       => \A r \in started : Recorded(r, Len(audit))
  /\ main \in {"exiting", "exited"} /\ ~waitExpired
       => \A r \in started : Recorded(r, head)
  /\ head <= Len(audit)

IInv == TypeOK /\ Kinds /\ Books /\ Started /\ Stages

LEMMA PcFunction ==
  ASSUME TypeOK
  PROVE  pc \in [Requests -> Pcs]
BY DEF TypeOK, Pcs

LEMMA IInvInit == Init => IInv
<1> SUFFICES ASSUME Init PROVE IInv
  OBVIOUS
<1>1. TypeOK
  <2>1. <<>> \in Seq([req : Requests, status : Statuses])
    BY EmptySeq
  <2>2. pc \in [Requests -> {"idle", "done", "aborted"} \cup Served \cup Window \cup Counted]
    BY DEF Init
  <2>3. status \in [Requests -> Statuses] /\ main \in MainPcs
    BY DEF Init, Statuses, MainPcs
  <2>4. audit \in Seq([req : Requests, status : Statuses])
    BY <2>1 DEF Init
  <2>5. /\ unwritten \in SUBSET Requests /\ tunnels \in SUBSET Connects
        /\ live \in SUBSET Connects /\ severed \in SUBSET Connects
        /\ started \in SUBSET Connects
    BY DEF Init
  <2>6. /\ wg \in Nat /\ gauge \in Int /\ stranded \in Nat /\ head \in Nat
    BY DEF Init
  <2>7. closing \in BOOLEAN /\ drainExpired \in BOOLEAN /\ waitExpired \in BOOLEAN
    BY Zenon DEF Init
  <2> QED
    BY <2>2, <2>3, <2>4, <2>5, <2>6, <2>7 DEF TypeOK
<1>2. In(Registered) = {} /\ In(Counted) = {}
  BY DEF Init, In, Registered, Counted
<1>3. Books
  BY <1>2, FS_EmptySet DEF Init, Books
<1>4. Kinds /\ Started /\ Stages
  BY <1>2, EmptySeq DEF Init, Kinds, TunnelPcs, Window, Started, Counted, Stages, Closed
<1> QED
  BY <1>1, <1>3, <1>4 DEF IInv

(* A handler goes on, within the same group of points, and neither the     *)
(* books, the log nor the shutdown changes.                                *)
LEMMA QuietMove ==
  ASSUME IInv, NEW r \in Requests, NEW from \in Pcs, NEW to \in Pcs \ {"done"},
         Moves(r, from, to), from # "done",
         status' \in [Requests -> Statuses], gauge' \in Int,
         UNCHANGED <<audit, unwritten, tunnels, wg, started, shutdownVars>>,
         from \in Registered <=> to \in Registered,
         from \in Counted <=> to \in Counted,
         to \in After => from \in After,
         to \in TunnelPcs => r \in Connects
  PROVE  IInv'
<1>0. TypeOK /\ Kinds /\ Books /\ Started /\ Stages
  BY DEF IInv
<1>1. /\ pc \in [Requests -> Pcs]
      /\ pc[r] = from /\ pc' = [pc EXCEPT ![r] = to]
  BY <1>0, PcFunction DEF Moves
<1>2. TypeOK'
  <2>1. pc' \in [Requests -> Pcs]
    BY <1>1
  <2> QED
    BY <1>0, <2>1 DEF TypeOK, shutdownVars, Pcs
<1>3. Kinds'
  BY <1>0, <1>1 DEF Kinds
<1>4. In(Registered)' = In(Registered) /\ In(Counted)' = In(Counted)
  BY <1>1, Stays
<1>5. Books'
  BY <1>0, <1>4 DEF Books
<1>6. Started'
  <2> SUFFICES ASSUME NEW q \in Requests
               PROVE  /\ pc'[q] \in Counted => q \in started
                      /\ q \in started => pc'[q] \in Counted \cup {"done"}
                      /\ q \in started /\ pc'[q] \in After => Recorded(q, Len(audit))
    BY DEF Started, Recorded
  <2>1. CASE q = r
    BY <1>0, <1>1, <2>1 DEF Started
  <2>2. CASE q # r
    BY <1>0, <1>1, <2>2 DEF Started
  <2> QED
    BY <2>1, <2>2
<1>7. Stages'
  BY <1>0, <1>4 DEF Stages, shutdownVars, Recorded
<1> QED
  BY <1>2, <1>3, <1>5, <1>6, <1>7 DEF IInv

(* A record that is in the log stays where it is when the log grows.       *)
LEMMA RecordedStays ==
  ASSUME TypeOK, NEW x \in [req : Requests, status : Statuses], NEW q \in Requests,
         \/ audit' = Append(audit, x) /\ unwritten' = unwritten
         \/ audit' = audit /\ unwritten \subseteq unwritten',
         NEW n \in Nat, n <= Len(audit), Recorded(q, n)
  PROVE  Recorded(q, n)' /\ Recorded(q, Len(audit))'
<1> DEFINE S == [req : Requests, status : Statuses]
<1>1. audit \in Seq(S) /\ Len(audit) \in Nat
  BY LenProperties DEF TypeOK
<1>2. CASE audit' = audit /\ unwritten \subseteq unwritten'
  BY <1>1, <1>2 DEF Recorded
<1>3. CASE audit' = Append(audit, x) /\ unwritten' = unwritten
  <2>1. /\ Len(audit') = Len(audit) + 1
        /\ \A i \in 1..Len(audit) : audit'[i] = audit[i]
    BY <1>1, <1>3, AppendProperties
  <2> QED
    BY <1>1, <1>3, <2>1 DEF Recorded
<1> QED
  BY <1>2, <1>3

LEMMA FinishStep ==
  ASSUME IInv, NEW r \in Requests, Finish(r)
  PROVE  IInv'
<1> DEFINE x == [req |-> r, status |-> status[r]]
           to == AfterFinish(pc[r])
<1>0. TypeOK /\ Kinds /\ Books /\ Started /\ Stages
  BY DEF IInv
<1>1. /\ pc \in [Requests -> Pcs]
      /\ pc' = [pc EXCEPT ![r] = to]
      /\ pc[r] \in {"finish", "finishRefused", "finishTunnel"}
      /\ UNCHANGED <<status, tunnels, wg, gauge, started, shutdownVars>>
  BY <1>0, PcFunction DEF Finish
<1>2. \/ audit' = Append(audit, x) /\ unwritten' = unwritten
      \/ audit' = audit /\ unwritten' = unwritten \cup {r}
  BY DEF Finish
<1>3. x \in [req : Requests, status : Statuses] /\ Len(audit) \in Nat
  BY <1>0, LenProperties DEF TypeOK
<1>4. /\ to \in {"uncount", "done"} /\ to \in Pcs
      /\ pc[r] \in Counted <=> to = "uncount"
      /\ pc[r] \in Registered <=> to \in Registered
      /\ pc[r] \in Counted <=> to \in Counted
  BY <1>1 DEF AfterFinish, Pcs, Counted, Registered
<1>5. TypeOK'
  <2>1. audit' \in Seq([req : Requests, status : Statuses])
    <3>1. audit \in Seq([req : Requests, status : Statuses])
      BY <1>0 DEF TypeOK
    <3> HIDE DEF x
    <3>2. CASE audit' = audit
      BY <3>1, <3>2
    <3>3. CASE audit' = Append(audit, x)
      BY <1>3, <3>1, <3>3, AppendProperties
    <3> QED
      BY <1>2, <3>2, <3>3
  <2>2. unwritten' \in SUBSET Requests /\ pc' \in [Requests -> Pcs]
    BY <1>0, <1>1, <1>2, <1>4 DEF TypeOK
  <2> QED
    BY <1>0, <1>1, <2>1, <2>2 DEF TypeOK, shutdownVars, Pcs
<1>6. Kinds'
  BY <1>0, <1>1, <1>4 DEF Kinds, TunnelPcs, Counted, Window
<1>7. In(Registered)' = In(Registered) /\ In(Counted)' = In(Counted)
  BY <1>1, <1>4, Stays
<1>8. Books'
  BY <1>0, <1>1, <1>7 DEF Books
<1>9. \A q \in Requests, n \in Nat :
         n <= Len(audit) /\ Recorded(q, n) => Recorded(q, n)' /\ Recorded(q, Len(audit))'
  BY <1>0, <1>2, <1>3, RecordedStays
<1>10. Recorded(r, Len(audit))'
  <2>1. CASE audit' = audit /\ unwritten' = unwritten \cup {r}
    BY <2>1 DEF Recorded
  <2>2. CASE audit' = Append(audit, x) /\ unwritten' = unwritten
    <3>1. Len(audit') = Len(audit) + 1 /\ audit'[Len(audit) + 1] = x
      BY <1>0, <1>3, <2>2, AppendProperties DEF TypeOK
    <3>2. Len(audit) + 1 \in 1..Len(audit') /\ x.req = r
      BY <1>3, <3>1
    <3> QED
      BY <3>1, <3>2 DEF Recorded
  <2> QED
    BY <1>2, <2>1, <2>2
<1>11. Started'
  <2> SUFFICES ASSUME NEW q \in Requests
               PROVE  /\ pc'[q] \in Counted => q \in started
                      /\ q \in started => pc'[q] \in Counted \cup {"done"}
                      /\ q \in started /\ pc'[q] \in After => Recorded(q, Len(audit))'
    BY <1>1 DEF Started
  <2>1. CASE q = r
    BY <1>0, <1>1, <1>4, <1>10, <2>1 DEF Started
  <2>2. CASE q # r
    <3>1. pc'[q] = pc[q]
      BY <1>1, <2>2
    <3> QED
      BY <1>0, <1>3, <1>9, <3>1 DEF Started
  <2> QED
    BY <2>1, <2>2
<1>12. Stages'
  <2>1. Len(audit) <= Len(audit)' /\ Len(audit)' \in Nat
    BY <1>0, <1>2, <1>3, AppendProperties DEF TypeOK
  <2>2. started \subseteq Requests /\ head \in Nat
    BY <1>0 DEF TypeOK, Requests
  <2>3. /\ UNCHANGED <<closing, main, live, severed, waitExpired, head, started>>
    BY <1>1 DEF shutdownVars
  <2>4. /\ closing' <=> main' \in Closed
        /\ main' = "closing" => In(Registered)' \subseteq live'
        /\ main' \in Closed \ {"closing"} => In(Registered)' \subseteq severed'
        /\ head' <= Len(audit)'
    BY <1>0, <1>3, <1>7, <2>1, <2>2, <2>3 DEF Stages
  <2>5. main' \in {"reading", "exiting", "exited"} /\ ~waitExpired'
          => \A q \in started' : Recorded(q, Len(audit))'
    BY <1>0, <1>3, <1>9, <2>2, <2>3 DEF Stages
  <2>6. main' \in {"exiting", "exited"} /\ ~waitExpired'
          => \A q \in started' : Recorded(q, head)'
    BY <1>0, <1>9, <2>2, <2>3 DEF Stages
  <2> QED
    BY <2>4, <2>5, <2>6 DEF Stages
<1> QED
  BY <1>5, <1>6, <1>8, <1>11, <1>12 DEF IInv

-----------------------------------------------------------------------------
LEMMA RegisterStep ==
  ASSUME IInv, NEW r \in Requests, RegisterTunnel(r)
  PROVE  IInv'
<1>0. TypeOK /\ Kinds /\ Books /\ Started /\ Stages
  BY DEF IInv
<1>1. /\ pc \in [Requests -> Pcs]
      /\ pc[r] = "register" /\ pc' = [pc EXCEPT ![r] = "count"]
      /\ tunnels' = tunnels \cup {r} /\ wg' = wg + 1 /\ started' = started \cup {r}
      /\ ~closing
      /\ UNCHANGED <<status, audit, unwritten, gauge, shutdownVars>>
  BY <1>0, PcFunction DEF RegisterTunnel, Moves
<1>2. r \in Connects
  BY <1>0, <1>1 DEF Kinds, TunnelPcs, Window
<1>3. "count" \in Pcs
  BY DEF Pcs, Counted
<1>4. In(Registered)' = In(Registered) \cup {r}
  BY <1>1, <1>3 DEF In, Registered, Counted
<1>5. Cardinality(In(Counted)') = Cardinality(In(Counted)) + 1
  BY <1>1, <1>3, Enters DEF Counted
<1>6. TypeOK'
  <2>1. pc' \in [Requests -> Pcs]
    BY <1>1, <1>3
  <2> QED
    BY <1>0, <1>1, <1>2, <2>1 DEF TypeOK, shutdownVars, Pcs
<1>7. Kinds'
  BY <1>0, <1>1, <1>2 DEF Kinds
<1>8. Books'
  BY <1>0, <1>1, <1>4, <1>5 DEF Books
<1>9. Started'
  <2> SUFFICES ASSUME NEW q \in Requests
               PROVE  /\ pc'[q] \in Counted => q \in started'
                      /\ q \in started' => pc'[q] \in Counted \cup {"done"}
                      /\ q \in started' /\ pc'[q] \in After => Recorded(q, Len(audit))
    BY <1>1 DEF Started, Recorded
  <2>1. CASE q = r
    BY <1>1, <1>3, <2>1 DEF Counted, After
  <2>2. CASE q # r
    BY <1>0, <1>1, <2>2 DEF Started
  <2> QED
    BY <2>1, <2>2
<1>10. Stages'
  <2>1. main \notin Closed
    BY <1>0, <1>1 DEF Stages
  <2> QED
    BY <1>0, <1>1, <2>1 DEF Stages, Closed, shutdownVars
<1> QED
  BY <1>6, <1>7, <1>8, <1>9, <1>10 DEF IInv

LEMMA RemoveStep ==
  ASSUME IInv, NEW r \in Requests, RemoveTunnel(r)
  PROVE  IInv'
<1>0. TypeOK /\ Kinds /\ Books /\ Started /\ Stages
  BY DEF IInv
<1>1. /\ pc \in [Requests -> Pcs]
      /\ pc[r] = "remove" /\ pc' = [pc EXCEPT ![r] = "release"]
      /\ tunnels' = tunnels \ {r}
      /\ UNCHANGED <<status, audit, unwritten, wg, gauge, started, shutdownVars>>
  BY <1>0, PcFunction DEF RemoveTunnel, Moves
<1>2. "release" \in Pcs
  BY DEF Pcs, Counted
<1>3. In(Registered)' = In(Registered) \ {r}
  BY <1>1, <1>2 DEF In, Registered
<1>4. In(Counted)' = In(Counted)
  BY <1>1, <1>2, Stays DEF Counted
<1>5. TypeOK'
  <2>1. pc' \in [Requests -> Pcs]
    BY <1>1, <1>2
  <2> QED
    BY <1>0, <1>1, <2>1 DEF TypeOK, shutdownVars, Pcs
<1>6. Kinds'
  BY <1>0, <1>1 DEF Kinds, TunnelPcs, Counted
<1>7. Books'
  BY <1>0, <1>1, <1>3, <1>4 DEF Books
<1>8. Started'
  <2> SUFFICES ASSUME NEW q \in Requests
               PROVE  /\ pc'[q] \in Counted => q \in started
                      /\ q \in started => pc'[q] \in Counted \cup {"done"}
                      /\ q \in started /\ pc'[q] \in After => Recorded(q, Len(audit))
    BY <1>1 DEF Started, Recorded
  <2>1. CASE q = r
    BY <1>0, <1>1, <2>1 DEF Started, Counted, After
  <2>2. CASE q # r
    BY <1>0, <1>1, <2>2 DEF Started
  <2> QED
    BY <2>1, <2>2
<1>9. Stages'
  BY <1>0, <1>1, <1>3 DEF Stages, shutdownVars, Recorded
<1> QED
  BY <1>5, <1>6, <1>7, <1>8, <1>9 DEF IInv

LEMMA ReleaseStep ==
  ASSUME IInv, NEW r \in Requests, ReleaseWait(r)
  PROVE  IInv'
<1>0. TypeOK /\ Kinds /\ Books /\ Started /\ Stages
  BY DEF IInv
<1>1. /\ pc \in [Requests -> Pcs]
      /\ pc[r] = "release" /\ pc' = [pc EXCEPT ![r] = "done"]
      /\ wg' = wg - 1
      /\ UNCHANGED <<status, audit, unwritten, tunnels, gauge, started, shutdownVars>>
  BY <1>0, PcFunction DEF ReleaseWait, Moves
<1>2. "done" \in Pcs /\ "done" \notin Counted
  BY DEF Pcs, Counted
<1>3. In(Registered)' = In(Registered)
  BY <1>1, <1>2, Stays DEF Registered
<1>4. Cardinality(In(Counted)') = Cardinality(In(Counted)) - 1
  BY <1>1, <1>2, Leaves DEF Counted
<1>5. Cardinality(In(Counted)') \in Nat
  BY <1>2, <1>1, RequestsFinite, FS_Subset, FS_CardinalityType DEF In
<1>6. TypeOK'
  <2>1. pc' \in [Requests -> Pcs]
    BY <1>1, <1>2
  <2>2. wg' \in Nat
    BY <1>0, <1>1, <1>4, <1>5 DEF Books
  <2> QED
    BY <1>0, <1>1, <2>1, <2>2 DEF TypeOK, shutdownVars, Pcs
<1>7. Kinds'
  BY <1>0, <1>1 DEF Kinds, TunnelPcs, Counted, Window
<1>8. Books'
  BY <1>0, <1>1, <1>3, <1>4 DEF Books
<1>9. Started'
  <2> SUFFICES ASSUME NEW q \in Requests
               PROVE  /\ pc'[q] \in Counted => q \in started
                      /\ q \in started => pc'[q] \in Counted \cup {"done"}
                      /\ q \in started /\ pc'[q] \in After => Recorded(q, Len(audit))
    BY <1>1 DEF Started, Recorded
  <2>1. CASE q = r
    BY <1>0, <1>1, <2>1 DEF Started, Counted, After
  <2>2. CASE q # r
    BY <1>0, <1>1, <2>2 DEF Started
  <2> QED
    BY <2>1, <2>2
<1>10. Stages'
  BY <1>0, <1>1, <1>3 DEF Stages, shutdownVars, Recorded
<1> QED
  BY <1>6, <1>7, <1>8, <1>9, <1>10 DEF IInv

(* The steps that only settle a status or go on, outside the books.        *)
LEMMA SettlesStep ==
  ASSUME IInv, NEW r \in Requests, NEW from \in Pcs \ After, NEW to \in Pcs \ After,
         NEW s \in Statuses,
         Settles(r, from, to, s) \/ GoesOn(r, from, to),
         from \in Counted <=> to \in Counted,
         to \in TunnelPcs => from \in TunnelPcs \/ r \in Connects
  PROVE  IInv'
<1>0. TypeOK /\ Kinds
  BY DEF IInv
<1>1. /\ Moves(r, from, to)
      /\ status' \in [Requests -> Statuses]
      /\ UNCHANGED <<handlerVars, shutdownVars>>
  BY <1>0 DEF Settles, GoesOn, WithStatus, TypeOK
<1>2. /\ to \in TunnelPcs => r \in Connects
      /\ from \in Registered <=> to \in Registered
      /\ to # "done" /\ from # "done"
  BY <1>0, <1>1 DEF Kinds, Moves, Registered, After
<1>3. gauge' \in Int /\ UNCHANGED <<audit, unwritten, tunnels, wg, started, shutdownVars>>
  BY <1>0, <1>1 DEF handlerVars, TypeOK
<1> QED
  BY <1>1, <1>2, <1>3, QuietMove

LEMMA GaugeStep ==
  ASSUME IInv, NEW r \in Requests, GaugeInc(r) \/ GaugeDec(r)
  PROVE  IInv'
<1>0. TypeOK /\ Kinds
  BY DEF IInv
<1>1. /\ status' \in [Requests -> Statuses] /\ gauge' \in Int
      /\ UNCHANGED <<audit, unwritten, tunnels, wg, started, shutdownVars>>
  BY <1>0 DEF GaugeInc, GaugeDec, TypeOK
<1>2. {"count", "pump", "uncount", "remove"} \subseteq Pcs \cap Counted \cap Registered
  BY DEF Pcs, Counted, Registered
<1>3. r \in Connects
  BY <1>0 DEF GaugeInc, GaugeDec, Moves, Kinds, TunnelPcs, Counted
<1>4. CASE GaugeInc(r)
  <2>1. Moves(r, "count", "pump")
    BY <1>4 DEF GaugeInc
  <2> QED
    BY <1>1, <1>2, <1>3, <2>1, QuietMove DEF After
<1>5. CASE GaugeDec(r)
  <2>1. Moves(r, "uncount", "remove")
    BY <1>5 DEF GaugeDec
  <2> QED
    BY <1>1, <1>2, <1>3, <2>1, QuietMove DEF After
<1> QED
  BY <1>4, <1>5

(* The handler's steps on the way to a tunnel, past one, or without one.   *)
QuietSteps(r) ==
  \/ Arrive(r) \/ JudgeRefused(r) \/ JudgeAllowed(r) \/ CheckClosing(r)
  \/ DialFails(r) \/ DialSucceeds(r) \/ HijackFails(r) \/ HijackSucceeds(r)
  \/ GreetFails(r) \/ GreetSucceeds(r) \/ RegisterRefused(r) \/ PumpEnds(r)
  \/ RoundTripFails(r) \/ RoundTripSucceeds(r) \/ CopyEnds(r) \/ WriteHeaderPanics(r)

LEMMA QuietStep ==
  ASSUME IInv, NEW r \in Requests, QuietSteps(r)
  PROVE  IInv'
<1> DEFINE Plain == {"idle", "judge", "check", "dial", "hijack", "greet", "register",
                     "roundTrip", "copy", "finish", "finishRefused", "aborted"}
<1>0. /\ Plain \subseteq Pcs \ After
      /\ {"pump", "finishTunnel"} \subseteq Pcs \ After
      /\ \A p \in Plain : p \notin Counted
      /\ {"pump", "finishTunnel"} \subseteq Counted
  BY DEF Pcs, Served, Window, Counted, After
<1>1. {200, 400, 403, 500, 502, 503} \subseteq Statuses
  BY DEF Statuses
<1>2. /\ {"check", "dial", "hijack", "greet", "register", "finishRefused",
          "pump", "finishTunnel"} \subseteq TunnelPcs
      /\ {"idle", "judge", "roundTrip", "copy", "finish", "aborted"} \cap TunnelPcs = {}
  BY DEF TunnelPcs, Window, Counted
<1>3. CASE Arrive(r)
  BY <1>0, <1>1, <1>2, <1>3, SettlesStep DEF Arrive
<1>4. CASE JudgeRefused(r)
  <2>1. PICK s \in {400, 403} : Settles(r, "judge", "finish", s)
    BY <1>4 DEF JudgeRefused
  <2> QED
    BY <1>0, <1>1, <1>2, <2>1, SettlesStep
<1>5. CASE JudgeAllowed(r)
  <2>1. CASE r \in Connects
    BY <1>0, <1>1, <1>2, <1>5, <2>1, SettlesStep DEF JudgeAllowed
  <2>2. CASE r \notin Connects
    BY <1>0, <1>1, <1>2, <1>5, <2>2, SettlesStep DEF JudgeAllowed
  <2> QED
    BY <2>1, <2>2
<1>6. CASE CheckClosing(r)
  <2>1. CASE Settles(r, "check", "finish", 503)
    BY <1>0, <1>1, <1>2, <2>1, SettlesStep
  <2>2. CASE GoesOn(r, "check", "dial")
    BY <1>0, <1>1, <1>2, <2>2, SettlesStep
  <2> QED
    BY <1>6, <2>1, <2>2 DEF CheckClosing
<1>7. CASE DialFails(r) \/ DialSucceeds(r)
  <2>1. CASE DialFails(r)
    BY <1>0, <1>1, <1>2, <2>1, SettlesStep DEF DialFails
  <2>2. CASE DialSucceeds(r)
    BY <1>0, <1>1, <1>2, <2>2, SettlesStep DEF DialSucceeds
  <2> QED
    BY <1>7, <2>1, <2>2
<1>8. CASE HijackFails(r) \/ HijackSucceeds(r)
  <2>1. CASE HijackFails(r)
    BY <1>0, <1>1, <1>2, <2>1, SettlesStep DEF HijackFails
  <2>2. CASE HijackSucceeds(r)
    BY <1>0, <1>1, <1>2, <2>2, SettlesStep DEF HijackSucceeds
  <2> QED
    BY <1>8, <2>1, <2>2
<1>9. CASE GreetFails(r) \/ GreetSucceeds(r)
  <2>1. CASE GreetFails(r)
    BY <1>0, <1>1, <1>2, <2>1, SettlesStep DEF GreetFails
  <2>2. CASE GreetSucceeds(r)
    BY <1>0, <1>1, <1>2, <2>2, SettlesStep DEF GreetSucceeds
  <2> QED
    BY <1>9, <2>1, <2>2
<1>10. CASE RegisterRefused(r)
  BY <1>0, <1>1, <1>2, <1>10, SettlesStep DEF RegisterRefused
<1>11. CASE PumpEnds(r)
  BY <1>0, <1>1, <1>2, <1>11, SettlesStep DEF PumpEnds
<1>12. CASE RoundTripFails(r) \/ RoundTripSucceeds(r)
  <2>1. CASE RoundTripFails(r)
    BY <1>0, <1>1, <1>2, <2>1, SettlesStep DEF RoundTripFails
  <2>2. CASE RoundTripSucceeds(r)
    BY <1>0, <1>1, <1>2, <2>2, SettlesStep DEF RoundTripSucceeds
  <2> QED
    BY <1>12, <2>1, <2>2
<1>13. CASE CopyEnds(r)
  BY <1>0, <1>1, <1>2, <1>13, SettlesStep DEF CopyEnds
<1>14. CASE WriteHeaderPanics(r)
  BY <1>0, <1>1, <1>2, <1>14, SettlesStep DEF WriteHeaderPanics
<1> QED
  BY <1>3, <1>4, <1>5, <1>6, <1>7, <1>8, <1>9, <1>10, <1>11, <1>12, <1>13, <1>14
  DEF QuietSteps

-----------------------------------------------------------------------------
(* The goroutine of cmdServe changes nothing of the handlers'.             *)
LEMMA MainLeavesHandlers ==
  ASSUME IInv, NEW from, NEW to, MainMoves(from, to)
  PROVE  /\ main = from /\ main' = to
         /\ UNCHANGED <<pc, status, audit, unwritten, tunnels, wg, gauge, started>>
         /\ Kinds' /\ Books' /\ Started'
         /\ In(Registered)' = In(Registered)
<1>0. Kinds /\ Books /\ Started
  BY DEF IInv
<1>1. /\ main = from /\ main' = to
      /\ UNCHANGED <<pc, status, audit, unwritten, tunnels, wg, gauge, started>>
  BY DEF MainMoves, handlerVars
<1>2. In(Registered)' = In(Registered) /\ In(Counted)' = In(Counted)
  BY <1>1 DEF In
<1>3. Kinds' /\ Books' /\ Started'
  BY <1>0, <1>1, <1>2 DEF Kinds, Books, Started, Recorded
<1> QED
  BY <1>1, <1>2, <1>3

LEMMA StutterStep ==
  ASSUME IInv, UNCHANGED vars
  PROVE  IInv'
<1>1. In(Registered)' = In(Registered) /\ In(Counted)' = In(Counted)
  BY DEF vars, In
<1> QED
  BY <1>1
  DEF IInv, TypeOK, Kinds, Books, Started, Stages, Recorded, vars, handlerVars, shutdownVars

(* The steps before the shutdown reaches the tunnels, and the last ones.   *)
LEMMA OutsideStep ==
  ASSUME IInv,
         \/ StopSignal \/ ServerFails \/ DrainDone \/ DrainExpires \/ FailedExit
         \/ Exit
  PROVE  IInv'
<1>0. TypeOK /\ Kinds /\ Books /\ Started /\ Stages
  BY DEF IInv
<1>1. CASE StopSignal \/ ServerFails \/ DrainDone \/ DrainExpires \/ FailedExit
  <2>1. PICK from \in {"serving", "draining", "failDraining"},
             to \in {"draining", "failDraining", "drained", "failed"} :
               /\ MainMoves(from, to)
               /\ drainExpired' \in BOOLEAN
               /\ UNCHANGED <<closing, live, severed, waitExpired, stranded, head>>
    BY <1>0, <1>1 DEF StopSignal, ServerFails, DrainDone, DrainExpires, FailedExit, TypeOK
  <2>2. TypeOK'
    BY <1>0, <2>1, MainLeavesHandlers DEF TypeOK, MainPcs
  <2>3. Stages'
    BY <1>0, <2>1, MainLeavesHandlers DEF Stages, Closed
  <2> QED
    BY <2>1, <2>2, <2>3, MainLeavesHandlers DEF IInv
<1>2. CASE Exit
  <2>1. /\ MainMoves("exiting", "exited")
        /\ UNCHANGED <<closing, live, severed, drainExpired, waitExpired, stranded, head>>
    BY <1>2 DEF Exit
  <2>2. TypeOK'
    BY <1>0, <2>1, MainLeavesHandlers DEF TypeOK, MainPcs
  <2>3. Stages'
    BY <1>0, <2>1, MainLeavesHandlers DEF Stages, Closed, Recorded
  <2> QED
    BY <2>1, <2>2, <2>3, MainLeavesHandlers DEF IInv
<1> QED
  BY <1>1, <1>2

LEMMA BeginClosingStep ==
  ASSUME IInv, BeginClosing
  PROVE  IInv'
<1>0. TypeOK /\ Books /\ Stages
  BY DEF IInv
<1>1. /\ MainMoves("drained", "closing")
      /\ closing' = TRUE /\ live' = tunnels
      /\ UNCHANGED <<severed, drainExpired, waitExpired, stranded, head>>
  BY DEF BeginClosing
<1>2. TypeOK'
  BY <1>0, <1>1, MainLeavesHandlers DEF TypeOK, MainPcs
<1>3. Stages'
  BY <1>0, <1>1, MainLeavesHandlers DEF Stages, Closed, Books
<1> QED
  BY <1>1, <1>2, <1>3, MainLeavesHandlers DEF IInv

LEMMA SeverStep ==
  ASSUME IInv, SeverLive
  PROVE  IInv'
<1>0. TypeOK /\ Stages
  BY DEF IInv
<1>1. /\ MainMoves("closing", "waiting")
      /\ severed' = severed \cup live
      /\ UNCHANGED <<closing, live, drainExpired, waitExpired, stranded, head>>
  BY DEF SeverLive
<1>2. TypeOK'
  BY <1>0, <1>1, MainLeavesHandlers DEF TypeOK, MainPcs
<1>3. Stages'
  BY <1>0, <1>1, MainLeavesHandlers DEF Stages, Closed
<1> QED
  BY <1>1, <1>2, <1>3, MainLeavesHandlers DEF IInv

(* At zero no handler holds a count, so every tunnel is past its finish.   *)
LEMMA ZeroMeansRecorded ==
  ASSUME IInv, wg = 0, NEW r \in started
  PROVE  Recorded(r, Len(audit))
<1>0. TypeOK /\ Books /\ Started
  BY DEF IInv
<1>1. In(Counted) = {}
  BY <1>0, InFinite, FS_EmptySet DEF Books
<1>2. r \in Requests
  BY <1>0 DEF TypeOK, Requests
<1>3. pc[r] = "done"
  BY <1>0, <1>1, <1>2 DEF Started, In
<1> QED
  BY <1>0, <1>2, <1>3 DEF Started, After

LEMMA WaitStep ==
  ASSUME IInv, WaitDone \/ WaitExpires
  PROVE  IInv'
<1>0. TypeOK /\ Books /\ Stages
  BY DEF IInv
<1>1. CASE WaitDone
  <2>1. /\ wg = 0
        /\ MainMoves("waiting", "reading")
        /\ UNCHANGED <<closing, live, severed, drainExpired, waitExpired, stranded, head>>
    BY <1>1 DEF WaitDone
  <2>2. TypeOK'
    BY <1>0, <2>1, MainLeavesHandlers DEF TypeOK, MainPcs
  <2>3. \A r \in started : Recorded(r, Len(audit))
    BY <2>1, ZeroMeansRecorded
  <2>4. Stages'
    BY <1>0, <2>1, <2>3, MainLeavesHandlers DEF Stages, Closed, Recorded
  <2> QED
    BY <2>1, <2>2, <2>4, MainLeavesHandlers DEF IInv
<1>2. CASE WaitExpires
  <2>1. /\ MainMoves("waiting", "reading")
        /\ waitExpired' = TRUE /\ stranded' = Cardinality(tunnels)
        /\ UNCHANGED <<closing, live, severed, drainExpired, head>>
    BY <1>2 DEF WaitExpires
  <2>2. stranded' \in Nat
    BY <1>0, <2>1, InFinite DEF Books
  <2>3. TypeOK'
    BY <1>0, <2>1, <2>2, MainLeavesHandlers DEF TypeOK, MainPcs
  <2>4. Stages'
    BY <1>0, <2>1, MainLeavesHandlers DEF Stages, Closed
  <2> QED
    BY <2>1, <2>3, <2>4, MainLeavesHandlers DEF IInv
<1> QED
  BY <1>1, <1>2

LEMMA ReadHeadStep ==
  ASSUME IInv, ReadHead
  PROVE  IInv'
<1>0. TypeOK /\ Stages
  BY DEF IInv
<1>1. /\ MainMoves("reading", "exiting")
      /\ head' = Len(audit)
      /\ UNCHANGED <<closing, live, severed, drainExpired, waitExpired, stranded>>
  BY DEF ReadHead
<1>2. Len(audit) \in Nat
  BY <1>0, LenProperties DEF TypeOK
<1>3. TypeOK'
  BY <1>0, <1>1, <1>2, MainLeavesHandlers DEF TypeOK, MainPcs
<1>4. Stages'
  BY <1>0, <1>1, <1>2, MainLeavesHandlers DEF Stages, Closed, Recorded
<1> QED
  BY <1>1, <1>3, <1>4, MainLeavesHandlers DEF IInv

-----------------------------------------------------------------------------
(* The inductive invariant is preserved by every step.                     *)
LEMMA IInvStep == IInv /\ [Next]_vars => IInv'
<1> SUFFICES ASSUME IInv, [Next]_vars PROVE IInv'
  OBVIOUS
<1>1. ASSUME NEW r \in Requests, Arrive(r) \/ HandlerStep(r) \/ PumpEnds(r) \/ CopyEnds(r)
      PROVE  IInv'
  <2>1. CASE QuietSteps(r)
    BY <2>1, QuietStep
  <2>2. CASE RegisterTunnel(r)
    BY <2>2, RegisterStep
  <2>3. CASE GaugeInc(r) \/ GaugeDec(r)
    BY <2>3, GaugeStep
  <2>4. CASE RemoveTunnel(r)
    BY <2>4, RemoveStep
  <2>5. CASE ReleaseWait(r)
    BY <2>5, ReleaseStep
  <2>6. CASE Finish(r)
    BY <2>6, FinishStep
  <2> QED
    BY <1>1, <2>1, <2>2, <2>3, <2>4, <2>5, <2>6 DEF HandlerStep, QuietSteps
<1>2. CASE StopSignal \/ ServerFails \/ WaitExpires \/ MainStep
  BY <1>2, OutsideStep, BeginClosingStep, SeverStep, WaitStep, ReadHeadStep DEF MainStep
<1>3. CASE Over \/ UNCHANGED vars
  BY <1>3, StutterStep DEF Over
<1> QED
  BY <1>1, <1>2, <1>3 DEF Next

(* The inductive invariant holds in every reachable state.                 *)
THEOREM IInvAlways == Spec => []IInv
<1> QED
  BY IInvInit, IInvStep, PTL DEF Spec

-----------------------------------------------------------------------------
(* Every variable keeps its type; in particular the WaitGroup's counter    *)
(* never goes below zero, where tunnelWG.Done panics.                      *)
THEOREM GateTypeCorrect == Spec => []TypeOK
<1>1. IInv => TypeOK
  BY DEF IInv
<1> QED
  BY <1>1, IInvAlways, PTL

(* tunnelWG at zero means every registered tunnel has its record.          *)
THEOREM WaitMeansRecordedAlways == Spec => []WaitMeansRecorded
<1>1. IInv => WaitMeansRecorded
  BY ZeroMeansRecorded DEF WaitMeansRecorded
<1> QED
  BY <1>1, IInvAlways, PTL

(* The head cmdServe prints at exit covers every registered tunnel, unless *)
(* Handler.Shutdown reported that it gave up waiting.                      *)
THEOREM HeadCoversTunnelsAlways == Spec => []HeadCoversTunnels
<1>1. IInv => HeadCoversTunnels
  BY DEF IInv, Stages, HeadCoversTunnels
<1> QED
  BY <1>1, IInvAlways, PTL

(* registerTunnel and Shutdown exclude each other on tunnelMu: no tunnel   *)
(* still copying is missing from those Shutdown has closed.                *)
THEOREM NoTunnelUnattendedAlways == Spec => []NoTunnelUnattended
<1>1. IInv => NoTunnelUnattended
  BY DEF IInv, Stages, Closed, In, Registered, Counted, NoTunnelUnattended
<1> QED
  BY <1>1, IInvAlways, PTL

(* Once closing is set no step registers a tunnel or adds to tunnelWG.     *)
THEOREM NoTunnelAfterClosingAlways == Spec => NoTunnelAfterClosing
<1>1. IInv /\ [Next]_vars => [closing => started' = started /\ wg' <= wg]_vars
  <2> SUFFICES ASSUME IInv, [Next]_vars, closing
               PROVE  started' = started /\ wg' <= wg
    OBVIOUS
  <2>0. wg \in Nat
    BY DEF IInv, TypeOK
  <2>1. ASSUME NEW r \in Requests, Arrive(r) \/ HandlerStep(r) \/ PumpEnds(r) \/ CopyEnds(r)
        PROVE  started' = started /\ wg' <= wg
    <3>1. CASE RegisterTunnel(r)
      BY <3>1 DEF RegisterTunnel
    <3>2. CASE RemoveTunnel(r) \/ ReleaseWait(r) \/ GaugeInc(r) \/ GaugeDec(r) \/ Finish(r)
      BY <2>0, <3>2 DEF RemoveTunnel, ReleaseWait, GaugeInc, GaugeDec, Finish
    <3>3. CASE UNCHANGED handlerVars
      BY <2>0, <3>3 DEF handlerVars
    <3> QED
      BY <2>1, <3>1, <3>2, <3>3
      DEF HandlerStep, Settles, GoesOn, Arrive, JudgeRefused, JudgeAllowed, CheckClosing,
          DialFails, DialSucceeds, HijackFails, HijackSucceeds, GreetFails, GreetSucceeds,
          RegisterRefused, PumpEnds, RoundTripFails, RoundTripSucceeds, WriteHeaderPanics, CopyEnds
  <2>2. CASE StopSignal \/ ServerFails \/ WaitExpires \/ MainStep
    <3>1. UNCHANGED handlerVars
      BY <2>2 DEF MainStep, MainMoves, StopSignal, ServerFails, DrainDone, DrainExpires,
                  BeginClosing, SeverLive, WaitDone, WaitExpires, ReadHead, Exit, FailedExit
    <3> QED
      BY <2>0, <3>1 DEF handlerVars
  <2>3. CASE UNCHANGED vars
    BY <2>0, <2>3 DEF vars, handlerVars
  <2> QED
    BY <2>1, <2>2, <2>3 DEF Next, Over
<1> QED
  BY <1>1, IInvAlways, PTL DEF Spec, NoTunnelAfterClosing

-----------------------------------------------------------------------------
Lost == {r \in started : ~Recorded(r, Len(audit))}

LEMMA LostFinite ==
  ASSUME IInv
  PROVE  IsFiniteSet(Lost) /\ Cardinality(Lost) \in Nat
<1>1. Lost \subseteq Connects
  BY DEF IInv, TypeOK, Lost
<1> QED
  BY <1>1, RequestsAssumption, FS_Subset, FS_CardinalityType

(* Once closing is set, a step never loses a record and only WaitExpires   *)
(* sets the number reported.                                               *)
LEMMA LostShrinks ==
  ASSUME IInv, [Next]_vars, closing
  PROVE  Lost' \subseteq Lost /\ (stranded' = stranded \/ WaitExpires)
<1>0. TypeOK /\ started \subseteq Requests /\ Len(audit) \in Nat
  BY LenProperties DEF IInv, TypeOK, Requests
<1>1. ASSUME NEW r \in Requests, Finish(r)
      PROVE  Lost' \subseteq Lost /\ stranded' = stranded
  <2>1. /\ started' = started /\ stranded' = stranded
    BY <1>1 DEF Finish, shutdownVars
  <2>2. [req |-> r, status |-> status[r]] \in [req : Requests, status : Statuses]
    BY <1>0 DEF TypeOK
  <2>3. \A q \in started : Recorded(q, Len(audit)) => Recorded(q, Len(audit))'
    BY <1>0, <1>1, <2>2, RecordedStays DEF Finish
  <2> QED
    BY <2>1, <2>3 DEF Lost
<1>2. CASE /\ UNCHANGED <<audit, unwritten, started>>
           /\ stranded' = stranded \/ WaitExpires
  BY <1>2 DEF Lost, Recorded
<1>3. ASSUME NEW r \in Requests, Arrive(r) \/ HandlerStep(r) \/ PumpEnds(r) \/ CopyEnds(r)
      PROVE  Lost' \subseteq Lost /\ stranded' = stranded
  <2>1. CASE Finish(r)
    BY <1>1, <2>1
  <2>2. CASE RegisterTunnel(r)
    BY <2>2 DEF RegisterTunnel
  <2>3. CASE RemoveTunnel(r) \/ ReleaseWait(r) \/ GaugeInc(r) \/ GaugeDec(r)
    BY <2>3
    DEF RemoveTunnel, ReleaseWait, GaugeInc, GaugeDec, shutdownVars, Lost, Recorded
  <2>4. CASE UNCHANGED <<handlerVars, shutdownVars>>
    BY <2>4 DEF handlerVars, shutdownVars, Lost, Recorded
  <2> QED
    BY <1>3, <2>1, <2>2, <2>3, <2>4
    DEF HandlerStep, Settles, GoesOn, Arrive, JudgeRefused, JudgeAllowed, CheckClosing,
        DialFails, DialSucceeds, HijackFails, HijackSucceeds, GreetFails, GreetSucceeds,
        RegisterRefused, PumpEnds, RoundTripFails, RoundTripSucceeds, WriteHeaderPanics, CopyEnds
<1>4. CASE StopSignal \/ ServerFails \/ WaitExpires \/ MainStep
  <2>1. UNCHANGED handlerVars /\ (stranded' = stranded \/ WaitExpires)
    BY <1>4 DEF MainStep, MainMoves, StopSignal, ServerFails, DrainDone, DrainExpires,
                BeginClosing, SeverLive, WaitDone, ReadHead, Exit, FailedExit, WaitExpires
  <2> QED
    BY <1>2, <2>1 DEF handlerVars
<1>5. CASE UNCHANGED vars
  BY <1>2, <1>5 DEF vars, handlerVars, shutdownVars
<1> QED
  BY <1>3, <1>4, <1>5 DEF Next, Over

(* A tunnel without a record is still registered when the wait gives up.   *)
LEMMA LostAreRegistered ==
  ASSUME IInv
  PROVE  Lost \subseteq tunnels
<1>0. TypeOK /\ Books /\ Started
  BY DEF IInv
<1> SUFFICES ASSUME NEW r \in Lost PROVE r \in tunnels
  OBVIOUS
<1>1. r \in Requests /\ r \in started /\ ~Recorded(r, Len(audit))
  BY <1>0 DEF Lost, TypeOK, Requests
<1>2. pc[r] \in Counted \cup {"done"} /\ pc[r] \notin After
  BY <1>0, <1>1 DEF Started
<1>3. pc[r] \in Registered
  BY <1>2 DEF Counted, Registered, After
<1> QED
  BY <1>0, <1>1, <1>3 DEF Books, In

(* However the stop ends, the number it reports is at least the number of  *)
(* tunnels without a record, then and until the process is gone.           *)
THEOREM StrandedCoversLostAlways == Spec => []StrandedCoversLost
<1> DEFINE Late == {"reading", "exiting", "exited"}
<1>1. StrandedCoversLost <=> (main \in Late => Cardinality(Lost) <= stranded)
  BY DEF StrandedCoversLost, Lost
<1>2. Init => StrandedCoversLost
  BY DEF Init, StrandedCoversLost
<1>3. IInv /\ IInv' /\ StrandedCoversLost /\ [Next]_vars => StrandedCoversLost'
  <2> SUFFICES ASSUME IInv, IInv', StrandedCoversLost, [Next]_vars, main' \in Late
               PROVE  Cardinality(Lost') <= stranded'
    BY DEF StrandedCoversLost, Lost
  <2>0. /\ IsFiniteSet(Lost) /\ Cardinality(Lost) \in Nat /\ Cardinality(Lost') \in Nat
        /\ IsFiniteSet(tunnels) /\ stranded \in Nat
    <3>1. IsFiniteSet(Lost) /\ Cardinality(Lost) \in Nat
      BY LostFinite
    <3>2. Lost' \subseteq Connects
      BY DEF IInv, TypeOK, Lost
    <3>3. tunnels \subseteq Connects /\ stranded \in Nat
      BY DEF IInv, TypeOK
    <3> QED
      BY <3>1, <3>2, <3>3, RequestsAssumption, FS_Subset, FS_CardinalityType
  <2>1. CASE WaitExpires
    <3>1. stranded' = Cardinality(tunnels) /\ Lost' = Lost
      BY <2>1 DEF WaitExpires, MainMoves, handlerVars, Lost, Recorded
    <3> QED
      BY <2>0, <3>1, LostAreRegistered, FS_Subset
  <2>2. CASE WaitDone
    <3>1. wg = 0 /\ Lost' = Lost /\ stranded' = stranded
      BY <2>2 DEF WaitDone, MainMoves, handlerVars, Lost, Recorded
    <3>2. Lost = {}
      BY <3>1, ZeroMeansRecorded DEF Lost
    <3> QED
      BY <2>0, <3>1, <3>2, FS_EmptySet
  <2>3. CASE ~WaitExpires /\ ~WaitDone
    <3>1. main \in Late
      <4>1. ASSUME NEW r \in Requests,
                   Arrive(r) \/ HandlerStep(r) \/ PumpEnds(r) \/ CopyEnds(r)
            PROVE  main' = main
        BY <4>1
        DEF HandlerStep, Settles, GoesOn, Arrive, JudgeRefused, JudgeAllowed, CheckClosing,
            DialFails, DialSucceeds, HijackFails, HijackSucceeds, GreetFails, GreetSucceeds,
            RegisterTunnel, RegisterRefused, GaugeInc, GaugeDec, RemoveTunnel, ReleaseWait,
            Finish, PumpEnds, RoundTripFails, RoundTripSucceeds, WriteHeaderPanics, CopyEnds, shutdownVars
      <4>2. CASE StopSignal \/ ServerFails \/ MainStep
        BY <2>3, <4>2
        DEF MainStep, MainMoves, StopSignal, ServerFails, DrainDone, DrainExpires,
            BeginClosing, SeverLive, ReadHead, Exit, FailedExit
      <4>3. CASE UNCHANGED vars
        BY <4>3 DEF vars, shutdownVars
      <4> QED
        BY <2>3, <4>1, <4>2, <4>3 DEF Next, Over
    <3>2. closing
      BY <3>1 DEF IInv, Stages, Closed
    <3>3. Lost' \subseteq Lost /\ stranded' = stranded
      BY <2>3, <3>2, LostShrinks
    <3>4. Cardinality(Lost') <= Cardinality(Lost)
      BY <2>0, <3>3, FS_Subset
    <3> QED
      BY <1>1, <2>0, <3>1, <3>3, <3>4
  <2> QED
    BY <2>1, <2>2, <2>3
<1> QED
  BY <1>2, <1>3, IInvAlways, PTL DEF Spec
=============================================================================
