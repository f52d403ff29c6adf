# agent-egress-gate in TLA+

`egressgate` is a forward proxy that lets a coding agent reach only the hosts a
policy names, and writes every decision to a hash-chained audit log. What the
program is trusted for is the log: that it is complete, that it verifies, and
that a crash does not look like tampering. This directory models that part
first: the chain, the file across restarts, and the handlers against the
shutdown that must not lose their records. Then come the bytes of an allowed request, as a
tunnel or as one exchange, and what the record says of them; what a reader may
conclude from a log, in segments or tampered with; and the policy: what its rules
mean, how it is replaced while requests are judged, and what `check` predicts.

## The system

| Component | State | Operations | Source |
|---|---|---|---|
| Audit chain | `Log.prev`, `Log.seq`, the lines of a log | `New`, `Resume`, `Append`, `Head`, `Verify`, `VerifyFrom` | `internal/audit/audit.go` |
| Audit file of `serve` | the file on disk, across processes | `existingChainHead`, `truncatePartialLine`, `appendMissingNewline` | `cmd/egressgate/run.go` |
| `verify` | none | exit codes 0, 1, 3 | `cmd/egressgate/run.go` |
| CONNECT handler | one goroutine per request; `tunnels`, `tunnelWG`, `closing` | `handleConnect`, `registerTunnel`, `pump`, `Shutdown` | `internal/proxy/connect.go`, `proxy.go` |
| Plain HTTP handler | one goroutine per request; the count of its request body, which the transport's goroutine advances | `handleHTTP`, `finish`, `countingReader` | `internal/proxy/proxy.go` |
| Shutdown of `serve` | the goroutine of `cmdServe`, two deadlines | `cmdServe`, `shutdown` | `cmd/egressgate/run.go` |
| Tunnel pump | two copiers; byte counts, one idle clock, two caps | `pump`, `cappedWriter`, `idleReader` | `internal/proxy/connect.go` |
| Policy engine | an immutable rule set | `Parse`, `validate`, `Evaluate` | `internal/policy/policy.go` |
| Policy store, admin server | an atomic pointer; reload counters | `Reload`, `/reload`, `/readyz` | `internal/policy/store.go`, `internal/adminsrv` |
| `check` | none | `requestFor`, the policy's answer | `cmd/egressgate/run.go` |
| Metrics, signals, scripts, Terraform | registrations, wiring | none that matter to the log | `internal/metrics`, `scripts`, `terraform` |

How they meet. A request reaches a handler; the handler asks the store, then
dials, hijacks and pumps (CONNECT) or forwards (HTTP), and calls `finish`,
once on every path on which the handler does not panic, which appends one record
under `Log.mu`. A tunnel's record is written when the tunnel ends, so `cmdServe` on a stop first drains the HTTP
servers, then closes and waits for the tunnels, then prints the head of the
chain. The next process reads the file, repairs its tail if a write was
interrupted, and resumes the chain.

What is hard in it, and what should hold:

* **Crashes** fall between any two steps of a start and inside any write. The
  log must still verify, keep every acknowledged record, and the next gate must
  start.
* **Failed writes, overlapping processes, odd text** break the chain's premises.
  Losing evidence may then be unavoidable; losing it silently is not.
* **The shutdown races every handler.** No tunnel may run unattended, the head
  must cover every tunnel, and what is lost must be counted.
* **Liveness.** A crash must not become a crash loop, and a stop must end.
* **Reloads race** each other, the operator's editor and the requests being
  judged. Only an accepted policy may be in force, and one policy decides.
* **Rules are text.** A pattern must not reach past a label, a prefix not past a
  segment, a constrained rule not into a tunnel, and `check` must not promise
  what the gate refuses.
* **Two copiers share a clock.** A tunnel must end when either direction does,
  when both connections are closed under it, and when it is idle, and for no
  other reason; a cap must be blamed when a byte was turned away, and only then.
* **A counter is read while it is written.** The record of a request takes the
  count of a body that may still be on its way.
* **A reader has the file and a hash.** Segments must add up to the whole, and
  whoever noted the head must not be shown another log.

`PROJECT.json` lists every hazard at its line with the properties that cover it.

## The modules

| Module | What it is |
|---|---|
| `AuditChain` | Operators only: what a record, a hash, a file are; `Verify`, `VerifyFrom`, `VerifyExit`. |
| `AppendOnlyChain` | The abstract promise: a sequence that grows by one at its end, and positions announced as written only once they are. |
| `AuditLog` | Gates on one file: start, repair, append, failed write, kill, stop. `EXTENDS AuditChain`. |
| `AuditReview` | What `verify` tells a reader: logs in segments, logs somebody edited. `EXTENDS AuditLog`. |
| `AuditChainProofs`, `AuditLogProofs`, `AuditReviewProofs` | Lemmas about the chain, theorems about `AuditLog` and `AuditReview`. |
| `GatePromise` | The abstract promise of a gate to those who read its log: what becomes of a request, what its record says of it, when the head is signed. |
| `Gate` | The handlers of one process and the goroutine that stops them; implements `GatePromise`. |
| `GateProofs`, `GateRecordProofs` | Theorems about `Gate`: its shutdown, and its records. |
| `TunnelPromise` | The abstract promise of a tunnel: bytes forwarded, a cap, a report at the end. |
| `TunnelPump` | The inside of one tunnel, step by step; implements `TunnelPromise`. |
| `PlainExchange` | One allowed plain request, from `RoundTrip` to its record, against the transport's write loop. |
| `Traffic` | `ServeHTTP`: one request is the one or the other. `EXTENDS TunnelPump, PlainExchange`. |
| `TunnelPumpProofs`, `TrafficProofs` | Theorems about the tunnel, and about the exchange and the two together. |
| `Policy` | Operators only: which documents `Parse` accepts and keeps, `Evaluate`, the 400 rules of the handlers, `check`. |
| `PolicyStore` | The policy in force under overlapping reloads, rewrites of the file and requests. `EXTENDS Policy`. |
| `PolicyRules` | Properties of what the rules in force mean, with reference definitions. `EXTENDS PolicyStore`. |
| `PolicyStoreProofs` | Theorems about `PolicyStore` and `PolicyRules`. |
| `MCAuditLog`, `MCGate`, `MCPolicy` | Model values for the instances TLC checks; `Traffic` and `TunnelPump` need none. |

### AuditChain

A hash *is* the history it was computed over: the sequence of
`<<seq, encoded body>>` pairs. That is SHA-256 without collisions, and nothing
else is assumed of it. A body stands for all fields of a record but `seq`,
`prev` and `hash`. `Garbled` bodies are those with text that is not valid UTF-8:
`encoding/json` writes an invalid byte as the escape `\ufffd`, reads the escape
as U+FFFD, and writes U+FFFD as itself, so decoding and encoding such a record
again yields different bytes (`Reencode`).

A file is its newline-terminated lines and the tail after the last newline; a
line is the sequence of pieces written on it, each a whole record or `Torn`, the
text of a record cut short. That is enough to tell apart every case `VerifyFrom`
tells apart: a record that fails to decode, trailing bytes after a record, a
jump in the sequence, a wrong `prev`, a wrong hash, a torn tail and a missing
final newline. The loop of `VerifyFrom` appears as what it computes: the number
of lines that hold before the first that does not, and the verdict on that line.

### AuditLog

| Action | Code |
|---|---|
| `Start` | `existingChainHead` up to the verdict of `Verify` |
| `FindLineEnd`, `CutBack` | `truncatePartialLine`: the search for the last newline, and the `Truncate` to it |
| `AppendMissingNewline` | the other repair |
| `Serve` | the open for append, `Resume`, the listeners |
| `AppendRecord`, `AppendFailed` | `Log.Append`, with the write succeeding or failing |
| `Kill`, `KillInWrite` | SIGKILL between two steps, or inside the write of `Append` |
| `Stop` | a graceful stop |

The start is several actions because a kill, or another gate, can come between
them. So is `truncatePartialLine`: `keep` is what the search found, and `CutBack`
truncates to it whatever the file has become since. The search itself is one
step, because the size that the `Seek` returns fixes what it looks at: nothing
but another truncation changes bytes below it. Lines are taken to be of one
length, so that a count of lines is a position; truncating beyond the end fills
up with zero bytes, which is one more `Torn` piece. `exposed` is history, the
acknowledged records that were appended while another gate was between its
search and its cut. Kills come from outside the program (`Kill` is external);
what one leaves of a line comes from the one `Write` of `Append`. `Append`
holds `Log.mu`, so it is one. `Exclusive` says that a gate is started only when
no other runs; `PartialWrites` says that a write that fails may leave bytes. The
file is what the kernel holds: a crash of the machine is not modelled, and the
code, which never syncs, does not claim to survive one.

### AuditReview

Pure operators on the files `AuditLog` leaves behind, evaluated while no gate is
in the middle of a step on the file. `Upto` and `Beyond` cut a file after a line,
`EndOf` is what `--from-head` and `--from-seq` take from the first part's result.
`Edits` is external, the hands of whoever holds the file: a line removed,
repeated, exchanged with another or reworded, with its hash left or computed
anew, or the log cut short. `ReadAs` is what a reader takes from a log: the
records that verify, as they decode.

### Gate

A handler's program counter moves through the points at which another goroutine
can be observed: `judge`, `check`, `dial`, `hijack`, `greet`, `register`,
`count`, `pump`, `finishTunnel`, `uncount`, `remove`, `release` for a CONNECT;
`judge`, `roundTrip`, `copy`, `finish` for a plain request. The deferred calls
of `handleConnect` run in reverse order, so the gauge drops before the tunnel is
removed, and `tunnelWG.Done` follows outside the mutex. `Served` is the set of
points at which the connection is still the HTTP server's, which is what
`http.Server.Shutdown` waits for; `Window` is where it is hijacked and not yet
registered. `main` follows `cmdServe`. The audit log is here the sequence of
records `Append` completed: `Append` may fail, and then the request is in
`unwritten`, which stands for the error line the gate logs. `PumpEnds` is the
one step that stands for all of `TunnelPump`, and `CopyEnds` for the response
body of `PlainExchange`. `WriteHeaderPanics` is the one panic modelled: the
transport passes on a status below 100, `WriteHeader` panics on it, the server
recovers, and the request ends (`aborted`) without a record and without a
reported failure, which `gate_unrecorded` shows to be against the comment on `finish`.

`GatePromise` knows no mutex, map, counter or deferred call. A request comes in,
may become a tunnel while the gate is open, and leaves: one record that says
what it was (200 for a CONNECT that was a tunnel and for no other, 503 only once
the gate is closing), or one failure reported, or nothing at all if its handler
panicked (`Abort`), the one way out that keeps less than the code's comments say. The head is
signed when no tunnel
is left, or after a number was told that is not below those left. `StageOf` and
`PhaseOf` are the mapping: a tunnel is a tunnel from its registration to its
`finish`, so the steps between `finish` and `tunnelWG.Done` are stutters, and
that the real head is read after them has to come from the WaitGroup.

### TunnelPump

One tunnel has two copying goroutines and `pump`, which waits for them. A copier
goes round `arm` (the read deadline), `wait` (the read), `touch` (the clock),
`write`, and through `judge` after a timeout.

| Action | Code |
|---|---|
| `Arm`, `ReadEarly`, `ReadData`, `ReadEOF`, `ReadFails`, `ReadTimesOut` | `idleReader.Read`, one action per outcome; `ReadEarly` is the buffered reader still holding bytes of the CONNECT packet |
| `Touch`, `Judge` | `idleClock.touch`, and the decision after a timeout |
| `WriteByte`, `WriteDone`, `WriteFails` | `cappedWriter.Write` into a connection that takes `Window` bytes before its peer reads |
| `FirstDone`, `CloseUpstream`, `Return` | `<-done`, the two closes of `closeBoth`, the second `<-done` and the return |
| `Sever` | `Handler.Shutdown` closing the tunnel's connections from outside |
| `Send`, `FinishSending`, `Reset`, `Take` | the peers |

Bytes are counted and never looked at. Time is kept as distances: `age` since the
clock was touched, `armed` until a deadline, each up to `Idle`. `Tick` is enabled
only when every goroutine is blocked: code takes no time, the peers and the
deadlines do. So a deadline never fires because the scheduler was slow, and what
the properties say of timeouts holds up to the time code takes. `quiet` is
history, the ticks since a byte was read, and like the
program's clock it knows nothing of writes. A read that starts past its deadline
fails at once even when bytes are waiting, which is what the runtime's poller
does; a copier that comes back from a long write meets this case.

### PlainExchange, Traffic

`RoundTrip` returns with the response header, and the transport's goroutine may
still be reading the request body through `countingReader`: read, then add, then
write to the wire, three steps between which the handler may take the count.
The upstream may answer at any time and the connection may go at any time; the
server may discard what is left of the body before it sends a response header.
These are external. `Traffic` lets one request turn out to be either, which is
how one run checks both.

### Policy, PolicyStore, PolicyRules

A host or a path is a sequence of pieces, with the separators as pieces of their
own, so that `evil` before `example` is one label and two pieces: matching on
text and matching on labels can differ, which is what the properties are about.
Lower case, spaces around a host and lower-case methods are kept apart from
their normal forms, because `validate` judges one and keeps the other. YAML is
abstracted to the document it decodes to, with one value for every text that is
not a single document with known keys. `Malformed` is what the handlers answer
with 400 before they ask the policy; `RequestFor` is what `check` asks instead.
`AsSent` is external: the request an ordinary client makes of a URL.

A reload is `ReadPolicy` (or `ReadFails`) and `Swap`, a decision `Ask`,
`LoadPointer` and `Decide`; nothing serialises any of them. `RewriteFile` is the
operator. A half-written file is one more document. `seen` and `quiet` are
history: the policies in force since a request came, and the reload that nothing
has overlapped. Two overlapping reloads may store the older content last, each
with a success for answer; the code has no claim against it, and
`ReloadTakesEffect` says what is left.

## The runs

| Run | Instance | Shows |
|---|---|---|
| `audit_restart` | 2 gates one after the other, 2 bodies, 3 appends, 3 kills | The log always verifies, the chain in memory is the file's, every acknowledged record is evidence, `verify` answers 3 for a crash and only then, a gate always serves again, and the file implements `AppendOnlyChain`. |
| `audit_faults` | the same with overlap, partial writes, one garbled body, 4 appends | Acknowledged bytes stay on disk and a loss is always reported by `Verify`, but for a record appended between another gate's search and its cut; no start repairs a broken log and, with the same exception, no repair hides a break. Wherever a log is cut, its parts verify as the whole does; no edit that keeps the head changes what a reader reads. |
| `audit_partial_write` | failed writes may leave bytes | Violated: a failed write costs more than its record. |
| `audit_garbled` | one garbled body | Violated: `Verify` rejects what `Append` wrote. |
| `audit_overlap` | 2 gates at once, 2 appends, 1 kill, no other fault | Violated: a gate that repairs a torn tail can cut off a record another gate has acknowledged, and the log verifies afterwards. |
| `gate_shutdown` | 2 CONNECTs, 1 plain request | Never two records for a request, and exactly one, or one reported failure, for each that ran to its end; the head covers every tunnel; nothing runs unattended; what is lost is counted; a stopped gate exits; the whole implements `GatePromise`, which says that the records are true. |
| `gate_unrecorded` | 1 CONNECT, 1 plain request | Violated: a gate that stops in time can have neither a record nor a reported failure of a request it let in. The run shows a handler that panicked; with no plain request in the instance a CONNECT between its hijack and its registration violates it. |
| `gate_server_failure` | 1 CONNECT | Violated: a failed server ends the process with tunnels unrecorded. |
| `traffic` | 3 bytes up, 1 of them early, 1 down, buffer 2, window 1, cap 2, timeout 2; 3 units of request body, 1 of response | The pump implements `TunnelPromise`; the cap is blamed exactly when it turned a byte away; a timeout ends a tunnel only when nothing was read either way; once a direction has ended nothing waits; a tunnel whose connections are closed ends, and one whose peers keep reading ends in any case. The count in a plain request's record covers what has left, and is exact for a body the upstream waited for. |
| `tunnel_stuck` | 2 bytes each way, window 1, timeout 1 | Violated: two peers that do not read block both copiers in writes, which no clock covers. |
| `policy_rules` | 52 policies of up to two rules, 272 requests, 200 URLs and methods | Host patterns match by label and path prefixes by segment (against reference definitions), the order of rules never changes a verdict, tunnels need host-only rules, the rule a denial names is its cause, and `check` is kept by the gate for every URL with a proper port. |
| `policy_reload` | 2 reloads, 1 client with 3 requests, 3 good and 17 bad documents | Only what `Parse` made of an accepted document is in force and is stable under it, one policy in force decides each request, an undisturbed reload takes effect. |

**Bounds.** `MaxAppends` and `MaxKills` bound attempted appends and kills. Three
kills are enough for a kill in a write, a kill in the repair that follows and one
more in the next start; three appends put a record before, in and after the
interrupted one. Two bodies make two gates' continuations of one head differ.
Two gates are enough for an overlap, and in `audit_restart` for the gate that is
killed and the one started after it. `audit_overlap` needs no more than the kill
that leaves the torn tail and one append after it. In `gate_shutdown` two tunnels let one be
registered while the other is refused, severed or in the window, and the plain
request keeps the HTTP drain from being over. The number of requests is the only
bound of `Gate`; nothing in it counts without limit. The policies of `policy_rules` have at most two rules: every
property of `PolicyRules` but the order of rules is about one rule or a pair. The
17 bad documents of `policy_reload` are one for each reason `Parse` refuses one.
Two reloads and one client are enough for a swap between any two steps of the
other reload or of a decision. Symmetry is not used, since
the runs check liveness or are small enough without it.

In `traffic` a direction of three bytes can be cut by a cap of two, met exactly
or never reached, and a buffer of two makes a chunk that straddles the cap; a
window of one makes a write block in the middle of a chunk, and a timeout of two
ticks leaves a tick in which the other direction moves while a deadline runs. The
one early byte tells a read of the buffered packet from a read of the connection.
A body of three units has one read, one counted and one written at the same time.

**Deadlock.** It is checked in `audit_restart` and in all runs of `Gate`,
`Traffic`, `TunnelPump` and the policy, where `Over` and `PlainOver` are the
stuttering of a process or an exchange that is gone and time passes in a tunnel
that is over. In the other runs of
`AuditLog` every gate may end refused, which is what the code does with a broken
log: those runs do not check it.

**Fairness.** `AuditLog` assumes that the supervisor starts a gate that is down
and that a start proceeds (`WF` on `Startup`); kills, stops and traffic are free.
`Gate` assumes that the goroutines of handlers that are not waiting for a peer
are scheduled, that a copy on a closed connection ends, and that `cmdServe` is
scheduled, its first deadline included. It does not assume that a client ever
comes, that a stop is ever asked for, that an open tunnel or a response ends by
itself, or that the second deadline fires: `ShutdownTerminates` shows that
closing the connections is enough. The dialler, the response header and the
stop itself are bounded by timeouts in the code. `TunnelPump` and `Traffic`
assume that the goroutines of the tunnel are scheduled and that time passes, and
nothing of the peers or of the shutdown. `TunnelEnds` needs more and says so in
the property: *if* both peers go on reading what they are sent, the tunnel ends.
Without that hypothesis it is false, which is the run `tunnel_stuck`.

## What is proved

All theorems hold for every value of the constants that meets the named
assumptions: any gates, bodies and bounds in `AuditLog`, any finite disjoint sets
of requests in `Gate`, any amounts of bytes, buffers, caps and timeouts in
`TunnelPump`.

`AuditLogProofs`:

* `TypeCorrect`, `AckedStaysOnDiskAlways`, `LossIsVisibleAlways` and
  `BreaksAreKeptAlways` with all faults allowed. `LossIsVisible` rests on the
  fact that an acknowledged record sits on a complete line (`AckedStaysOnDisk`)
  and that a file is accepted only if every complete line is a single record
  that holds. `AckedStaysOnDisk` is not inductive, since a cut may remove lines:
  `SafeOnDisk` adds that the line of a record that is not `exposed` is one that
  no gate about to cut will remove. All three except what happens between
  another gate's search and its cut, which `audit_overlap` shows to be necessary.
  `BreaksAreKept` rests on the fact that the first line that fails stays
  where it is, because every write lands behind it.
* `LogAlwaysVerifiesReliably`, `NeverRefusedReliably`,
  `MemoryMatchesFileReliably`, `AckedIsEvidenceReliably` under `Reliable`: one
  gate at a time, a failed write leaves nothing, all text is valid. None of the
  four is inductive. `IInv` adds that the complete lines form a chain from
  genesis and the tail is empty, torn or the next record of that chain
  (`Intact`), that at most one gate runs and so no record is ever `exposed`, and what each phase of a start knows of
  the file (`PhaseAgrees`). The two findings on `Append` show that the
  conditions are needed.
* `ImplementsAppendOnlyChainReliably`, under `Reliable` too: the refinement of
  `AppendOnlyChain` step by step. From `IInv`, a start or a repair leaves the
  evidence what it was, a completed write extends it by the next record, and a
  kill in a write either extends it unannounced or leaves a tail that is none.

`NeverRefused`, and of `Gate` below `WaitMeansRecorded`, `NoTunnelAfterClosing` and
`RecordIsTruthful`, are stated by theorems only: no run repeats them.

`AuditReviewProofs`:

* `HeadFixesEvidence`, about any two files: verifications that end at one head
  have read the same records. A hash being its history, the proof goes backwards
  from the equal heads: of the positions counted from the end at which the two
  chains differ, take the first; the record after it agrees, its hash is the
  append of its pair to the hash before, and appending is injective.
  `HeadPinsEvidenceAlways` adds that what an editor makes of a log is a file, and
  that the logs of `AuditLog` are files by `TypeCorrect`, all faults included.
* `PartsAnswerAsOne`, about any file and any cut, by cases on where the first line
  that fails lies: in the first part, at its end, or behind it.
  `SegmentsComposeAlways` instantiates it.
* `ExitCodeTellsCrashReliably`, under `Reliable`, from the theorems above and a
  counting argument: acknowledged records are distinct members of the evidence.

`GateProofs`:

* `GateTypeCorrect` (the WaitGroup never goes below zero),
  `WaitMeansRecordedAlways`, `HeadCoversTunnelsAlways`,
  `NoTunnelUnattendedAlways`, `NoTunnelAfterClosingAlways`,
  `StrandedCoversLostAlways`. `IInv` ties the shared books to the goroutines:
  the map is the set of handlers between registration and removal, the
  WaitGroup is the number of handlers between registration and release
  (`Books`), a started tunnel past its `finish` has its record (`Started`), and
  each stage of the shutdown has closed, waited for or recorded what it should
  (`Stages`). `WaitMeansRecorded` follows by counting: at zero nobody is
  between registration and release, so every tunnel is past `finish`.

`GateRecordProofs`:

* `OneRecordPerRequestAlways`, from `OnceInv`: the positions of a request's
  records are none before its `finish`, and one, or none with a reported failure,
  after it; a request whose handler panicked never gets there. Only `Finish` crosses that line (`OnlyFinishWrites`).
* `RecordIsTruthfulAlways`, from `StatusInv`, which ties the status a handler
  holds to the path it is on; `GaugeCoversOpenTunnelsAlways`.
* `HeadCoversAllButWindowAlways`, from `DrainInv`: from the first drain on, unless
  its deadline passed, no handler is at a point in `Served`. With the stages of
  `IInv` a request that came is then in the window, aborted, a tunnel with its
  record, or past its `finish`.
* `GateKeepsItsPromise`: `Gate` implements `GatePromise`. A handler's step changes
  the stage of its own request as the promise allows or not at all; that no
  request becomes a tunnel once the gate is closing, and that every tunnel has its
  record when the head is read in time, are `Stages` of `IInv`; that the number
  told is enough is `Books`, every tunnel still being in the map; and that a record
  is true is `StatusInv`.

`TunnelPumpProofs`:

* `PumpTypeCorrect`; `CappedMeansTurnedAwayAlways` and `NothingWaitsAfterTheEndAlways`
  from `CountsInv` (what was delivered never exceeds what was read, nor the cap,
  and a copier past a write has delivered all of it or failed) and `MainInv`
  (which connections each stage of `pump` has closed).
* `GivesUpOnlyWithoutReadsAlways` from `ClockInv`: the clock is never older than the
  quiet, but for a read that is not stamped yet.
* `PumpKeepsItsPromise`: initial states map to initial states of `TunnelPromise`,
  and every step to a step of it or to none.

`TrafficProofs`:

* Of one exchange: `ExchangeTypeCorrect`, `CountCoversWireAlways` from the order of
  the three steps of the sender (`OrderInv`), and `ConsumedIsExactAlways`
  (`AnswerInv`).
* Of the two together: every step of `Traffic` is a step of the tunnel or of the
  exchange and leaves the other alone (`EachStepIsOneWays`), so a behaviour of
  `Traffic` is one of each. `TrafficTypeCorrect`, `TrafficKeepsTheTunnelsPromises`
  and `TrafficKeepsTheCounts` carry the theorems about the parts over.

`PolicyStoreProofs`. About the store, for any documents, callers and requests, the
first three using nothing of `Evaluate`, `Valid` and `Kept` but that they are
functions of their arguments:

* `TypeCorrect`: every policy in reach was accepted by `Parse`.
* `DecisionsComeFromAPolicyInForce`, from `HeldWasInForce`: the policy a request
  holds between its two steps is one it has seen in force.
* `UndisturbedReloadsTakeEffect`, from `QuietHoldsTheFile`: an undisturbed reload
  holds what the file holds, and nobody else is about to store.
* `InForceIsWellFormedAlways`: what is in force is kept from an accepted document,
  and to keep a policy twice is to keep it once. Trimming a trimmed text leaves it
  alone (`TrimmedShape`), and folding a folded one does (`FoldingSettles`, which is
  true of `strings.ToLower` and of the upper case of methods; no letter folds to a
  blank). It assumes that hosts and paths are texts (`HostsAndPathsAreTexts`) and that what `Parse`
  answers for an unparsable text is no policy (`ParseReturnsPolicies`).

About the rules, for any policy in force and any request, opening `Evaluate` and
leaving the matching of hosts and paths closed (`RulesAreLists` says that the
rules of a document are a list):

* `RuleOrderOnlyNamesAlways`: a rule that authorises is one in the reversed list
  too. `TunnelsNeedHostOnlyRulesAlways`: a constrained rule authorises no tunnel
  with or without its hosts. `NearMissIsTheCauseAlways`: the rule named covers the
  request, so without its constraints it authorises, and every rule that does has
  its name.
* `CheckIsKeptAlways`: check and the gate ask the same question of a URL with a
  host and a port in range (`LinksAreAbsolute`, which is what `cmdCheck` demands,
  and `AtoiHoldsPorts`), and check refuses what the gate answers with 400.

About the matching itself, for every rule in force and every text
(`QuestionsAreTexts` says that hosts and paths of requests are texts, too):

* `PathsMatchBySegmentAlways`. The reference cuts a text before its beginning, at
  every separator and behind its end; a part is what lies between neighbouring
  cuts, together with its place, so a text is a set of parts and no induction over
  it is needed. That every position is inside a part or a cut itself is the
  existence of a nearest cut on either side (`CutAbove`, `CutBelow`), a least
  element of a set of numbers. Two texts that agree between their cuts have one
  part there, and texts with one part agree there (`SamePart`, `SameText`). A
  prefix found by `pathHasPrefix` leaves every cut of the prefix a cut of the path,
  the one behind it by the look at the next byte (`PrefixCovers`); a path with the
  segments of the prefix reads like it, part by part (`CoveredHasPrefix`).
* `HostsMatchByLabelAlways`. Labels are counted from the right, so those of the
  pattern keep their place in a longer host and the proof is about texts displaced
  by the difference of their lengths. `MatchedHasLabels`: behind the `*` the host
  is cut as the pattern is, so its labels there are the pattern's; what is before
  has no empty label, because `rest` neither begins nor ends with a dot nor has two
  in a row. `LabeledMatches` goes back: a host shorter than the pattern would have
  no label left for the `*`, or an empty one. A pattern without `*` is its set of
  labels (`LabelsDetermine`). That a pattern has its `*` in front only, and that
  the hosts in force are the folded ones, is what `validate` leaves (`RulesReadTexts`).

Only model-checked: liveness (`AlwaysServesAgain`, `ShutdownTerminates`,
`ClosedTunnelsEnd`, `TunnelEnds`), which the prover does not reach. Every other
property of a passing run is stated by a theorem.

## Findings

1. A write that fails part way leaves its bytes in the file. The chain in memory
   is untouched, as the comment on `Append` says, but the next record is written
   behind the debris on the same line, and the log is broken from there on.
2. A record with text that is not valid UTF-8 is hashed as it is written and
   verified as it is read, and the two differ.
3. `finish` says that every request path ends there exactly once, and the comment
   before `registerTunnel` that a tunnel refused in its window leaves a trace.
   `WriteHeader` panics on an upstream status below 100, and that path does not
   reach `finish`. A CONNECT between its hijack and its registration is waited for
   by nobody, and the gate can exit before its record is written, whether it has
   been told 200 by then or not.
4. When an accept loop fails the tunnels are not shut down at all.
5. The repair of a torn tail looks for the last newline and truncates to it in two
   steps, and nothing locks the file. A gate started while another one serves can
   cut off a record that the other has acknowledged in between, and the log
   verifies afterwards, which is what the comment on `existingChainHead` wants to
   avoid.
6. Writes have no deadline. The idle timeout of a tunnel is a deadline on reads,
   so a tunnel neither of whose peers reads is never closed for being idle.

Disagreements that are shown by no run of their own:

* `requestFor` says that `check` never promises an allow the gate would refuse. It
  never looks at the range of a port, and falls back to the scheme's port for a
  number it cannot parse, so it allows URLs the gate answers with 400. `CheckIsKept`
  is therefore about URLs whose port is one; without that condition it is violated.
* The comment on `idleClock` says that a tunnel expires only when nothing has moved
  either way. Only reads touch the clock, so bytes that a slow write moves one at a
  time do not keep the tunnel open, and `GivesUpOnlyWithoutReads` speaks of reads.
* `idleClock.deadline` is "always at least a moment in the future". After a write
  that took longer than the timeout it is in the past (`Remaining` is then 0).
* On the path of a failed server the readiness flag is not cleared, so `/readyz`
  may answer ready while the servers drain.

## Not modelled

* Headers, the content of bodies, durations and the wording of reasons. Bytes are
  counted, in `TunnelPump` and `PlainExchange`, and never looked at.
* The admin server's read-only routes, the readiness flag, the 400 of a gate whose
  policy came from no file, and the counters of requests, bytes and reloads: they
  repeat what records and answers say and no code reads them.
* Command-line parsing, usage exits and printed text.
* Panics other than the one of `WriteHeader`, a crash of the machine, the time code
  takes, and half-closing towards a peer (`pump` does none).
* Log rotation, which is done by someone else: `serve` on a fresh file starts at
  genesis. What a reader does with the segments is `AuditReview`.
* Terraform, scripts, `main` and signal wiring: no state of their own while a gate
  runs.

## Plan

1. `Gate` with `TunnelPump` in the place of `PumpEnds`, for one tunnel, and from it
   that the pump's ending is all `Gate` takes from it.
2. The reload counter and the readiness flag of the admin server, and a gate whose
   policy cannot be reloaded.
