------------------------------- MODULE Policy -------------------------------
(***************************************************************************)
(* The policy engine as pure operators: which documents Parse accepts and  *)
(* what it makes of them, what Evaluate answers, which requests the        *)
(* handlers refuse before they ask, and what egressgate check predicts.    *)
(*                                                                         *)
(* A text is a sequence of pieces; ".", "/", "*", " ", ".." and "%2f" are  *)
(* pieces of their own, so that a prefix may end inside a path segment and *)
(* a suffix inside a label.  The lists of a rule are sets, because only    *)
(* their members matter; that a list was written as [] is in "empty".  A   *)
(* port is <<>> where none is written and <<n>> where n is.                *)
(***************************************************************************)
EXTENDS Integers, Sequences, SequencesExt

CONSTANTS
  LowerOf,     \* the pieces with capital letters, and what ToLower makes of them
  UpperOf,     \* the methods ToUpper and TrimSpace change, and what they become
  MaxInt,      \* the largest number strconv.Atoi accepts
  Unparsable   \* a document that is not YAML, has unknown keys, or two documents

(* What the functions of package strings made of a piece or a method they  *)
(* leave as it is, and ToLower makes no blank.                             *)
ASSUME FoldingSettles ==
  /\ \A f \in {LowerOf, UpperOf} : \A x \in DOMAIN f : f[x] \notin DOMAIN f
  /\ \A x \in DOMAIN LowerOf : LowerOf[x] # " "

IsText(x) == Len(x) \in Nat /\ x = [k \in 1..Len(x) |-> x[k]]

Folded(f, x) == IF x \in DOMAIN f THEN f[x] ELSE x
ToLower(text) == [i \in DOMAIN text |-> Folded(LowerOf, text[i])]
ToUpper(method) == Folded(UpperOf, method)

TrimSpace(text) ==
  LET solid == {i \in DOMAIN text : text[i] # " "}
  IN IF solid = {} THEN <<>> ELSE SubSeq(text, Min(solid), Max(solid))

KnownMethods == {"GET", "HEAD", "POST", "PUT", "PATCH", "DELETE", "OPTIONS", "TRACE"}
DefaultPorts == {80, 443}
MaxPort == 65535
Wildcard == <<"*", ".">>

-----------------------------------------------------------------------------
(* validate.  Hosts and methods are judged in the form they are kept in.   *)
KeptHost(h) == ToLower(TrimSpace(h))

ValidHost(h) ==
  /\ h # <<>>
  /\ (\E i \in DOMAIN h : h[i] = "*") =>
       /\ IsStrictPrefix(Wildcard, h)
       /\ \A i \in 3..Len(h) : h[i] # "*"

ValidRule(r) ==
  /\ r.name # ""
  /\ r.hosts # {} /\ \A h \in r.hosts : ValidHost(KeptHost(h))
  /\ r.empty = {}
  /\ \A m \in r.methods : ToUpper(m) \in KnownMethods
  /\ \A p \in r.paths : IsPrefix(<<"/">>, p)
  /\ \A n \in r.ports : n \in 1..MaxPort

Valid(d) ==
  /\ d # Unparsable
  /\ d.version = 1
  /\ d.default \in {"allow", "deny"}
  /\ \A i \in DOMAIN d.rules :
       ValidRule(d.rules[i]) /\ \A j \in 1..(i-1) : d.rules[j].name # d.rules[i].name

(* What validate leaves of a valid document.                               *)
KeptRule(r) ==
  [name |-> r.name, hosts |-> {KeptHost(h) : h \in r.hosts},
   methods |-> {ToUpper(m) : m \in r.methods},
   paths |-> r.paths, ports |-> r.ports, empty |-> r.empty]

MutKept(d) ==
  [version |-> d.version, default |-> d.default,
   rules |-> [i \in DOMAIN d.rules |-> [KeptRule(d.rules[i]) EXCEPT !.hosts = d.rules[i].hosts]]]

Kept(d) ==
  [version |-> d.version, default |-> d.default,
   rules |-> [i \in DOMAIN d.rules |-> KeptRule(d.rules[i])]]

-----------------------------------------------------------------------------
(* Evaluate, for a request [kind, host, port, method, path].               *)
Constrained(r) == r.methods # {} \/ r.paths # {}

MutSuffixWithoutDot(pattern, host) ==
  IF IsPrefix(Wildcard, pattern)
  THEN IsStrictSuffix(SubSeq(pattern, 3, Len(pattern)), host)
  ELSE pattern = host

(* The wildcard stands for one or more labels, none of them empty.         *)
HostMatches(pattern, host) ==
  IF IsPrefix(Wildcard, pattern)
  THEN LET suffix == Tail(pattern)
           rest   == SubSeq(host, 1, Len(host) - Len(suffix))
       IN /\ IsStrictSuffix(suffix, host)
          /\ rest[1] # "." /\ rest[Len(rest)] # "."
          /\ \A i \in 1..(Len(rest)-1) : ~(rest[i] = "." /\ rest[i+1] = ".")
  ELSE pattern = host

MatchesHost(r, host) == \E p \in r.hosts : HostMatches(p, host)
MatchesPort(r, port) == port \in (IF r.ports = {} THEN DefaultPorts ELSE r.ports)
MatchesMethod(r, method) == r.methods = {} \/ method \in r.methods

MutPathHasPrefix(path, prefix) == IsPrefix(prefix, path)

(* On segment boundaries.                                                  *)
PathHasPrefix(path, prefix) ==
  /\ IsPrefix(prefix, path)
  /\ \/ path = prefix
     \/ prefix[Len(prefix)] = "/"
     \/ path[Len(prefix) + 1] = "/"

MatchesPath(r, path) == r.paths = {} \/ \E p \in r.paths : PathHasPrefix(path, p)

Covers(r, q) == MatchesHost(r, ToLower(q.host)) /\ MatchesPort(r, q.port)

MutAuthorises(r, q) ==
  /\ Covers(r, q)
  /\ q.kind = "http" => MatchesMethod(r, q.method) /\ MatchesPath(r, q.path)

(* A rule that constrains method or path cannot authorise a tunnel.        *)
Authorises(r, q) ==
  /\ Covers(r, q)
  /\ IF q.kind = "connect" THEN ~Constrained(r)
     ELSE MatchesMethod(r, q.method) /\ MatchesPath(r, q.path)

MutEvaluateStopsAtNearMiss(p, q) ==
  LET first == {i \in DOMAIN p.rules : Covers(p.rules[i], q)}
  IN IF first # {} /\ Authorises(p.rules[Min(first)], q)
     THEN [action |-> "allow", rule |-> p.rules[Min(first)].name, nearMiss |-> ""]
     ELSE [action |-> p.default, rule |-> "", nearMiss |-> ""]

MutEvaluateNamesAnyHost(p, q) ==
  LET hits == {i \in DOMAIN p.rules : Authorises(p.rules[i], q)}
      near == {i \in DOMAIN p.rules : q.kind = "connect" /\ Constrained(p.rules[i])
                                       /\ MatchesHost(p.rules[i], ToLower(q.host))}
  IN IF hits # {}
       THEN [action |-> "allow", rule |-> p.rules[Min(hits)].name, nearMiss |-> ""]
     ELSE [action |-> p.default, rule |-> "",
           nearMiss |-> IF near = {} THEN "" ELSE p.rules[Min(near)].name]

Evaluate(p, q) ==
  LET hits == {i \in DOMAIN p.rules : Authorises(p.rules[i], q)}
      near == {i \in DOMAIN p.rules : q.kind = "connect" /\ Covers(p.rules[i], q)
                                                         /\ Constrained(p.rules[i])}
  IN IF hits # {}
       THEN [action |-> "allow", rule |-> p.rules[Min(hits)].name, nearMiss |-> ""]
     ELSE IF p.default = "allow" \/ near = {}
       THEN [action |-> p.default, rule |-> "", nearMiss |-> ""]
     ELSE [action |-> "deny", rule |-> "", nearMiss |-> p.rules[Min(near)].name]

-----------------------------------------------------------------------------
(* A request as it arrives: [kind, scheme, host, port, method, path], the  *)
(* scheme "" where the URI is not absolute.  A CONNECT has a host and a    *)
(* port only.                                                              *)
PortInRange(port) == \A i \in DOMAIN port : port[i] \in 1..MaxPort

DefaultPortFor(scheme) == IF scheme = "https" THEN 443 ELSE 80

(* normalisedPath: no encoded separator, and nothing path.Clean removes.   *)
Normalised(path) ==
  \A i \in DOMAIN path :
    /\ path[i] # "%2f"
    /\ ~(path[i] = "/" /\ i < Len(path) /\ path[i+1] = "/")
    /\ (path[i] \in {".", ".."} /\ i > 1 /\ path[i-1] = "/")
         => (i < Len(path) /\ path[i+1] # "/")

(* What handleConnect and handleHTTP answer 400 without asking the policy. *)
Malformed(w) ==
  IF w.kind = "connect"
  THEN w.host = <<>> \/ ~PortInRange(w.port)
  ELSE \/ w.scheme = ""
       \/ ~PortInRange(w.port)
       \/ ~Normalised(w.path)

(* The question a handler asks about a request that is not malformed.      *)
QuestionOf(w) ==
  LET default == IF w.kind = "connect" THEN 443 ELSE DefaultPortFor(w.scheme)
  IN [kind |-> w.kind, host |-> w.host, method |-> w.method, path |-> w.path,
      port |-> IF w.port = <<>> THEN default ELSE w.port[1]]

GateAllows(p, w) == ~Malformed(w) /\ Evaluate(p, QuestionOf(w)).action = "allow"

-----------------------------------------------------------------------------
(* egressgate check on a URL [scheme, host, port, path], its policy loaded. *)
PathOrRoot(path) == IF path = <<>> THEN <<"/">> ELSE path

RequestFor(u, method) ==
  LET port == IF u.port # <<>> /\ u.port[1] <= MaxInt THEN u.port[1]
              ELSE DefaultPortFor(u.scheme)
  IN IF u.scheme = "https"
     THEN [kind |-> "connect", host |-> u.host, port |-> port, method |-> "", path |-> <<>>]
     ELSE [kind |-> "http", host |-> u.host, port |-> port, method |-> method,
           path |-> PathOrRoot(u.path)]

MutCheckSkipsThePath(p, u, method) ==
  Evaluate(p, RequestFor(u, ToUpper(method))).action = "allow"

CheckAllows(p, u, method) ==
  LET q == RequestFor(u, ToUpper(method))
  IN /\ q.kind = "http" => Normalised(PathOrRoot(u.path))
     /\ Evaluate(p, q).action = "allow"

(* What a client configured to use the proxy sends for the URL: a CONNECT  *)
(* for https, otherwise the absolute form, with "/" for an empty path and  *)
(* the method in the form check judges it in.                              *)
AsSent(u, method) ==
  IF u.scheme = "https"
  THEN [kind |-> "connect", scheme |-> "", host |-> u.host,
        port |-> IF u.port = <<>> THEN <<443>> ELSE u.port, method |-> "", path |-> <<>>]
  ELSE [kind |-> "http", scheme |-> u.scheme, host |-> u.host, port |-> u.port,
        method |-> ToUpper(method), path |-> PathOrRoot(u.path)]
=============================================================================
