---------------------------- MODULE PolicyRules ----------------------------
(***************************************************************************)
(* What the rules of the policy in force mean: properties of every policy  *)
(* a store can hold, over the questions the handlers can ask and the URLs  *)
(* an operator can give to egressgate check.                               *)
(***************************************************************************)
EXTENDS PolicyStore

CONSTANTS
  Questions,   \* requests as Evaluate gets them
  Links,       \* URLs given to egressgate check, see RequestFor
  Verbs        \* methods given with them

(* check takes absolute URLs with a host only, and every port is a number  *)
(* Atoi accepts.                                                           *)
ASSUME LinksAreAbsolute ==
  \A u \in Links : /\ u.host # <<>> /\ u.scheme # ""
                   /\ u.port \in Seq(Nat) /\ Len(u.port) <= 1
ASSUME QuestionsAreTexts == \A q \in Questions : IsText(q.host) /\ IsText(q.path)
ASSUME AtoiHoldsPorts == MaxInt \in Nat /\ MaxPort <= MaxInt

-----------------------------------------------------------------------------
(* References: a text is cut before its beginning, at every separator and  *)
(* behind its end; its parts lie between neighbouring cuts.                *)
Cuts(text, separator) ==
  {0, Len(text) + 1} \cup {i \in DOMAIN text : text[i] = separator}

Gaps(text, separator) ==
  LET cuts == Cuts(text, separator)
  IN {g \in cuts \X cuts : g[1] < g[2] /\ ~\E c \in cuts : g[1] < c /\ c < g[2]}

Part(text, g) == SubSeq(text, g[1] + 1, g[2] - 1)

(* The segments of a path, each with its place from the left, and the      *)
(* labels of a host, each with its place from the right.                   *)
Segments(path) == {[from |-> g[1], text |-> Part(path, g)] : g \in Gaps(path, "/")}

Labels(host) ==
  {[from |-> (Len(host) + 1) - g[2], text |-> Part(host, g)] : g \in Gaps(host, ".")}

(* A prefix covers the paths that have its segments; one with a trailing   *)
(* "/", where no segment begins, only those that have more.                *)
SegmentsMatch(prefix, path) ==
  LET named == Segments(prefix) \ {[from |-> Len(prefix), text |-> <<>>]}
      have  == Segments(path)
  IN named \subseteq have /\ (named # Segments(prefix) => have # named)

(* "*" is one or more labels with a name; any other label is itself.       *)
LabelsMatch(pattern, host) ==
  LET named == {l \in Labels(pattern) : l.text # <<"*">>}
      other == Labels(host) \ named
  IN /\ named \subseteq Labels(host)
     /\ (named = Labels(pattern)) <=> (other = {})
     /\ \A l \in other : l.text # <<>>

-----------------------------------------------------------------------------
(* A host pattern admits whole labels: "*.example.com" neither the apex,   *)
(* nor "evilexample.com", nor a name with an empty label, whatever case    *)
(* the request is written in (policy.go:301-323).                          *)
HostsMatchByLabel ==
  \A i \in DOMAIN current.rules : \A q \in Questions :
    LET r == current.rules[i]
    IN MatchesHost(r, ToLower(q.host)) <=>
         \E p \in r.hosts : LabelsMatch(p, ToLower(q.host))

(* A path prefix admits whole segments: "/v1/status" never                 *)
(* "/v1/status-admin" (policy.go:362-379).                                 *)
PathsMatchBySegment ==
  \A i \in DOMAIN current.rules : \A q \in Questions :
    LET r == current.rules[i]
    IN MatchesPath(r, q.path) <=> r.paths = {} \/ \E p \in r.paths : SegmentsMatch(p, q.path)

(* Rules only ever allow, so their order chooses the name in the audit     *)
(* record and never the verdict: a skipped rule must not end the search    *)
(* (policy.go:244-252).                                                    *)
RuleOrderOnlyNames ==
  \A q \in Questions :
    Evaluate(current, q).action =
      Evaluate([current EXCEPT !.rules = Reverse(@)], q).action

(* A tunnel is never opened on the strength of a rule that constrains      *)
(* method or path: were those rules to name no host at all, every tunnel   *)
(* would be judged the same (policy.go:69-74, 244-248).                    *)
TunnelsNeedHostOnlyRules ==
  \A q \in Questions : q.kind = "connect" =>
    Evaluate(current, q).action =
      Evaluate([current EXCEPT !.rules = [i \in DOMAIN @ |->
                  IF Constrained(@[i]) THEN [@[i] EXCEPT !.hosts = {}] ELSE @[i]]], q).action

(* The advice in a denial is right: drop the constraints of the rule it    *)
(* names, and that rule opens the tunnel (policy.go:248-252, 280-287).     *)
Freed(r) == [name |-> r.name, hosts |-> r.hosts, methods |-> {}, paths |-> {},
             ports |-> r.ports, empty |-> r.empty]

NearMissIsTheCause ==
  \A q \in Questions :
    LET named == Evaluate(current, q).nearMiss
        freed == [current EXCEPT !.rules = [i \in DOMAIN @ |->
                    IF @[i].name = named THEN Freed(@[i]) ELSE @[i]]]
    IN named # "" => /\ Evaluate(current, q).action = "deny"
                     /\ Evaluate(freed, q).action = "allow"
                     /\ Evaluate(freed, q).rule = named

(* What egressgate check allows, a gate with the same policy allows, for   *)
(* every URL whose port is a port: the same 400 rule in the same order     *)
(* (run.go:577-587).  The comment on requestFor (run.go:634-636) has no    *)
(* such condition, but it takes 0 and 65536 for ports; the gate does not.  *)
CheckIsKept ==
  \A u \in Links : \A m \in Verbs :
    PortInRange(u.port) /\ CheckAllows(current, u, m) => GateAllows(current, AsSent(u, m))
=============================================================================
