------------------------- MODULE PolicyStoreProofs -------------------------
(* Proofs about the policy store and the rules of the policy in force, for *)
(* every set of documents, callers and requests.  Those about the store    *)
(* use nothing of the policy engine but the names; those about the rules   *)
(* open Evaluate and leave the matching of hosts and paths closed; the     *)
(* last two are about that matching, and use nothing of Evaluate.          *)
EXTENDS PolicyRules, SequenceTheorems, WellFoundedInduction, TLAPS

(* Every policy a goroutine can reach is one Parse made of a document it   *)
(* accepted (store.go:53-72).                                              *)
THEOREM TypeCorrect == Spec => []TypeOK
<1>1. Init => TypeOK
  BY DEF Init, TypeOK, Policies
<1>2. TypeOK /\ [Next]_vars => TypeOK'
  <2> SUFFICES ASSUME TypeOK, [Next]_vars PROVE TypeOK'
    OBVIOUS
  <2> USE DocumentsAssumption DEF TypeOK, Policies
  <2>1. ASSUME NEW d \in Rewrites, RewriteFile(d) PROVE TypeOK'
    BY <2>1 DEF RewriteFile
  <2>2. ASSUME NEW a \in Admins, ReadPolicy(a) PROVE TypeOK'
    <3>1. Kept(disk) \in Policies
      BY <2>2 DEF ReadPolicy
    <3> QED
      BY <2>2, <3>1 DEF ReadPolicy, BeginsReload
  <2>3. ASSUME NEW a \in Admins, ReadFails(a) PROVE TypeOK'
    BY <2>3 DEF ReadFails, BeginsReload
  <2>4. ASSUME NEW a \in Admins, Swap(a) PROVE TypeOK'
    BY <2>4 DEF Swap
  <2>5. ASSUME NEW c \in Clients, NEW w \in Wires, Refuse(c, w) PROVE TypeOK'
    BY <2>5 DEF Refuse, Asks
  <2>6. ASSUME NEW c \in Clients, NEW w \in Wires, Ask(c, w) PROVE TypeOK'
    BY <2>6 DEF Ask, Asks
  <2>7. ASSUME NEW c \in Clients, LoadPointer(c) PROVE TypeOK'
    BY <2>7 DEF LoadPointer
  <2>8. ASSUME NEW c \in Clients, Decide(c) PROVE TypeOK'
    BY <2>8 DEF Decide, Decides
  <2>9. ASSUME NEW c \in Clients, Again(c) PROVE TypeOK'
    BY <2>9 DEF Again
  <2>10. CASE UNCHANGED vars
    BY <2>10 DEF vars
  <2> QED
    BY <2>1, <2>2, <2>3, <2>4, <2>5, <2>6, <2>7, <2>8, <2>9, <2>10 DEF Next
<1> QED
  BY <1>1, <1>2, PTL DEF Spec

-----------------------------------------------------------------------------
(* A request that has asked sees the policy in force, one that has loaded  *)
(* holds a policy that was in force since it asked, and one that was       *)
(* answered was answered by such a policy.                                 *)
HeldWasInForce ==
  \A c \in Clients :
    /\ ask[c].at = "asked" => current \in seen[c]
    /\ ask[c].at = "loaded" => ask[c].policy \in seen[c]
    /\ ask[c].at = "decided" => \E p \in seen[c] : ask[c].decision = Evaluate(p, ask[c].question)

(* One policy decides a request, and one that was in force between its     *)
(* arrival and its answer (store.go:42-44).                                *)
THEOREM DecisionsComeFromAPolicyInForce == Spec => []DecisionWasInForce
<1>1. Init => HeldWasInForce
  BY DEF Init, HeldWasInForce
<1>2. TypeOK /\ HeldWasInForce /\ [Next]_vars => HeldWasInForce'
  <2> SUFFICES ASSUME TypeOK, HeldWasInForce, [Next]_vars PROVE HeldWasInForce'
    OBVIOUS
  <2> DEFINE Held(c) ==
        /\ ask[c].at = "asked" => current \in seen[c]
        /\ ask[c].at = "loaded" => ask[c].policy \in seen[c]
        /\ ask[c].at = "decided" =>
             \E p \in seen[c] : ask[c].decision = Evaluate(p, ask[c].question)
  <2>h. \A c \in Clients : Held(c)
    BY DEF HeldWasInForce
  <2>d. DOMAIN ask = Clients /\ seen \in [Clients -> SUBSET Policies]
    BY DEF TypeOK
  <2>1. ASSUME NEW c \in Clients, UNCHANGED <<current, ask[c], seen[c]>> PROVE Held(c)'
    BY <2>1, <2>h
  <2>2. ASSUME NEW a \in Admins, Swap(a), NEW c \in Clients PROVE Held(c)'
    BY <2>2, <2>h, <2>d DEF Swap
  <2>3. ASSUME NEW b \in Clients, NEW c \in Clients, c # b,
               \/ \E w \in Wires : Refuse(b, w) \/ Ask(b, w)
               \/ LoadPointer(b) \/ Decide(b) \/ Again(b)
        PROVE  Held(c)'
    <3>1. UNCHANGED <<current, ask[c], seen[c]>>
      BY <2>3, <2>d DEF Refuse, Ask, Asks, LoadPointer, Decide, Decides, Again
    <3> QED
      BY <3>1, <2>1
  <2>4. ASSUME NEW c \in Clients, NEW w \in Wires, Refuse(c, w) PROVE Held(c)'
    BY <2>4, <2>d DEF Refuse, Asks
  <2>5. ASSUME NEW c \in Clients, NEW w \in Wires, Ask(c, w) PROVE Held(c)'
    BY <2>5, <2>d DEF Ask, Asks
  <2>6. ASSUME NEW c \in Clients, LoadPointer(c) PROVE Held(c)'
    BY <2>6, <2>d, <2>h DEF LoadPointer
  <2>7. ASSUME NEW c \in Clients, Decide(c) PROVE Held(c)'
    <3>1. ask[c].policy \in seen'[c]
      BY <2>7, <2>h DEF Decide, Decides
    <3>2. /\ ask'[c].at = "decided"
          /\ ask'[c].decision = Evaluate(ask[c].policy, ask'[c].question)
      BY <2>7, <2>d DEF Decide, Decides
    <3> QED
      BY <3>1, <3>2
  <2>8. ASSUME NEW c \in Clients, Again(c) PROVE Held(c)'
    BY <2>8, <2>d DEF Again
  <2>9. ASSUME NEW c \in Clients PROVE Held(c)'
    <3>1. CASE \E d \in Rewrites : RewriteFile(d)
      BY <3>1, <2>1 DEF RewriteFile
    <3>2. CASE \E a \in Admins : ReadPolicy(a) \/ ReadFails(a)
      BY <3>2, <2>1 DEF ReadPolicy, ReadFails, BeginsReload
    <3>3. CASE \E a \in Admins : Swap(a)
      BY <3>3, <2>2
    <3>4. CASE \E b \in Clients : \/ \E w \in Wires : Refuse(b, w) \/ Ask(b, w)
                                  \/ LoadPointer(b) \/ Decide(b) \/ Again(b)
      BY <3>4, <2>3, <2>4, <2>5, <2>6, <2>7, <2>8
    <3>5. CASE UNCHANGED vars
      BY <3>5, <2>1 DEF vars
    <3> QED
      BY <3>1, <3>2, <3>3, <3>4, <3>5 DEF Next
  <2> QED
    BY <2>9 DEF HeldWasInForce
<1>3. HeldWasInForce => DecisionWasInForce
  BY DEF HeldWasInForce, DecisionWasInForce
<1> QED
  BY <1>1, <1>2, <1>3, TypeCorrect, PTL DEF Spec

-----------------------------------------------------------------------------
(* While an undisturbed reload is between its read and its store, it holds *)
(* what the file holds and nobody else can store; afterwards the policy in *)
(* force is the file's.                                                    *)
QuietHoldsTheFile ==
  \A a \in quiet :
    /\ reload[a].at = "parsed" => reload[a].policy = Kept(disk)
    /\ reload[a].at = "ok" => current = Kept(disk)
    /\ \A b \in Admins \ {a} : reload[b].at # "parsed"

(* An answered reload that nothing overlapped put the file's rules in      *)
(* force (store.go:53-60).                                                 *)
THEOREM UndisturbedReloadsTakeEffect == Spec => []ReloadTakesEffect
<1>1. Init => QuietHoldsTheFile
  BY DEF Init, QuietHoldsTheFile
<1>2. TypeOK /\ QuietHoldsTheFile /\ [Next]_vars => QuietHoldsTheFile'
  <2> SUFFICES ASSUME TypeOK, QuietHoldsTheFile, [Next]_vars PROVE QuietHoldsTheFile'
    OBVIOUS
  <2>t. /\ quiet \subseteq Admins
        /\ reload \in [Admins -> [at : {"idle", "parsed", "ok", "failed"}, policy : Policies]]
    BY DEF TypeOK
  <2>1. ASSUME NEW d \in Rewrites, RewriteFile(d) PROVE QuietHoldsTheFile'
    BY <2>1 DEF RewriteFile, QuietHoldsTheFile
  <2>2. ASSUME NEW a \in Admins, ReadPolicy(a) PROVE QuietHoldsTheFile'
    BY <2>2, <2>t DEF ReadPolicy, BeginsReload, Reloading, QuietHoldsTheFile
  <2>3. ASSUME NEW a \in Admins, ReadFails(a) PROVE QuietHoldsTheFile'
    BY <2>3, <2>t DEF ReadFails, BeginsReload, Reloading, QuietHoldsTheFile
  <2>4. ASSUME NEW a \in Admins, Swap(a) PROVE QuietHoldsTheFile'
    <3> SUFFICES ASSUME NEW q \in quiet
                 PROVE  /\ reload'[q].at # "parsed"
                        /\ reload'[q].at = "ok" => current' = Kept(disk)
                        /\ \A b \in Admins \ {q} : reload'[b].at # "parsed"
      BY <2>4 DEF Swap, QuietHoldsTheFile
    <3>1. q = a /\ reload[a].policy = Kept(disk)
      BY <2>4, <2>t DEF Swap, Reloading, QuietHoldsTheFile
    <3> QED
      BY <2>4, <2>t, <3>1 DEF Swap, QuietHoldsTheFile
  <2>5. CASE UNCHANGED <<disk, current, reload, quiet>>
    BY <2>5 DEF QuietHoldsTheFile
  <2>6. ASSUME NEW c \in Clients,
               \/ \E w \in Wires : Refuse(c, w) \/ Ask(c, w)
               \/ LoadPointer(c) \/ Decide(c) \/ Again(c)
        PROVE  UNCHANGED <<disk, current, reload, quiet>>
    BY <2>6 DEF Refuse, Ask, Asks, LoadPointer, Decide, Decides, Again
  <2> QED
    BY <2>1, <2>2, <2>3, <2>4, <2>5, <2>6 DEF Next, vars
<1>3. QuietHoldsTheFile => ReloadTakesEffect
  BY DEF QuietHoldsTheFile, ReloadTakesEffect
<1> QED
  BY <1>1, <1>2, <1>3, TypeCorrect, PTL DEF Spec

-----------------------------------------------------------------------------
(* The shape of a policy in force.                                         *)
LEMMA InForceShape ==
  ASSUME TypeOK
  PROVE  \E d \in Documents :
           /\ Valid(d) /\ current = Kept(d)
           /\ Len(d.rules) \in Nat /\ DOMAIN current.rules = 1..Len(d.rules)
           /\ current.default \in {"allow", "deny"}
           /\ \A i \in DOMAIN current.rules : current.rules[i] = KeptRule(d.rules[i])
<1>1. PICK d \in Documents : Valid(d) /\ current = Kept(d)
  BY DEF TypeOK, Policies
<1>2. d # Unparsable /\ d.default \in {"allow", "deny"}
  BY <1>1 DEF Valid
<1>3. Len(d.rules) \in Nat /\ DOMAIN d.rules = 1..Len(d.rules)
  BY <1>2, RulesAreLists
<1>4. current = [version |-> d.version, default |-> d.default,
                 rules |-> [i \in 1..Len(d.rules) |-> KeptRule(d.rules[i])]]
  BY <1>1, <1>3 DEF Kept
<1>5. current.rules = [i \in 1..Len(d.rules) |-> KeptRule(d.rules[i])]
  BY <1>4
<1>6. current.default \in {"allow", "deny"}
  BY <1>2, <1>4
<1>7. DOMAIN current.rules = 1..Len(d.rules)
  BY <1>5
<1>8. \A i \in DOMAIN current.rules : current.rules[i] = KeptRule(d.rules[i])
  BY <1>5
<1>9. d \in Documents
  BY <1>1
<1> QED BY <1>1, <1>3, <1>6, <1>7, <1>8, <1>9, Zenon

(* What a policy answers: a rule that authorises, or the default.          *)
LEMMA ActionIs ==
  ASSUME NEW p, NEW q, p.default \in {"allow", "deny"}
  PROVE  Evaluate(p, q).action =
           IF \E i \in DOMAIN p.rules : Authorises(p.rules[i], q) THEN "allow" ELSE p.default
<1> DEFINE hits == {i \in DOMAIN p.rules : Authorises(p.rules[i], q)}
<1>1. CASE hits # {}
  <2>1. \E i \in DOMAIN p.rules : Authorises(p.rules[i], q)
    BY <1>1
  <2>2. Evaluate(p, q).action = "allow"
    BY <1>1 DEF Evaluate
  <2> QED BY <2>1, <2>2
<1>2. CASE hits = {}
  <2>1. ~\E i \in DOMAIN p.rules : Authorises(p.rules[i], q)
    BY <1>2
  <2>2. Evaluate(p, q).action = p.default
    BY <1>2 DEF Evaluate
  <2> QED BY <2>1, <2>2
<1> QED BY <1>1, <1>2

(* The order of the rules never decides whether a request is allowed.      *)
THEOREM RuleOrderOnlyNamesAlways == Spec => []RuleOrderOnlyNames
<1>1. ASSUME TypeOK, NEW q
      PROVE  Evaluate(current, q).action =
               Evaluate([current EXCEPT !.rules = Reverse(@)], q).action
  <2> DEFINE back == [current EXCEPT !.rules = Reverse(@)]
  <2>1. PICK d \in Documents :
          /\ Valid(d) /\ current = Kept(d)
          /\ Len(d.rules) \in Nat /\ DOMAIN current.rules = 1..Len(d.rules)
          /\ current.default \in {"allow", "deny"}
          /\ \A i \in DOMAIN current.rules : current.rules[i] = KeptRule(d.rules[i])
    BY <1>1, InForceShape
  <2> DEFINE n == Len(d.rules)
             S == {current.rules[i] : i \in 1..n}
  <2>2. current.rules = [i \in 1..n |-> KeptRule(d.rules[i])]
    BY <2>1, RulesAreLists DEF Kept, Valid
  <2>3. current.rules \in Seq(S) /\ Len(current.rules) = n
    <3>1. current.rules \in [1..n -> S]
      BY <2>1, <2>2
    <3> QED BY <2>1, <3>1, IsASeq, LenProperties
  <2>4. /\ back.default = current.default
        /\ back.rules = [i \in 1..n |-> current.rules[(n - i) + 1]]
    BY <2>1, <2>3 DEF Reverse, Kept
  <2> HIDE DEF n, S, back
  <2>5. (\E i \in DOMAIN current.rules : Authorises(current.rules[i], q))
          <=> \E i \in DOMAIN back.rules : Authorises(back.rules[i], q)
    <3>0. DOMAIN current.rules = 1..n /\ DOMAIN back.rules = 1..n
      BY <2>1, <2>4 DEF n
    <3>1. ASSUME NEW i \in 1..n
          PROVE  /\ (n - i) + 1 \in 1..n
                 /\ back.rules[(n - i) + 1] = current.rules[i]
                 /\ back.rules[i] = current.rules[(n - i) + 1]
      <4>1. n \in Nat
        BY <2>1 DEF n
      <4>2. (n - i) + 1 \in 1..n /\ (n - ((n - i) + 1)) + 1 = i
        BY <4>1
      <4> QED BY <2>4, <4>2
    <3>2. ASSUME NEW i \in 1..n, Authorises(current.rules[i], q)
          PROVE  \E k \in 1..n : Authorises(back.rules[k], q)
      <4>1. Authorises(back.rules[(n - i) + 1], q)
        BY <3>1, <3>2, Zenon
      <4> QED BY <3>1, <4>1
    <3>3. ASSUME NEW i \in 1..n, Authorises(back.rules[i], q)
          PROVE  \E k \in 1..n : Authorises(current.rules[k], q)
      <4>1. Authorises(current.rules[(n - i) + 1], q)
        BY <3>1, <3>3, Zenon
      <4> QED BY <3>1, <4>1
    <3> QED BY <3>0, <3>2, <3>3, Zenon
  <2>6. Evaluate(current, q).action =
          IF \E i \in DOMAIN current.rules : Authorises(current.rules[i], q)
          THEN "allow" ELSE current.default
    BY <2>1, ActionIs
  <2>7. back.default \in {"allow", "deny"}
    BY <2>1, <2>4
  <2>8. Evaluate(back, q).action =
          IF \E i \in DOMAIN back.rules : Authorises(back.rules[i], q)
          THEN "allow" ELSE back.default
    BY <2>7, ActionIs
  <2>9. Evaluate(current, q).action = Evaluate(back, q).action
    BY <2>4, <2>5, <2>6, <2>8, Zenon
  <2> QED BY <2>9 DEF back
<1>2. TypeOK => RuleOrderOnlyNames
  BY <1>1 DEF RuleOrderOnlyNames
<1> QED BY <1>2, TypeCorrect, PTL

(* The smallest number of a set is one of its members, and bounds them.    *)
LEMMA MinBelongs ==
  ASSUME NEW S \in SUBSET Nat, S # {}
  PROVE  Min(S) \in S /\ \A y \in S : Min(S) <= y
<1> DEFINE Less == OpToRel(<, Nat)
<1>1. IsWellFoundedOn(Less, Nat)
  BY NatLessThanWellFounded
<1>2. \A x, y \in Nat : <<x, y>> \in Less <=> x < y
  BY DEF OpToRel
<1> HIDE DEF Less
<1>3. PICK x \in S : \A y \in S : ~(<<y, x>> \in Less)
  BY <1>1, WFMin
<1>4. ASSUME NEW y \in S PROVE x <= y
  <2>1. ~(y < x)
    BY <1>2, <1>3
  <2> QED BY <2>1
<1> QED BY <1>3, <1>4 DEF Min

(* A rule that constrains method or path never opens a tunnel: with no     *)
(* host in those rules every tunnel is judged the same (policy.go:244-248).*)
THEOREM TunnelsNeedHostOnlyRulesAlways == Spec => []TunnelsNeedHostOnlyRules
<1>1. ASSUME TypeOK, NEW q, q.kind = "connect"
      PROVE  Evaluate(current, q).action =
               Evaluate([current EXCEPT !.rules = [i \in DOMAIN @ |->
                  IF Constrained(@[i]) THEN [@[i] EXCEPT !.hosts = {}] ELSE @[i]]], q).action
  <2> DEFINE bare == [current EXCEPT !.rules = [i \in DOMAIN @ |->
                       IF Constrained(@[i]) THEN [@[i] EXCEPT !.hosts = {}] ELSE @[i]]]
  <2>1. PICK d \in Documents :
          /\ Valid(d) /\ current = Kept(d)
          /\ Len(d.rules) \in Nat /\ DOMAIN current.rules = 1..Len(d.rules)
          /\ current.default \in {"allow", "deny"}
          /\ \A i \in DOMAIN current.rules : current.rules[i] = KeptRule(d.rules[i])
    BY <1>1, InForceShape
  <2>2. /\ bare.default = current.default
        /\ DOMAIN bare.rules = DOMAIN current.rules
        /\ \A i \in DOMAIN current.rules :
             bare.rules[i] = IF Constrained(current.rules[i])
                             THEN [current.rules[i] EXCEPT !.hosts = {}] ELSE current.rules[i]
    BY <2>1, Zenon DEF Kept
  <2> HIDE DEF bare
  <2>3. ASSUME NEW i \in DOMAIN current.rules
        PROVE  Authorises(current.rules[i], q) <=> Authorises(bare.rules[i], q)
    <3>1. CASE Constrained(current.rules[i])
      <4>1. bare.rules[i].hosts = {}
        BY <2>1, <2>2, <3>1 DEF KeptRule
      <4> QED BY <1>1, <3>1, <4>1 DEF Authorises, Covers, MatchesHost
    <3>2. CASE ~Constrained(current.rules[i])
      BY <2>2, <3>2
    <3> QED BY <3>1, <3>2
  <2>4. /\ Evaluate(current, q).action =
             IF \E i \in DOMAIN current.rules : Authorises(current.rules[i], q)
             THEN "allow" ELSE current.default
        /\ Evaluate(bare, q).action =
             IF \E i \in DOMAIN bare.rules : Authorises(bare.rules[i], q)
             THEN "allow" ELSE bare.default
    BY <2>1, <2>2, ActionIs
  <2>5. Evaluate(current, q).action = Evaluate(bare, q).action
    BY <2>2, <2>3, <2>4, Zenon
  <2> QED BY <2>5 DEF bare
<1>2. TypeOK => TunnelsNeedHostOnlyRules
  BY <1>1 DEF TunnelsNeedHostOnlyRules
<1> QED BY <1>2, TypeCorrect, PTL

(* The parts of an answer.                                                 *)
LEMMA AnswerParts ==
  ASSUME NEW a, NEW r, NEW m
  PROVE  /\ [action |-> a, rule |-> r, nearMiss |-> m].action = a
         /\ [action |-> a, rule |-> r, nearMiss |-> m].rule = r
         /\ [action |-> a, rule |-> r, nearMiss |-> m].nearMiss = m
OBVIOUS

(* The rule a denial names is the one at fault: without its constraints it *)
(* opens the tunnel, and it is the rule that does (policy.go:248-252).     *)
THEOREM NearMissIsTheCauseAlways == Spec => []NearMissIsTheCause
<1>1. ASSUME TypeOK, NEW q, Evaluate(current, q).nearMiss # ""
      PROVE  LET named == Evaluate(current, q).nearMiss
                 freed == [current EXCEPT !.rules = [i \in DOMAIN @ |->
                             IF @[i].name = named THEN Freed(@[i]) ELSE @[i]]]
             IN /\ Evaluate(current, q).action = "deny"
                /\ Evaluate(freed, q).action = "allow"
                /\ Evaluate(freed, q).rule = named
  <2> DEFINE named == Evaluate(current, q).nearMiss
             freed == [current EXCEPT !.rules = [i \in DOMAIN @ |->
                         IF @[i].name = named THEN Freed(@[i]) ELSE @[i]]]
             near  == {i \in DOMAIN current.rules : q.kind = "connect"
                         /\ Covers(current.rules[i], q) /\ Constrained(current.rules[i])}
             opens == {i \in DOMAIN freed.rules : Authorises(freed.rules[i], q)}
  <2>1. PICK d \in Documents :
          /\ Valid(d) /\ current = Kept(d)
          /\ Len(d.rules) \in Nat /\ DOMAIN current.rules = 1..Len(d.rules)
          /\ current.default \in {"allow", "deny"}
          /\ \A i \in DOMAIN current.rules : current.rules[i] = KeptRule(d.rules[i])
    BY <1>1, InForceShape
  <2>2. /\ ~\E i \in DOMAIN current.rules : Authorises(current.rules[i], q)
        /\ near # {}
        /\ Evaluate(current, q) = [action |-> "deny", rule |-> "",
                                   nearMiss |-> current.rules[Min(near)].name]
    BY <1>1 DEF Evaluate
  <2>n. \A i \in near : i \in DOMAIN current.rules /\ q.kind = "connect" /\ Covers(current.rules[i], q)
    OBVIOUS
  <2>3. Min(near) \in near
    <3>1. near \in SUBSET Nat
      BY <2>1
    <3> HIDE DEF near
    <3> QED BY <2>2, <3>1, MinBelongs
  <2>4. named = current.rules[Min(near)].name /\ Evaluate(current, q).action = "deny"
    <3> HIDE DEF near
    <3> DEFINE name == current.rules[Min(near)].name
    <3>1. Evaluate(current, q) = [action |-> "deny", rule |-> "", nearMiss |-> name]
      BY <2>2
    <3> HIDE DEF name
    <3>2. /\ [action |-> "deny", rule |-> "", nearMiss |-> name].nearMiss = name
          /\ [action |-> "deny", rule |-> "", nearMiss |-> name].action = "deny"
      BY AnswerParts
    <3> HIDE DEF Evaluate
    <3>3. Evaluate(current, q).nearMiss = name /\ Evaluate(current, q).action = "deny"
      BY <3>1, <3>2, Zenon
    <3> QED BY <3>3, Zenon DEF name, named
  <2>5. /\ DOMAIN freed.rules = DOMAIN current.rules
        /\ \A i \in DOMAIN current.rules :
             freed.rules[i] = IF current.rules[i].name = named
                              THEN Freed(current.rules[i]) ELSE current.rules[i]
    BY <2>1, Zenon DEF Kept
  <2> HIDE DEF named, freed
  <2>6. Min(near) \in opens
    <3> DEFINE r == current.rules[Min(near)]
    <3> HIDE DEF near
    <3>1. q.kind = "connect" /\ Covers(r, q) /\ Min(near) \in DOMAIN current.rules
      BY <2>n, <2>3
    <3>2. freed.rules[Min(near)] = Freed(r)
      BY <2>4, <2>5, <3>1
    <3> HIDE DEF r
    <3>3. Authorises(Freed(r), q)
      BY <3>1 DEF Authorises, Freed, Covers, MatchesHost, MatchesPort, Constrained
    <3>4. Min(near) \in DOMAIN freed.rules /\ Authorises(freed.rules[Min(near)], q)
      BY <2>5, <3>1, <3>2, <3>3, Zenon
    <3> QED BY <3>4
  <2>o. \A i \in opens : i \in DOMAIN freed.rules /\ Authorises(freed.rules[i], q)
    OBVIOUS
  <2>7. Min(opens) \in opens
    <3>1. opens \in SUBSET Nat
      BY <2>1, <2>5
    <3> HIDE DEF opens
    <3> QED BY <2>6, <3>1, MinBelongs
  <2>8. freed.rules[Min(opens)].name = named
    <3> DEFINE k == Min(opens)
    <3> HIDE DEF opens
    <3>1. k \in DOMAIN current.rules /\ Authorises(freed.rules[k], q)
      BY <2>5, <2>7, <2>o, Zenon
    <3> HIDE DEF k
    <3>2. current.rules[k].name = named
      BY <2>2, <2>5, <3>1, Zenon
    <3>3. Freed(current.rules[k]).name = current.rules[k].name
      BY DEF Freed
    <3>4. freed.rules[k].name = named
      BY <2>5, <3>1, <3>2, <3>3, Zenon
    <3> QED BY <3>4 DEF k
  <2>9. Evaluate(freed, q) = [action |-> "allow", rule |-> freed.rules[Min(opens)].name,
                              nearMiss |-> ""]
    BY <2>6 DEF Evaluate
  <2>10. Evaluate(freed, q).action = "allow" /\ Evaluate(freed, q).rule = named
    <3> HIDE DEF opens
    <3>1. Evaluate(freed, q) = [action |-> "allow", rule |-> named, nearMiss |-> ""]
      BY <2>8, <2>9, Zenon
    <3>2. /\ [action |-> "allow", rule |-> named, nearMiss |-> ""].action = "allow"
          /\ [action |-> "allow", rule |-> named, nearMiss |-> ""].rule = named
      BY AnswerParts
    <3> QED BY <3>1, <3>2, Zenon
  <2> QED BY <2>4, <2>10 DEF named, freed
<1>2. TypeOK => NearMissIsTheCause
  BY <1>1 DEF NearMissIsTheCause
<1> QED BY <1>2, TypeCorrect, PTL

(* A port that is written and in range is one Atoi accepts.                *)
LEMMA PortWritten ==
  ASSUME NEW p \in Seq(Nat), p # <<>>, PortInRange(p)
  PROVE  p[1] <= MaxInt
<1> DEFINE Ports == 1..MaxPort
<1>1. Len(p) # 0
  BY EmptySeq
<1>2. 1 \in DOMAIN p
  BY <1>1, LenProperties
<1>3. \A i \in DOMAIN p : p[i] \in Ports
  BY DEF PortInRange
<1>4. \A n \in Ports : n <= MaxInt
  <2> DEFINE last == MaxPort
  <2>1. MaxInt \in Nat /\ last \in Nat /\ last <= MaxInt /\ Ports = 1..last
    BY AtoiHoldsPorts DEF MaxPort
  <2> HIDE DEF Ports, last
  <2> QED BY <2>1
<1> HIDE DEF Ports
<1>5. p[1] \in Ports
  BY <1>2, <1>3
<1> QED BY <1>4, <1>5, Zenon

(* For a URL whose port is a port, check and the gate ask the same         *)
(* question, and check refuses first what the gate refuses unasked         *)
(* (run.go:577-587).                                                       *)
THEOREM CheckIsKeptAlways == Spec => []CheckIsKept
<1>1. ASSUME NEW u \in Links, NEW m \in Verbs, PortInRange(u.port),
             CheckAllows(current, u, m)
      PROVE  GateAllows(current, AsSent(u, m))
  <2> DEFINE w == AsSent(u, m)
             port == IF u.port = <<>> THEN DefaultPortFor(u.scheme) ELSE u.port[1]
  <2>u. u.host # <<>> /\ u.scheme # "" /\ u.port \in Seq(Nat) /\ Len(u.port) <= 1
    BY LinksAreAbsolute, Zenon
  <2>p. u.port # <<>> => u.port[1] <= MaxInt
    BY <2>u, <1>1, PortWritten
  <2>r. port = IF u.port # <<>> /\ u.port[1] <= MaxInt THEN u.port[1]
               ELSE DefaultPortFor(u.scheme)
    BY <2>p, Zenon
  <2>1. CASE u.scheme = "https"
    <3> DEFINE sent == IF u.port = <<>> THEN <<443>> ELSE u.port
    <3>1. w = [kind |-> "connect", scheme |-> "", host |-> u.host, port |-> sent,
               method |-> "", path |-> <<>>]
      BY <2>1 DEF AsSent
    <3>2. sent # <<>> /\ sent[1] = port /\ PortInRange(sent)
      <4>1. CASE u.port = <<>>
        <5>1. DefaultPortFor(u.scheme) = 443
          BY <2>1 DEF DefaultPortFor
        <5>2. sent = <<443>> /\ port = DefaultPortFor(u.scheme)
          BY <4>1, Zenon
        <5> HIDE DEF sent, port
        <5>3. 443 \in 1..MaxPort
          BY DEF MaxPort
        <5> QED BY <5>1, <5>2, <5>3 DEF PortInRange
      <4>2. CASE u.port # <<>>
        BY <4>2, <1>1, Zenon
      <4> QED BY <4>1, <4>2
    <3> HIDE DEF sent, w, port
    <3>3. ~Malformed(w)
      BY <3>1, <3>2, <2>u DEF Malformed
    <3>4. QuestionOf(w) = [kind |-> "connect", host |-> u.host, method |-> "",
                           path |-> <<>>, port |-> port]
      BY <3>1, <3>2 DEF QuestionOf
    <3>5. RequestFor(u, ToUpper(m)) = [kind |-> "connect", host |-> u.host, port |-> port,
                                       method |-> "", path |-> <<>>]
      BY <2>1, <2>r, Zenon DEF RequestFor
    <3>6. QuestionOf(w) = RequestFor(u, ToUpper(m))
      BY <3>4, <3>5
    <3> QED BY <1>1, <3>3, <3>6 DEF GateAllows, CheckAllows, w
  <2>2. CASE u.scheme # "https"
    <3>1. w = [kind |-> "http", scheme |-> u.scheme, host |-> u.host, port |-> u.port,
               method |-> ToUpper(m), path |-> PathOrRoot(u.path)]
      BY <2>2 DEF AsSent
    <3>2. RequestFor(u, ToUpper(m)) =
            [kind |-> "http", host |-> u.host, port |-> port,
             method |-> ToUpper(m), path |-> PathOrRoot(u.path)]
      BY <2>2, <2>r, Zenon DEF RequestFor
    <3>3. RequestFor(u, ToUpper(m)).kind = "http"
      BY <3>2
    <3> HIDE DEF w, port
    <3>4. Normalised(PathOrRoot(u.path))
      BY <1>1, <3>3 DEF CheckAllows
    <3>5. ~Malformed(w)
      BY <1>1, <3>1, <3>4, <2>u DEF Malformed
    <3>6. QuestionOf(w) = [kind |-> "http", host |-> u.host, method |-> ToUpper(m),
                           path |-> PathOrRoot(u.path), port |-> port]
      BY <3>1 DEF QuestionOf, port
    <3>7. QuestionOf(w) = RequestFor(u, ToUpper(m))
      BY <3>2, <3>6
    <3> QED BY <1>1, <3>5, <3>7 DEF GateAllows, CheckAllows, w
  <2> QED BY <2>1, <2>2
<1>2. CheckIsKept
  BY <1>1 DEF CheckIsKept
<1> QED BY <1>2, PTL

-----------------------------------------------------------------------------
(* The largest number of a bounded set is one of its members, and bounds   *)
(* them.                                                                   *)
LEMMA MaxBelongs ==
  ASSUME NEW n \in Nat, NEW S \in SUBSET (0..n), S # {}
  PROVE  Max(S) \in S /\ \A y \in S : Max(S) >= y
<1> DEFINE T == {n - x : x \in S}
<1>1. T \in SUBSET Nat
  <2>1. \A x \in S : n - x \in Nat
    OBVIOUS
  <2> QED BY <2>1
<1>2. T # {}
  OBVIOUS
<1>3. \E t \in T : \A u \in T : t <= u
  <2> HIDE DEF T
  <2> QED BY <1>1, <1>2, MinBelongs
<1>4. PICK x \in S : \A u \in T : n - x <= u
  BY <1>3
<1>5. \A y \in S : x >= y
  <2>1. \A y \in S : n - x <= n - y
    BY <1>4
  <2> QED BY <2>1
<1> QED BY <1>5 DEF Max

(* A text is a sequence.                                                   *)
LEMMA TextsAreSequences ==
  ASSUME NEW h, IsText(h)
  PROVE  \E S : h \in Seq(S)
<1> DEFINE piece(k) == h[k]
           len == Len(h)
           S == {piece(k) : k \in 1..len}
<1>1. h = [k \in 1..len |-> piece(k)] /\ len \in Nat
  BY Zenon DEF IsText
<1>2. [k \in 1..len |-> piece(k)] \in [1..len -> S]
  <2> HIDE DEF piece, len
  <2> QED OBVIOUS
<1> HIDE DEF piece, len, S
<1>3. h \in [1..len -> S]
  BY <1>1, <1>2, Zenon
<1> QED BY <1>1, <1>3, IsASeq

(* Trimming leaves a text whose ends are not blank.                        *)
LEMMA TrimmedShape ==
  ASSUME NEW S, NEW h \in Seq(S), TrimSpace(h) # <<>>
  PROVE  \E n \in Nat \ {0} :
           TrimSpace(h) \in [1..n -> S] /\ TrimSpace(h)[1] # " " /\ TrimSpace(h)[n] # " "
<1> DEFINE blank == " "
           solid == {i \in DOMAIN h : h[i] # blank}
           lo == Min(solid)
           hi == Max(solid)
           n == (hi - lo) + 1
<1>1. DOMAIN h = 1..Len(h) /\ Len(h) \in Nat
  BY LenProperties
<1>2. solid # {} /\ TrimSpace(h) = SubSeq(h, lo, hi)
  BY Zenon DEF TrimSpace
<1> HIDE DEF blank
<1>3. solid \in SUBSET (1..Len(h)) /\ \A i \in solid : h[i] # blank
  BY <1>1
<1> HIDE DEF solid
<1>4. lo \in solid /\ hi \in solid /\ lo <= hi
  <2>1. solid \in SUBSET Nat
    BY <1>1, <1>3
  <2>2. lo \in solid /\ \A y \in solid : lo <= y
    BY <1>2, <2>1, MinBelongs
  <2>3. hi \in solid
    <3>1. solid \in SUBSET (0..Len(h))
      BY <1>1, <1>3
    <3> QED BY <1>1, <1>2, <3>1, MaxBelongs
  <2> QED BY <2>2, <2>3
<1>5. lo \in 1..Len(h) /\ hi \in 1..Len(h) /\ h[lo] # blank /\ h[hi] # blank
  BY <1>3, <1>4
<1> HIDE DEF lo, hi
<1>6. n \in Nat \ {0} /\ lo \in Nat /\ hi \in Nat
  BY <1>1, <1>4, <1>5
<1>7. /\ SubSeq(h, lo, hi) \in Seq(S) /\ Len(SubSeq(h, lo, hi)) = n
      /\ \A k \in 1..n : SubSeq(h, lo, hi)[k] = h[lo + k - 1]
  <2>1. \A k \in lo..hi : h[k] \in S
    BY <1>1, <1>5
  <2>2. /\ SubSeq(h, lo, hi) \in Seq(S)
        /\ Len(SubSeq(h, lo, hi)) = IF lo <= hi THEN hi - lo + 1 ELSE 0
        /\ \A k \in 1..hi - lo + 1 : SubSeq(h, lo, hi)[k] = h[lo + k - 1]
    BY <1>6, <2>1, SubSeqProperties
  <2> QED BY <1>4, <2>2
<1>8. lo + 1 - 1 = lo /\ lo + n - 1 = hi /\ 1 \in 1..n /\ n \in 1..n
  BY <1>6
<1> HIDE DEF n
<1>9. TrimSpace(h)[1] # blank /\ TrimSpace(h)[n] # blank
  BY <1>2, <1>5, <1>7, <1>8
<1>10. TrimSpace(h) \in [1..n -> S]
  BY <1>2, <1>7, LenProperties
<1> QED BY <1>6, <1>9, <1>10, Zenon DEF blank

(* The form a host is kept in is the form it stays in: trimming and        *)
(* lowering it again changes nothing.                                      *)
LEMMA KeptHostStays ==
  ASSUME NEW S, NEW h \in Seq(S), KeptHost(h) # <<>>
  PROVE  KeptHost(KeptHost(h)) = KeptHost(h)
<1> DEFINE t == TrimSpace(h)
           low(x) == Folded(LowerOf, x)
           u == ToLower(t)
           blank == " "
<1>1. t # <<>>
  <2>1. ToLower(<<>>) = <<>>
    BY DEF ToLower
  <2> QED BY <2>1, Zenon DEF KeptHost
<1>2. PICK n \in Nat \ {0} : t \in [1..n -> S] /\ t[1] # blank /\ t[n] # blank
  BY <1>1, TrimmedShape, Zenon
<1>3. \A x : low(low(x)) = low(x) /\ (x # blank => low(x) # blank)
  BY FoldingSettles, Zenon DEF Folded
<1> HIDE DEF t, blank
<1>4. u = [k \in 1..n |-> low(t[k])]
  BY <1>2 DEF ToLower
<1> DEFINE T == {low(t[k]) : k \in 1..n}
<1> HIDE DEF low, u
<1>5. u \in [1..n -> T] /\ \A k \in 1..n : u[k] = low(t[k])
  BY <1>4
<1> HIDE DEF T
<1>6. /\ u \in Seq(T) /\ Len(u) = n /\ DOMAIN u = 1..n
      /\ 1 \in 1..n /\ n \in 1..n
      /\ u[1] # blank /\ u[n] # blank /\ \A k \in 1..n : low(u[k]) = u[k]
  <2>1. u \in Seq(T) /\ Len(u) = n
    BY <1>2, <1>5, IsASeq, LenProperties
  <2>2. 1 \in 1..n /\ n \in 1..n
    OBVIOUS
  <2> QED BY <1>2, <1>3, <1>5, <2>1, <2>2
<1> DEFINE solid == {i \in DOMAIN u : u[i] # blank}
<1>7. solid # {} /\ solid \in SUBSET (1..n) /\ 1 \in solid /\ n \in solid
  BY <1>6
<1>8. TrimSpace(u) = SubSeq(u, Min(solid), Max(solid))
  BY <1>7, Zenon DEF TrimSpace, blank
<1> HIDE DEF solid
<1>9. Min(solid) = 1 /\ Max(solid) = n
  <2>1. solid \in SUBSET Nat /\ n \in Nat
    BY <1>7
  <2>2. Min(solid) \in solid /\ Min(solid) <= 1
    BY <1>7, <2>1, MinBelongs
  <2>3. Max(solid) \in solid /\ Max(solid) >= n
    <3>1. solid \in SUBSET (0..n)
      BY <1>7
    <3> QED BY <1>7, <2>1, <3>1, MaxBelongs
  <2>4. \A x \in solid : x \in Nat /\ 1 <= x /\ x <= n
    BY <1>7
  <2>5. Min(solid) \in Nat /\ Max(solid) \in Nat /\ Min(solid) >= 1 /\ Max(solid) <= n
    BY <2>2, <2>3, <2>4
  <2> QED BY <2>1, <2>2, <2>3, <2>5
<1>10. SubSeq(u, 1, n) = u
  <2>1. /\ Len(SubSeq(u, 1, n)) = n /\ SubSeq(u, 1, n) \in Seq(T)
        /\ \A k \in 1..n : SubSeq(u, 1, n)[k] = u[k]
    BY <1>2, <1>6, SubSeqProperties
  <2> QED BY <1>6, <2>1, SeqEqual
<1>11. ToLower(u) = u
  <2>1. ToLower(u) = [k \in 1..n |-> low(u[k])]
    BY <1>6 DEF ToLower, low
  <2>2. u = [k \in 1..n |-> u[k]]
    BY <1>5
  <2> QED BY <1>6, <2>1, <2>2
<1>12. KeptHost(u) = u
  BY <1>8, <1>9, <1>10, <1>11, Zenon DEF KeptHost
<1> QED BY <1>12, Zenon DEF KeptHost, u, t

(* A rule that was judged valid is valid in the form it is kept in, and    *)
(* that form is final.                                                     *)
LEMMA KeptRuleStays ==
  ASSUME NEW r, ValidRule(r),
         \A h \in r.hosts : \E S : h \in Seq(S)
  PROVE  /\ ValidRule(KeptRule(r))
         /\ KeptRule(r).name = r.name
         /\ \A h \in KeptRule(r).hosts : KeptHost(h) = h
         /\ \A m \in KeptRule(r).methods : ToUpper(m) = m
<1> DEFINE k == KeptRule(r)
<1>1. /\ k.name = r.name /\ k.hosts = {KeptHost(h) : h \in r.hosts}
      /\ k.methods = {ToUpper(m) : m \in r.methods}
      /\ k.paths = r.paths /\ k.ports = r.ports /\ k.empty = r.empty
  BY DEF KeptRule
<1>2. ASSUME NEW h \in k.hosts PROVE KeptHost(h) = h /\ ValidHost(h)
  <2>1. PICK g \in r.hosts : h = KeptHost(g)
    BY <1>1, <1>2
  <2>2. ValidHost(KeptHost(g)) /\ KeptHost(g) # <<>>
    BY DEF ValidRule, ValidHost
  <2> QED BY <2>1, <2>2, KeptHostStays
<1>3. ASSUME NEW m \in k.methods PROVE ToUpper(m) = m /\ m \in KnownMethods
  <2>1. PICK w \in r.methods : m = ToUpper(w)
    BY <1>1, <1>3
  <2> QED BY <2>1, FoldingSettles DEF ValidRule, ToUpper, Folded
<1>4. k.hosts # {}
  BY <1>1 DEF ValidRule
<1> HIDE DEF k
<1>5. ValidRule(k)
  BY <1>1, <1>2, <1>3, <1>4, Zenon DEF ValidRule
<1> QED BY <1>1, <1>2, <1>3, <1>5 DEF k

(* The policy in force is a document validate accepts, with its hosts and  *)
(* methods in the form Evaluate compares requests with (policy.go:177-193, *)
(* 220-226): to keep a policy twice is to keep it once.                    *)
THEOREM InForceIsWellFormedAlways == Spec => []InForceIsWellFormed
<1>1. ASSUME TypeOK PROVE InForceIsWellFormed
  <2>1. PICK d \in Documents :
          /\ Valid(d) /\ current = Kept(d)
          /\ Len(d.rules) \in Nat /\ DOMAIN current.rules = 1..Len(d.rules)
          /\ current.default \in {"allow", "deny"}
          /\ \A i \in DOMAIN current.rules : current.rules[i] = KeptRule(d.rules[i])
    BY <1>1, InForceShape
  <2>2. d # Unparsable /\ DOMAIN d.rules = 1..Len(d.rules)
    BY <2>1, RulesAreLists DEF Valid
  <2>3. ASSUME NEW i \in DOMAIN current.rules
        PROVE  /\ ValidRule(current.rules[i])
               /\ current.rules[i].name = d.rules[i].name
               /\ \A h \in current.rules[i].hosts : KeptHost(h) = h
               /\ \A m \in current.rules[i].methods : ToUpper(m) = m
    <3>1. i \in DOMAIN d.rules /\ current.rules[i] = KeptRule(d.rules[i])
      BY <2>1, <2>2
    <3>2. ValidRule(d.rules[i])
      BY <2>1, <3>1 DEF Valid
    <3>3. \A h \in d.rules[i].hosts : \E S : h \in Seq(S)
      BY <2>2, <3>1, HostsAndPathsAreTexts, TextsAreSequences
    <3> QED BY <3>1, <3>2, <3>3, KeptRuleStays
  <2>4. current # Unparsable
    BY <1>1, ParseReturnsPolicies DEF TypeOK
  <2>5. current.version = 1
    BY <2>1 DEF Valid, Kept
  <2>6. ASSUME NEW i \in DOMAIN current.rules, NEW j \in 1..(i-1)
        PROVE  current.rules[j].name # current.rules[i].name
    <3>1. j \in DOMAIN current.rules /\ i \in DOMAIN d.rules
      BY <2>1, <2>2
    <3>2. d.rules[j].name # d.rules[i].name
      BY <2>1, <3>1 DEF Valid
    <3> QED BY <2>3, <3>1, <3>2
  <2>7. Valid(current)
    BY <2>1, <2>3, <2>4, <2>5, <2>6 DEF Valid
  <2> QED BY <2>3, <2>7 DEF InForceIsWellFormed
<1> QED BY <1>1, TypeCorrect, PTL

-----------------------------------------------------------------------------
(* Hosts and paths.  Evaluate compares bytes; the references of            *)
(* PolicyRules compare the parts of a text between its separators, each    *)
(* with its place.  What follows shows that the two agree on every text.   *)

(* The cuts of a text are among its positions and one more at either end.  *)
LEMMA CutsAre ==
  ASSUME NEW S, NEW t \in Seq(S), NEW sep
  PROVE  /\ Len(t) \in Nat /\ DOMAIN t = 1..Len(t)
         /\ Cuts(t, sep) \subseteq 0..(Len(t) + 1)
         /\ 0 \in Cuts(t, sep) /\ Len(t) + 1 \in Cuts(t, sep)
         /\ \A k \in 1..Len(t) : k \in Cuts(t, sep) <=> t[k] = sep
<1>1. Len(t) \in Nat /\ DOMAIN t = 1..Len(t)
  BY LenProperties
<1> QED BY <1>1 DEF Cuts

(* Every place in a text has a nearest cut to the right, and one to the    *)
(* left.                                                                   *)
LEMMA CutAbove ==
  ASSUME NEW S, NEW t \in Seq(S), NEW sep, NEW k \in 0..Len(t)
  PROVE  \E j \in Cuts(t, sep) : k < j /\ \A c \in Cuts(t, sep) : k < c => j <= c
<1> DEFINE above == {c \in Cuts(t, sep) : k < c}
<1>1. above \in SUBSET Nat /\ Len(t) + 1 \in above
  BY CutsAre
<1> HIDE DEF above
<1>2. Min(above) \in above /\ \A c \in above : Min(above) <= c
  BY <1>1, MinBelongs
<1> QED BY <1>2 DEF above

LEMMA CutBelow ==
  ASSUME NEW S, NEW t \in Seq(S), NEW sep, NEW k \in 1..(Len(t) + 1)
  PROVE  \E i \in Cuts(t, sep) : i < k /\ \A c \in Cuts(t, sep) : c < k => c <= i
<1> DEFINE below == {c \in Cuts(t, sep) : c < k}
<1>1. below \in SUBSET (0..k) /\ below \in SUBSET Nat /\ 0 \in below /\ k \in Nat
  BY CutsAre
<1> HIDE DEF below
<1>2. Max(below) \in below /\ \A c \in below : Max(below) >= c
  <2>1. below # {}
    BY <1>1
  <2> QED BY <1>1, <2>1, MaxBelongs
<1>3. Max(below) \in Nat /\ below \subseteq Nat
  BY <1>1, <1>2
<1> QED BY <1>2, <1>3 DEF below

(* Neighbouring cuts, and what lies between two of them.                   *)
Gap(t, sep, i, j) ==
  /\ i \in Cuts(t, sep) /\ j \in Cuts(t, sep) /\ i < j
  /\ \A c \in Cuts(t, sep) : ~(i < c /\ c < j)

Between(t, i, j) == SubSeq(t, i + 1, j - 1)

(* Gaps, segments and labels by the ends of their gaps.                    *)
LEMMA GapsArePairs ==
  ASSUME NEW t, NEW sep
  PROVE  /\ \A g \in Gaps(t, sep) : Gap(t, sep, g[1], g[2])
         /\ \A i, j : Gap(t, sep, i, j) => <<i, j>> \in Gaps(t, sep)
BY DEF Gaps, Gap

LEMMA SegmentsAre ==
  ASSUME NEW t, NEW s
  PROVE  s \in Segments(t)
           <=> \E i, j : Gap(t, "/", i, j) /\ s = [from |-> i, text |-> Between(t, i, j)]
<1>1. ASSUME NEW g \in Gaps(t, "/"), s = [from |-> g[1], text |-> Part(t, g)]
      PROVE  \E i, j : Gap(t, "/", i, j) /\ s = [from |-> i, text |-> Between(t, i, j)]
  BY <1>1, GapsArePairs, Zenon DEF Part, Between
<1>2. ASSUME NEW i, NEW j, Gap(t, "/", i, j), s = [from |-> i, text |-> Between(t, i, j)]
      PROVE  s \in Segments(t)
  <2>1. <<i, j>> \in Gaps(t, "/") /\ <<i, j>>[1] = i /\ <<i, j>>[2] = j
    BY <1>2, GapsArePairs
  <2>2. Part(t, <<i, j>>) = Between(t, i, j)
    BY <2>1 DEF Part, Between
  <2> QED BY <1>2, <2>1, <2>2 DEF Segments
<1> QED BY <1>1, <1>2, Zenon DEF Segments

LEMMA LabelsAre ==
  ASSUME NEW t, NEW l
  PROVE  l \in Labels(t)
           <=> \E i, j : /\ Gap(t, ".", i, j)
                        /\ l = [from |-> (Len(t) + 1) - j, text |-> Between(t, i, j)]
<1>1. ASSUME NEW g \in Gaps(t, "."), l = [from |-> (Len(t) + 1) - g[2], text |-> Part(t, g)]
      PROVE  \E i, j : /\ Gap(t, ".", i, j)
                       /\ l = [from |-> (Len(t) + 1) - j, text |-> Between(t, i, j)]
  BY <1>1, GapsArePairs, Zenon DEF Part, Between
<1>2. ASSUME NEW i, NEW j, Gap(t, ".", i, j),
             l = [from |-> (Len(t) + 1) - j, text |-> Between(t, i, j)]
      PROVE  l \in Labels(t)
  <2>1. <<i, j>> \in Gaps(t, ".") /\ <<i, j>>[1] = i /\ <<i, j>>[2] = j
    BY <1>2, GapsArePairs
  <2>2. Part(t, <<i, j>>) = Between(t, i, j)
    BY <2>1 DEF Part, Between
  <2> QED BY <1>2, <2>1, <2>2 DEF Labels
<1> QED BY <1>1, <1>2, Zenon DEF Labels

(* A part begins at every cut but the last.                                *)
LEMMA PartBegins ==
  ASSUME NEW S, NEW t \in Seq(S), NEW sep, NEW i \in Cuts(t, sep), i <= Len(t)
  PROVE  \E j : Gap(t, sep, i, j)
<1>1. i \in 0..Len(t)
  BY CutsAre
<1>2. PICK j \in Cuts(t, sep) : i < j /\ \A c \in Cuts(t, sep) : i < c => j <= c
  BY <1>1, CutAbove
<1>3. \A c \in Cuts(t, sep) : ~(i < c /\ c < j)
  BY <1>2, CutsAre
<1> QED BY <1>2, <1>3, Zenon DEF Gap

(* A part ends at every cut but the first.                                 *)
LEMMA PartEnds ==
  ASSUME NEW S, NEW t \in Seq(S), NEW sep, NEW j \in Cuts(t, sep), j >= 1
  PROVE  \E i : Gap(t, sep, i, j)
<1>1. j \in 1..(Len(t) + 1)
  BY CutsAre
<1>2. PICK i \in Cuts(t, sep) : i < j /\ \A c \in Cuts(t, sep) : c < j => c <= i
  BY <1>1, CutBelow
<1>3. \A c \in Cuts(t, sep) : ~(i < c /\ c < j)
  BY <1>2, CutsAre
<1> QED BY <1>2, <1>3, Zenon DEF Gap

(* What is no separator is inside a part.                                  *)
LEMMA PartAround ==
  ASSUME NEW S, NEW t \in Seq(S), NEW sep, NEW k \in 1..Len(t), t[k] # sep
  PROVE  \E i, j : Gap(t, sep, i, j) /\ i < k /\ k < j
<1>1. k \in 0..Len(t) /\ k \in 1..(Len(t) + 1) /\ k \notin Cuts(t, sep)
  BY CutsAre
<1>2. PICK i \in Cuts(t, sep) : i < k /\ \A c \in Cuts(t, sep) : c < k => c <= i
  BY <1>1, CutBelow
<1>3. PICK j \in Cuts(t, sep) : k < j /\ \A c \in Cuts(t, sep) : k < c => j <= c
  BY <1>1, CutAbove
<1>4. i < j /\ \A c \in Cuts(t, sep) : ~(i < c /\ c < j)
  BY <1>1, <1>2, <1>3, CutsAre
<1> QED BY <1>2, <1>3, <1>4, Zenon DEF Gap

(* What a part reads.                                                      *)
LEMMA PartReads ==
  ASSUME NEW S, NEW t \in Seq(S), NEW sep, NEW i, NEW j, Gap(t, sep, i, j)
  PROVE  /\ i \in 0..Len(t) /\ j \in 1..(Len(t) + 1) /\ i < j
         /\ Between(t, i, j) \in Seq(S)
         /\ Len(Between(t, i, j)) = j - i - 1
         /\ \A k \in 1..(j - i - 1) : Between(t, i, j)[k] = t[i + k]
<1>1. i \in 0..Len(t) /\ j \in 1..(Len(t) + 1) /\ i < j /\ Len(t) \in Nat
  BY CutsAre DEF Gap
<1>2. Between(t, i, j) = SubSeq(t, i + 1, j - 1)
  BY DEF Between
<1>3. CASE i + 1 <= j - 1
  <2>1. \A k \in (i + 1)..(j - 1) : k \in 1..Len(t)
    BY <1>1
  <2> QED BY <1>1, <1>2, <1>3, <2>1, SubSeqProperties
<1>4. CASE ~(i + 1 <= j - 1)
  <2>1. j - i - 1 = 0
    BY <1>1, <1>4
  <2>2. SubSeq(t, i + 1, j - 1) = <<>>
    BY <1>1, <1>4, SubSeqEmpty
  <2>3. <<>> \in Seq(S) /\ Len(<<>>) = 0 /\ 1..(j - i - 1) = {}
    BY <2>1
  <2> QED BY <1>1, <1>2, <2>1, <2>2, <2>3
<1> QED BY <1>3, <1>4

(* Where two texts agree between i and j, displaced by d, and both are cut *)
(* on either side, they have the same part.                                *)
Agree(t, u, d, i, j) == \A k \in (i + 1)..(j - 1) : u[k + d] = t[k]

LEMMA SamePart ==
  ASSUME NEW S, NEW t \in Seq(S), NEW U, NEW u \in Seq(U), NEW sep, NEW d \in Int,
         NEW i, NEW j, Gap(t, sep, i, j),
         i + d \in Cuts(u, sep), j + d \in Cuts(u, sep), Agree(t, u, d, i, j)
  PROVE  /\ Gap(u, sep, i + d, j + d)
         /\ Between(u, i + d, j + d) = Between(t, i, j)
<1>1. i \in 0..Len(t) /\ j \in 1..(Len(t) + 1) /\ i < j /\ Len(t) \in Nat
  BY PartReads, CutsAre
<1>2. i + d \in 0..(Len(u) + 1) /\ j + d \in 0..(Len(u) + 1) /\ Len(u) \in Nat
  BY CutsAre
<1>a. \A k \in (i + 1)..(j - 1) : u[k + d] = t[k]
  BY DEF Agree
<1>3. ASSUME NEW c \in Cuts(u, sep), i + d < c, c < j + d
      PROVE  FALSE
  <2>c. c \in 0..(Len(u) + 1)
    BY CutsAre
  <2>1. c \in 1..Len(u) /\ c - d \in (i + 1)..(j - 1) /\ c - d \in 1..Len(t)
    BY <1>1, <1>2, <1>3, <2>c
  <2>2. u[c] = sep /\ u[(c - d) + d] = t[c - d] /\ (c - d) + d = c
    BY <1>a, <2>1, CutsAre
  <2>3. c - d \in Cuts(t, sep)
    BY <2>1, <2>2, CutsAre
  <2>4. i < c - d /\ c - d < j
    BY <1>1, <2>1
  <2> QED BY <2>3, <2>4, Zenon DEF Gap
<1>4. Gap(u, sep, i + d, j + d)
  <2>1. i + d < j + d
    BY <1>1
  <2> QED BY <1>3, <2>1, Zenon DEF Gap
<1> DEFINE n == j - i - 1
           p == Between(t, i, j)
           q == Between(u, i + d, j + d)
<1>5. p \in Seq(S) /\ Len(p) = n /\ \A k \in 1..n : p[k] = t[i + k]
  BY PartReads
<1>6. q \in Seq(U) /\ Len(q) = n /\ \A k \in 1..n : q[k] = u[i + d + k]
  <2>1. (j + d) - (i + d) - 1 = n
    BY <1>1
  <2> QED BY <1>4, <2>1, PartReads
<1>7. \A k \in 1..n : q[k] = p[k]
  <2>1. ASSUME NEW k \in 1..n PROVE u[i + d + k] = t[i + k]
    <3>1. i + k \in (i + 1)..(j - 1) /\ (i + k) + d = i + d + k
      BY <1>1
    <3>2. u[(i + k) + d] = t[i + k]
      BY <1>a, <3>1
    <3> QED BY <3>1, <3>2
  <2> QED BY <1>5, <1>6, <2>1
<1>8. p = [k \in 1..n |-> p[k]] /\ q = [k \in 1..n |-> q[k]]
  <2> HIDE DEF p, q, n
  <2> QED BY <1>5, <1>6, LenProperties
<1> HIDE DEF p, q, n
<1>9. p = q
  BY <1>7, <1>8
<1> QED BY <1>4, <1>9 DEF p, q

(* And equal parts say that the texts agree there.                         *)
LEMMA SameText ==
  ASSUME NEW S, NEW t \in Seq(S), NEW U, NEW u \in Seq(U), NEW sep,
         NEW i, NEW j, Gap(t, sep, i, j),
         NEW a, NEW b, Gap(u, sep, a, b)
  PROVE  Between(u, a, b) = Between(t, i, j)
           => j - i = b - a /\ \A k \in (i + 1)..(j - 1) : u[k + (a - i)] = t[k]
<1>1. /\ i \in 0..Len(t) /\ j \in 1..(Len(t) + 1) /\ i < j /\ Len(t) \in Nat
      /\ a \in 0..Len(u) /\ b \in 1..(Len(u) + 1) /\ a < b /\ Len(u) \in Nat
  BY PartReads, CutsAre
<1>2. Len(Between(t, i, j)) = j - i - 1 /\ Len(Between(u, a, b)) = b - a - 1
  <2>1. Len(Between(t, i, j)) = j - i - 1
    BY PartReads
  <2>2. Len(Between(u, a, b)) = b - a - 1
    BY PartReads
  <2> QED BY <2>1, <2>2
<1>r. \A m \in 1..(j - i - 1) : Between(t, i, j)[m] = t[i + m]
  BY PartReads, SMTT(30)
<1>s. \A m \in 1..(b - a - 1) : Between(u, a, b)[m] = u[a + m]
  BY PartReads, SMTT(30)
<1> SUFFICES ASSUME Between(u, a, b) = Between(t, i, j)
             PROVE  j - i = b - a /\ \A k \in (i + 1)..(j - 1) : u[k + (a - i)] = t[k]
  OBVIOUS
<1>3. j - i = b - a
  <2>1. j - i - 1 = b - a - 1
    BY <1>2
  <2> QED BY <1>1, <2>1
<1>4. ASSUME NEW k \in (i + 1)..(j - 1) PROVE u[k + (a - i)] = t[k]
  <2> DEFINE m == k - i
  <2>1. m \in 1..(j - i - 1) /\ m \in 1..(b - a - 1) /\ i + m = k /\ a + m = k + (a - i)
    BY <1>1, <1>3
  <2> HIDE DEF m
  <2>2. Between(t, i, j)[m] = t[i + m] /\ Between(u, a, b)[m] = u[a + m]
    BY <2>1, <1>r, <1>s
  <2> QED BY <2>1, <2>2
<1> QED BY <1>3, <1>4

(* A text begins with another, position by position.                       *)
LEMMA PrefixIs ==
  ASSUME NEW P, NEW p \in Seq(P), NEW T, NEW t \in Seq(T)
  PROVE  IsPrefix(p, t) <=> Len(p) <= Len(t) /\ \A k \in 1..Len(p) : t[k] = p[k]
<1> DEFINE n == Len(p)
<1>1. n \in Nat /\ Len(t) \in Nat /\ DOMAIN p = 1..n /\ DOMAIN t = 1..Len(t)
  BY LenProperties
<1>2. SubSeq(p, 1, n) \in Seq(P) /\ Len(SubSeq(p, 1, n)) = n
      /\ \A k \in 1..n : SubSeq(p, 1, n)[k] = p[k]
  <2>1. \A k \in 1..n : p[k] \in P
    BY <1>1
  <2> QED BY <1>1, <2>1, SubSeqProperties
<1>3. ASSUME n <= Len(t)
      PROVE  SubSeq(t, 1, n) \in Seq(T) /\ Len(SubSeq(t, 1, n)) = n
             /\ \A k \in 1..n : SubSeq(t, 1, n)[k] = t[k]
  <2>1. \A k \in 1..n : t[k] \in T
    BY <1>1, <1>3
  <2> QED BY <1>1, <2>1, SubSeqProperties
<1>4. ASSUME n <= Len(t), \A k \in 1..n : t[k] = p[k]
      PROVE  SubSeq(p, 1, n) = SubSeq(t, 1, n)
  <2>1. \A k \in 1..n : SubSeq(p, 1, n)[k] = SubSeq(t, 1, n)[k]
    BY <1>2, <1>3, <1>4
  <2>2. SubSeq(p, 1, n) = [k \in 1..n |-> SubSeq(p, 1, n)[k]]
    BY <1>2
  <2>3. SubSeq(t, 1, n) = [k \in 1..n |-> SubSeq(t, 1, n)[k]]
    BY <1>3, <1>4
  <2> QED BY <2>1, <2>2, <2>3
<1> QED BY <1>2, <1>3, <1>4, Zenon DEF IsPrefix

(* Two texts of one length that read the same are one.                     *)
LEMMA SameTexts ==
  ASSUME NEW P, NEW p \in Seq(P), NEW T, NEW t \in Seq(T),
         Len(p) = Len(t), \A k \in 1..Len(p) : t[k] = p[k]
  PROVE  p = t
<1>1. DOMAIN p = 1..Len(p) /\ DOMAIN t = 1..Len(p)
  BY LenProperties
<1>2. p = [k \in 1..Len(p) |-> p[k]] /\ t = [k \in 1..Len(p) |-> t[k]]
  BY <1>1
<1> QED BY <1>2

(* The segments a prefix names, by its gaps.                               *)
Named(p) == Segments(p) \ {[from |-> Len(p), text |-> <<>>]}

Whole(p, j) == j <= Len(p) \/ p[Len(p)] # "/"

(* They are the segments of the gaps that end inside the prefix, and the   *)
(* last one too where the prefix does not end in a separator.              *)
LEMMA NamedAre ==
  ASSUME NEW P, NEW p \in Seq(P), Len(p) >= 1
  PROVE  /\ \A i, j : Gap(p, "/", i, j) /\ Whole(p, j)
                        => [from |-> i, text |-> Between(p, i, j)] \in Named(p)
         /\ \A s \in Named(p) : \E i, j : /\ Gap(p, "/", i, j) /\ Whole(p, j)
                                          /\ s = [from |-> i, text |-> Between(p, i, j)]
         /\ p[Len(p)] # "/" <=> Named(p) = Segments(p)
         /\ \A i, j : Gap(p, "/", i, j) /\ i < Len(p) => Whole(p, j)
<1> DEFINE n == Len(p)
           none == [from |-> n, text |-> <<>>]
<1>1. n \in Nat /\ n >= 1 /\ (n \in Cuts(p, "/") <=> p[n] = "/")
  BY CutsAre
<1>2. \A i, j : Gap(p, "/", i, j)
        => i \in 0..n /\ j \in 1..(n + 1) /\ i < j /\ i \in Cuts(p, "/")
           /\ \A c \in Cuts(p, "/") : ~(i < c /\ c < j)
  BY PartReads DEF Gap
<1>3. \A i, j : Gap(p, "/", i, j) /\ i < n => Whole(p, j)
  BY <1>1, <1>2 DEF Whole
<1>4. \A i, j : Gap(p, "/", i, j) /\ Whole(p, j) => i # n
  BY <1>1, <1>2 DEF Whole
<1>5. ASSUME NEW i, NEW j, Gap(p, "/", i, j), Whole(p, j)
      PROVE  [from |-> i, text |-> Between(p, i, j)] \in Named(p)
  <2>1. [from |-> i, text |-> Between(p, i, j)] \in Segments(p)
    BY <1>5, SegmentsAre
  <2>2. [from |-> i, text |-> Between(p, i, j)] # none
    BY <1>4, <1>5
  <2> QED BY <2>1, <2>2 DEF Named
<1>6. ASSUME NEW j, Gap(p, "/", n, j) PROVE Between(p, n, j) = <<>>
  <2>1. j = n + 1
    BY <1>1, <1>2, <1>6
  <2>2. SubSeq(p, n + 1, j - 1) = <<>>
    BY <1>1, <2>1, SubSeqEmpty
  <2> QED BY <2>2 DEF Between
<1>7. ASSUME NEW s \in Named(p)
      PROVE  \E i, j : /\ Gap(p, "/", i, j) /\ Whole(p, j)
                       /\ s = [from |-> i, text |-> Between(p, i, j)]
  <2>1. s \in Segments(p) /\ s # none
    BY DEF Named
  <2>2. PICK i, j : Gap(p, "/", i, j) /\ s = [from |-> i, text |-> Between(p, i, j)]
    BY <2>1, SegmentsAre
  <2>3. i # n
    BY <1>6, <2>1, <2>2
  <2>4. i < n
    BY <1>1, <1>2, <2>2, <2>3
  <2> QED BY <1>3, <2>2, <2>4
<1>8. ASSUME p[n] # "/" PROVE Named(p) = Segments(p)
  <2>1. none \notin Segments(p)
    <3>1. \A i, j : Gap(p, "/", i, j) => i # n
      BY <1>1, <1>2, <1>8
    <3>2. SUFFICES ASSUME none \in Segments(p) PROVE FALSE
      OBVIOUS
    <3>3. PICK i, j : Gap(p, "/", i, j) /\ none = [from |-> i, text |-> Between(p, i, j)]
      BY <3>2, SegmentsAre
    <3> QED BY <3>1, <3>3
  <2> QED BY <2>1 DEF Named
<1>9. ASSUME p[n] = "/" PROVE Named(p) # Segments(p)
  <2>1. PICK j : Gap(p, "/", n, j)
    BY <1>1, <1>9, PartBegins
  <2>2. [from |-> n, text |-> Between(p, n, j)] \in Segments(p)
    BY <2>1, SegmentsAre
  <2> QED BY <1>6, <2>1, <2>2 DEF Named
<1> QED BY <1>3, <1>5, <1>7, <1>8, <1>9

(* Whatever pathHasPrefix finds covers the segments.                       *)
LEMMA PrefixCovers ==
  ASSUME NEW P, NEW p \in Seq(P), Len(p) >= 1, NEW T, NEW t \in Seq(T),
         PathHasPrefix(t, p)
  PROVE  SegmentsMatch(p, t)
<1> DEFINE n == Len(p)
           m == Len(t)
<1>1. n \in Nat /\ m \in Nat /\ n >= 1 /\ n <= m /\ \A k \in 1..n : t[k] = p[k]
  BY PrefixIs, CutsAre DEF PathHasPrefix
<1>2. \A c \in Cuts(p, "/") : c <= n => c \in Cuts(t, "/")
  <2>1. ASSUME NEW c \in Cuts(p, "/"), c <= n PROVE c \in Cuts(t, "/")
    <3>1. CASE c = 0
      BY <3>1, CutsAre
    <3>2. CASE c # 0
      <4>1. c \in 1..n /\ c \in 1..m /\ p[c] = "/"
        BY <1>1, <2>1, <3>2, CutsAre
      <4> QED BY <1>1, <4>1, CutsAre
    <3> QED BY <3>1, <3>2
  <2> QED BY <2>1
<1>3. p[n] # "/" => n + 1 \in Cuts(t, "/")
  <2>1. CASE p[n] # "/" /\ m = n
    BY <2>1, CutsAre
  <2>2. CASE p[n] # "/" /\ m # n
    <3>1. t[n + 1] = "/" /\ n + 1 \in 1..m
      BY <1>1, <2>2 DEF PathHasPrefix
    <3> QED BY <3>1, CutsAre
  <2> QED BY <2>1, <2>2
<1>4. ASSUME NEW i, NEW j, Gap(p, "/", i, j), Whole(p, j)
      PROVE  [from |-> i, text |-> Between(p, i, j)] \in Segments(t)
  <2>1. i \in Cuts(p, "/") /\ j \in Cuts(p, "/") /\ i \in 0..n /\ j \in 1..(n + 1) /\ i < j
    BY <1>4, PartReads DEF Gap
  <2>2. i \in Cuts(t, "/")
    BY <1>1, <1>2, <2>1
  <2>3. j \in Cuts(t, "/")
    <3>1. CASE j <= n
      BY <1>2, <2>1, <3>1
    <3>2. CASE j = n + 1
      <4>1. p[n] # "/"
        BY <1>1, <1>4, <3>2 DEF Whole
      <4> QED BY <1>3, <3>2, <4>1
    <3> QED BY <1>1, <2>1, <3>1, <3>2
  <2>4. i + 0 = i /\ j + 0 = j /\ \A k \in (i + 1)..(j - 1) : t[k + 0] = p[k]
    <3>1. ASSUME NEW k \in (i + 1)..(j - 1) PROVE k + 0 = k /\ k \in 1..n
      BY <1>1, <2>1
    <3> QED BY <1>1, <2>1, <3>1
  <2>a. Agree(p, t, 0, i, j) /\ 0 \in Int
    BY <2>4 DEF Agree
  <2>5. Gap(t, "/", i + 0, j + 0) /\ Between(t, i + 0, j + 0) = Between(p, i, j)
    BY <1>4, <2>2, <2>3, <2>4, <2>a, SamePart
  <2>6. Gap(t, "/", i, j) /\ Between(t, i, j) = Between(p, i, j)
    BY <2>4, <2>5
  <2> QED BY <2>6, SegmentsAre
<1>5. Named(p) \subseteq Segments(t)
  BY <1>1, <1>4, NamedAre
<1>6. ASSUME Named(p) # Segments(p) PROVE Segments(t) # Named(p)
  <2>1. p[n] = "/"
    BY <1>1, <1>6, NamedAre
  <2>2. t[n] = "/" /\ n \in 1..m
    BY <1>1, <2>1
  <2>3. n \in Cuts(t, "/")
    BY <2>2, CutsAre
  <2>4. PICK j : Gap(t, "/", n, j)
    BY <1>1, <2>3, PartBegins
  <2>5. [from |-> n, text |-> Between(t, n, j)] \in Segments(t)
    BY <2>4, SegmentsAre
  <2>6. ASSUME NEW s \in Named(p) PROVE s.from # n
    <3>1. PICK i, k : /\ Gap(p, "/", i, k) /\ Whole(p, k)
                      /\ s = [from |-> i, text |-> Between(p, i, k)]
      BY <1>1, NamedAre
    <3>2. k <= n /\ i < k /\ i \in 0..n /\ k \in 1..(n + 1)
      BY <2>1, <3>1, PartReads DEF Whole
    <3> QED BY <1>1, <3>1, <3>2
  <2> QED BY <2>5, <2>6
<1> QED BY <1>5, <1>6 DEF SegmentsMatch, Named

(* And what has the segments is found by pathHasPrefix.                    *)
LEMMA CoveredHasPrefix ==
  ASSUME NEW P, NEW p \in Seq(P), Len(p) >= 1, NEW T, NEW t \in Seq(T),
         SegmentsMatch(p, t)
  PROVE  PathHasPrefix(t, p)
<1> DEFINE n == Len(p)
           m == Len(t)
<1>1. n \in Nat /\ m \in Nat /\ n >= 1
  BY CutsAre
<1>2. Named(p) \subseteq Segments(t) /\ (Named(p) # Segments(p) => Segments(t) # Named(p))
  BY DEF SegmentsMatch, Named
<1>3. ASSUME NEW i, NEW j, Gap(p, "/", i, j), Whole(p, j)
      PROVE  Gap(t, "/", i, j) /\ \A k \in (i + 1)..(j - 1) : t[k] = p[k]
  <2>1. [from |-> i, text |-> Between(p, i, j)] \in Segments(t)
    BY <1>1, <1>2, <1>3, NamedAre
  <2>2. PICK a, b : Gap(t, "/", a, b) /\ [from |-> i, text |-> Between(p, i, j)]
                                           = [from |-> a, text |-> Between(t, a, b)]
    BY <2>1, SegmentsAre
  <2>3. a = i /\ Between(t, a, b) = Between(p, i, j)
    BY <2>2
  <2>4. /\ i \in 0..n /\ j \in 1..(n + 1) /\ a \in 0..m /\ b \in 1..(m + 1)
    BY <1>3, <2>2, PartReads
  <2>5. j - i = b - a /\ \A k \in (i + 1)..(j - 1) : t[k + (a - i)] = p[k]
    BY <1>3, <2>2, <2>3, SameText
  <2>6. b = j /\ a - i = 0
    BY <1>1, <2>3, <2>4, <2>5
  <2>7. \A k \in (i + 1)..(j - 1) : k + (a - i) = k
    BY <2>4, <2>6
  <2> QED BY <2>2, <2>3, <2>5, <2>6, <2>7
<1>4. ASSUME NEW k \in 1..n, p[k] # "/" PROVE k <= m /\ t[k] = p[k]
  <2>1. PICK i, j : Gap(p, "/", i, j) /\ i < k /\ k < j
    BY <1>4, PartAround
  <2>2. i \in 0..n /\ j \in 1..(n + 1) /\ \A c \in Cuts(p, "/") : ~(i < c /\ c < j)
    BY <2>1, PartReads DEF Gap
  <2>3. i < n
    BY <1>1, <2>1, <2>2
  <2>4. Whole(p, j)
    BY <1>1, <2>1, <2>3, NamedAre
  <2>5. Gap(t, "/", i, j) /\ k \in (i + 1)..(j - 1)
    BY <1>3, <2>1, <2>2, <2>4
  <2>6. j \in 1..(m + 1)
    BY <2>5, PartReads
  <2> QED BY <1>1, <1>3, <2>1, <2>4, <2>5, <2>6
<1>5. ASSUME NEW k \in 1..n, p[k] = "/" PROVE k \in Cuts(t, "/") /\ k <= m + 1
  <2>1. k \in Cuts(p, "/") /\ k >= 1
    BY <1>1, <1>5, CutsAre
  <2>2. PICK i : Gap(p, "/", i, k)
    BY <2>1, PartEnds
  <2>3. Whole(p, k)
    BY <1>1 DEF Whole
  <2>4. k \in Cuts(t, "/")
    BY <1>3, <2>2, <2>3 DEF Gap
  <2> QED BY <1>1, <2>4, CutsAre
<1>6. ASSUME NEW k \in 1..n, p[k] = "/", k < n PROVE k <= m
  <2>1. k \in Cuts(p, "/") /\ k <= n
    BY <1>1, <1>6, CutsAre
  <2>2. PICK j : Gap(p, "/", k, j)
    BY <2>1, PartBegins
  <2>3. Whole(p, j)
    BY <1>1, <1>6, <2>2, NamedAre
  <2>4. Gap(t, "/", k, j)
    BY <1>3, <2>2, <2>3
  <2> QED BY <2>4, PartReads, <1>1
<1>7. \A k \in 1..n : k <= m => t[k] = p[k]
  <2>1. ASSUME NEW k \in 1..n, k <= m, p[k] = "/" PROVE t[k] = p[k]
    <3>1. k \in Cuts(t, "/") /\ k \in 1..m
      BY <1>1, <1>5, <2>1
    <3> QED BY <2>1, <3>1, CutsAre
  <2> QED BY <1>4, <2>1
<1>8. n <= m
  <2> SUFFICES ASSUME m < n PROVE FALSE
    BY <1>1
  <2>1. n \in 1..n /\ p[n] = "/"
    BY <1>1, <1>4
  <2>2. m = n - 1
    BY <1>1, <1>5, <2>1
  <2>3. \A c \in Cuts(t, "/") : c \in Cuts(p, "/")
    <3>1. ASSUME NEW c \in Cuts(t, "/") PROVE c \in Cuts(p, "/")
      <4>1. CASE c = 0
        BY <4>1, CutsAre
      <4>2. CASE c = m + 1
        <5>1. c = n
          BY <1>1, <2>2, <4>2
        <5> QED BY <2>1, <5>1, CutsAre
      <4>3. CASE c # 0 /\ c # m + 1
        <5>1. c \in 1..m /\ c \in 1..n /\ t[c] = "/"
          BY <1>1, <2>2, <4>3, CutsAre
        <5>2. p[c] = "/"
          BY <1>1, <1>7, <5>1
        <5> QED BY <5>1, <5>2, CutsAre
      <4> QED BY <4>1, <4>2, <4>3
    <3> QED BY <3>1
  <2>4. ASSUME NEW s \in Segments(t) PROVE s \in Named(p)
    <3>1. PICK i, j : Gap(t, "/", i, j) /\ s = [from |-> i, text |-> Between(t, i, j)]
      BY SegmentsAre
    <3>2. i \in 0..m /\ j \in 1..(m + 1) /\ i < j /\ i \in Cuts(t, "/") /\ j \in Cuts(t, "/")
      BY <3>1, PartReads DEF Gap
    <3>3. i + 0 = i /\ j + 0 = j /\ \A k \in (i + 1)..(j - 1) : p[k + 0] = t[k]
      <4>1. ASSUME NEW k \in (i + 1)..(j - 1) PROVE k + 0 = k /\ k \in 1..n /\ k <= m
        BY <1>1, <2>2, <3>2
      <4> QED BY <1>7, <3>2, <4>1
    <3>4. Gap(p, "/", i + 0, j + 0) /\ Between(p, i + 0, j + 0) = Between(t, i, j)
      <4>1. 0 \in Int /\ i + 0 \in Cuts(p, "/") /\ j + 0 \in Cuts(p, "/")
        BY <2>3, <3>2, <3>3
      <4>2. Agree(t, p, 0, i, j)
        BY <3>3 DEF Agree
      <4> QED BY <3>1, <4>1, <4>2, SamePart
    <3>5. Gap(p, "/", i, j) /\ Between(p, i, j) = Between(t, i, j)
      BY <3>3, <3>4
    <3>6. Whole(p, j)
      BY <1>1, <2>2, <3>2 DEF Whole
    <3> QED BY <1>1, <3>1, <3>5, <3>6, NamedAre
  <2>5. Segments(t) = Named(p)
    BY <1>2, <2>4
  <2>6. Named(p) # Segments(p)
    BY <1>1, <2>1, NamedAre
  <2> QED BY <1>2, <2>5, <2>6
<1>9. IsPrefix(p, t)
  <2>1. \A k \in 1..n : t[k] = p[k]
    BY <1>1, <1>7, <1>8
  <2> QED BY <1>8, <2>1, PrefixIs
<1>10. ASSUME p[n] # "/" PROVE t = p \/ t[n + 1] = "/"
  <2>1. n + 1 \in Cuts(p, "/") /\ n + 1 >= 1
    BY <1>1, CutsAre
  <2>2. PICK i : Gap(p, "/", i, n + 1)
    BY <2>1, PartEnds
  <2>3. Whole(p, n + 1)
    BY <1>10 DEF Whole
  <2>4. n + 1 \in Cuts(t, "/")
    BY <1>3, <2>2, <2>3 DEF Gap
  <2>5. CASE m = n
    <3>1. \A k \in 1..n : t[k] = p[k]
      BY <1>1, <1>7, <1>8
    <3> QED BY <2>5, <3>1, SameTexts
  <2>6. CASE m # n
    <3>1. n + 1 \in 1..m
      BY <1>1, <1>8, <2>6
    <3> QED BY <2>4, <3>1, CutsAre
  <2> QED BY <2>5, <2>6
<1> QED BY <1>9, <1>10 DEF PathHasPrefix

-----------------------------------------------------------------------------
(* A text ends in another, position by position.                           *)
LEMMA SuffixIs ==
  ASSUME NEW P, NEW s \in Seq(P), NEW T, NEW t \in Seq(T)
  PROVE  IsSuffix(s, t) <=>
           Len(s) <= Len(t) /\ \A k \in 1..Len(s) : t[k + (Len(t) - Len(s))] = s[k]
<1> DEFINE n == Len(s)
           m == Len(t)
           rs == Reverse(s)
           rt == Reverse(t)
<1>1. n \in Nat /\ m \in Nat /\ DOMAIN s = 1..n /\ DOMAIN t = 1..m
  BY LenProperties
<1>2. rs \in Seq(P) /\ Len(rs) = n /\ \A k \in 1..n : rs[k] = s[(n - k) + 1]
  <2>1. rs = [k \in 1..n |-> s[(n - k) + 1]]
    BY DEF Reverse
  <2>2. \A k \in 1..n : (n - k) + 1 \in 1..n
    BY <1>1
  <2>3. rs \in [1..n -> P]
    BY <1>1, <2>1, <2>2
  <2> QED BY <1>1, <2>1, <2>3, IsASeq, LenProperties
<1>3. rt \in Seq(T) /\ Len(rt) = m /\ \A k \in 1..m : rt[k] = t[(m - k) + 1]
  <2>1. rt = [k \in 1..m |-> t[(m - k) + 1]]
    BY DEF Reverse
  <2>2. \A k \in 1..m : (m - k) + 1 \in 1..m
    BY <1>1
  <2>3. rt \in [1..m -> T]
    BY <1>1, <2>1, <2>2
  <2> QED BY <1>1, <2>1, <2>3, IsASeq, LenProperties
<1>4. IsSuffix(s, t) <=> n <= m /\ \A k \in 1..n : rt[k] = rs[k]
  <2> HIDE DEF rs, rt
  <2>1. IsPrefix(rs, rt) <=> Len(rs) <= Len(rt) /\ \A k \in 1..Len(rs) : rt[k] = rs[k]
    BY <1>2, <1>3, PrefixIs
  <2> QED BY <1>2, <1>3, <2>1 DEF IsSuffix, rs, rt
<1>5. ASSUME n <= m, NEW k \in 1..n
      PROVE  (n - k) + 1 \in 1..n /\ (n - ((n - k) + 1)) + 1 = k /\ k \in 1..m
             /\ (m - k) + 1 = ((n - k) + 1) + (m - n) /\ (m - ((n - k) + 1)) + 1 = k + (m - n)
  BY <1>1, <1>5
<1> HIDE DEF rs, rt, n, m
<1>6. ASSUME n <= m, \A k \in 1..n : rt[k] = rs[k], NEW k \in 1..n
      PROVE  t[k + (m - n)] = s[k]
  <2> DEFINE l == (n - k) + 1
  <2>1. l \in 1..n /\ l \in 1..m /\ (n - l) + 1 = k /\ (m - l) + 1 = k + (m - n)
    BY <1>1, <1>5, <1>6
  <2> HIDE DEF l
  <2>2. rt[l] = t[(m - l) + 1] /\ rs[l] = s[(n - l) + 1]
    BY <1>2, <1>3, <2>1
  <2>3. rt[l] = rs[l]
    BY <1>6, <2>1
  <2> QED BY <2>1, <2>2, <2>3, Zenon
<1>7. ASSUME n <= m, \A k \in 1..n : t[k + (m - n)] = s[k], NEW k \in 1..n
      PROVE  rt[k] = rs[k]
  <2> DEFINE l == (n - k) + 1
  <2>1. l \in 1..n /\ k \in 1..m /\ (m - k) + 1 = l + (m - n)
    BY <1>1, <1>5, <1>7
  <2>2. rt[k] = t[(m - k) + 1] /\ rs[k] = s[l]
    BY <1>2, <1>3, <2>1
  <2> HIDE DEF l
  <2> QED BY <1>7, <2>1, <2>2
<1> QED BY <1>4, <1>6, <1>7 DEF n, m

(* hostMatches for a wildcard, position by position: the host ends in the  *)
(* pattern behind its "*", and what is before has no empty label.          *)
LEMMA WildcardMatches ==
  ASSUME NEW P, NEW p \in Seq(P), IsPrefix(Wildcard, p), NEW T, NEW h \in Seq(T), NEW d,
         d = Len(h) - Len(p)
  PROVE  HostMatches(p, h) <=>
           /\ d >= 0 /\ \A k \in 2..Len(p) : h[k + d] = p[k]
           /\ h[1] # "." /\ h[d + 1] # "."
           /\ \A k \in 1..d : ~(h[k] = "." /\ h[k + 1] = ".")
<1> DEFINE n == Len(p)
           m == Len(h)
           suffix == Tail(p)
           rest == SubSeq(h, 1, Len(h) - Len(suffix))
<1>1. n \in Nat /\ m \in Nat /\ n >= 2 /\ DOMAIN h = 1..m /\ DOMAIN p = 1..n
  <2>1. Wildcard \in Seq({"*", "."}) /\ Len(Wildcard) = 2
    BY DEF Wildcard
  <2> QED BY <2>1, PrefixIs, LenProperties
<1>2. suffix \in Seq(P) /\ Len(suffix) = n - 1 /\ \A k \in 1..(n - 1) : suffix[k] = p[k + 1]
  <2>1. p # <<>>
    BY <1>1
  <2> QED BY <1>1, <2>1, HeadTailProperties
<1> HIDE DEF suffix
<1>3. IsSuffix(suffix, h) <=> n - 1 <= m /\ \A k \in 2..n : h[k + d] = p[k]
  <2>1. IsSuffix(suffix, h) <=>
          n - 1 <= m /\ \A k \in 1..(n - 1) : h[k + (m - (n - 1))] = suffix[k]
    <3>1. IsSuffix(suffix, h) <=>
            /\ Len(suffix) <= Len(h)
            /\ \A k \in 1..Len(suffix) : h[k + (Len(h) - Len(suffix))] = suffix[k]
      BY <1>2, SuffixIs
    <3> QED BY <1>2, <3>1
  <2>2. ASSUME NEW k \in 1..(n - 1)
        PROVE  k + 1 \in 2..n /\ k + (m - (n - 1)) = (k + 1) + d
    BY <1>1
  <2>3. ASSUME NEW k \in 2..n
        PROVE  k - 1 \in 1..(n - 1) /\ (k - 1) + 1 = k /\ (k - 1) + (m - (n - 1)) = k + d
    BY <1>1
  <2>4. (\A k \in 1..(n - 1) : h[k + (m - (n - 1))] = suffix[k])
          => \A k \in 2..n : h[k + d] = p[k]
    <3> SUFFICES ASSUME \A k \in 1..(n - 1) : h[k + (m - (n - 1))] = suffix[k],
                        NEW k \in 2..n
                 PROVE  h[k + d] = p[k]
      OBVIOUS
    <3>1. h[(k - 1) + (m - (n - 1))] = suffix[k - 1] /\ suffix[k - 1] = p[(k - 1) + 1]
      BY <1>2, <2>3
    <3> QED BY <2>3, <3>1
  <2>5. (\A k \in 2..n : h[k + d] = p[k])
          => \A k \in 1..(n - 1) : h[k + (m - (n - 1))] = suffix[k]
    <3> SUFFICES ASSUME \A k \in 2..n : h[k + d] = p[k], NEW k \in 1..(n - 1)
                 PROVE  h[k + (m - (n - 1))] = suffix[k]
      OBVIOUS
    <3>1. h[(k + 1) + d] = p[k + 1] /\ suffix[k] = p[k + 1]
      BY <1>2, <2>2
    <3> QED BY <2>2, <3>1
  <2> QED BY <2>1, <2>4, <2>5
<1>4. IsSuffix(suffix, h) => (suffix # h <=> m # n - 1)
  <2>1. ASSUME IsSuffix(suffix, h), m = n - 1 PROVE suffix = h
    <3>1. \A k \in 1..(n - 1) : h[k] = suffix[k]
      <4>1. \A k \in 1..(n - 1) : h[k + (m - (n - 1))] = suffix[k]
        BY <1>2, <2>1, SuffixIs
      <4>2. \A k \in 1..(n - 1) : k + (m - (n - 1)) = k
        BY <1>1, <2>1
      <4> QED BY <4>1, <4>2
    <3> QED BY <1>2, <2>1, <3>1, SameTexts
  <2> QED BY <1>2, <2>1
<1>5. IsStrictSuffix(suffix, h) <=> d >= 0 /\ \A k \in 2..n : h[k + d] = p[k]
  <2>1. (n - 1 <= m /\ m # n - 1) <=> d >= 0
    <3>1. d = m - n /\ n \in Int /\ m \in Int
      BY <1>1
    <3> HIDE DEF n, m
    <3> QED BY <3>1
  <2>2. d >= 0 => n - 1 <= m
    BY <1>1
  <2> QED BY <1>3, <1>4, <2>1, <2>2, Zenon DEF IsStrictSuffix
<1>6. ASSUME d >= 0
      PROVE  Len(rest) = d + 1 /\ \A k \in 1..(d + 1) : rest[k] = h[k]
  <2>1. m - (n - 1) = d + 1 /\ d + 1 \in Nat /\ d + 1 <= m
    BY <1>1, <1>6
  <2>2. \A k \in 1..(d + 1) : h[k] \in T
    BY <1>1, <2>1
  <2>3. rest = SubSeq(h, 1, d + 1)
    BY <1>2, <2>1
  <2>4. /\ Len(SubSeq(h, 1, d + 1)) = IF 1 <= d + 1 THEN (d + 1) - 1 + 1 ELSE 0
        /\ \A k \in 1..((d + 1) - 1 + 1) : SubSeq(h, 1, d + 1)[k] = h[1 + k - 1]
    BY <2>1, <2>2, SubSeqProperties
  <2>5. d \in Nat
    BY <1>1, <1>6
  <2>6. 1 <= d + 1 /\ (d + 1) - 1 + 1 = d + 1 /\ \A k \in 1..(d + 1) : 1 + k - 1 = k
    BY <2>5
  <2> QED BY <2>3, <2>4, <2>6
<1>7. HostMatches(p, h) <=>
        /\ IsStrictSuffix(suffix, h)
        /\ rest[1] # "." /\ rest[Len(rest)] # "."
        /\ \A k \in 1..(Len(rest) - 1) : ~(rest[k] = "." /\ rest[k + 1] = ".")
  BY Zenon DEF HostMatches, suffix
<1> HIDE DEF rest
<1>8. ASSUME d >= 0
      PROVE  /\ rest[1] = h[1] /\ rest[Len(rest)] = h[d + 1]
             /\ \A k \in 1..d : rest[k] = h[k] /\ rest[k + 1] = h[k + 1]
             /\ Len(rest) - 1 = d
  <2>1. /\ d \in Nat /\ 1 \in 1..(d + 1) /\ d + 1 \in 1..(d + 1)
        /\ \A k \in 1..d : k \in 1..(d + 1) /\ k + 1 \in 1..(d + 1)
        /\ (d + 1) - 1 = d
    BY <1>1, <1>8
  <2>2. Len(rest) = d + 1 /\ \A k \in 1..(d + 1) : rest[k] = h[k]
    BY <1>6, <1>8
  <2>3. rest[1] = h[1] /\ rest[Len(rest)] = h[d + 1] /\ Len(rest) - 1 = d
    BY <2>1, <2>2
  <2>4. \A k \in 1..d : rest[k] = h[k] /\ rest[k + 1] = h[k + 1]
    BY <2>1, <2>2
  <2> QED BY <2>3, <2>4
<1>9. CASE d >= 0
  <2> DEFINE Ends == h[1] # "." /\ h[d + 1] # "."
             Inside == \A k \in 1..d : ~(h[k] = "." /\ h[k + 1] = ".")
  <2>1. rest[1] # "." /\ rest[Len(rest)] # "." <=> Ends
    BY <1>8, <1>9
  <2>2. (\A k \in 1..(Len(rest) - 1) : ~(rest[k] = "." /\ rest[k + 1] = ".")) <=> Inside
    BY <1>8, <1>9
  <2> QED BY <1>5, <1>7, <2>1, <2>2, Zenon
<1>10. CASE ~(d >= 0)
  BY <1>5, <1>7, <1>10, Zenon
<1> QED BY <1>9, <1>10, Zenon

(* The labels a pattern names, by its gaps.                                *)
Plain(p) == {l \in Labels(p) : l.text # <<"*">>}

LabelOf(t, i, j) == [from |-> (Len(t) + 1) - j, text |-> Between(t, i, j)]

(* Where a valid pattern has its "*" (policy.go:177-193).                  *)
LEMMA PatternShape ==
  ASSUME NEW P, NEW p \in Seq(P), ValidHost(p)
  PROVE  /\ Len(p) \in Nat /\ Len(p) >= 1
         /\ IsPrefix(Wildcard, p) =>
              /\ Len(p) >= 3 /\ p[1] = "*" /\ p[2] = "."
              /\ \A k \in 3..Len(p) : p[k] # "*"
         /\ ~IsPrefix(Wildcard, p) => \A k \in 1..Len(p) : p[k] # "*"
<1>1. Wildcard \in Seq({"*", "."}) /\ Len(Wildcard) = 2 /\ Wildcard[1] = "*" /\ Wildcard[2] = "."
  BY DEF Wildcard
<1>2. Len(p) \in Nat /\ DOMAIN p = 1..Len(p) /\ Len(p) >= 1
  <2>1. p # <<>>
    BY DEF ValidHost
  <2> QED BY <2>1, EmptySeq, LenProperties
<1>3. IsPrefix(Wildcard, p) => Len(p) >= 2 /\ p[1] = "*" /\ p[2] = "."
  BY <1>1, PrefixIs
<1>4. ASSUME NEW k \in 1..Len(p), p[k] = "*"
      PROVE  IsPrefix(Wildcard, p) /\ p # Wildcard /\ \A i \in 3..Len(p) : p[i] # "*"
  BY <1>2, <1>4 DEF ValidHost, IsStrictPrefix
<1>5. ASSUME IsPrefix(Wildcard, p)
      PROVE  Len(p) >= 3 /\ \A i \in 3..Len(p) : p[i] # "*"
  <2>1. 1 \in 1..Len(p) /\ p[1] = "*"
    BY <1>2, <1>3, <1>5
  <2>2. p # Wildcard /\ \A i \in 3..Len(p) : p[i] # "*"
    BY <1>4, <2>1
  <2>3. Len(p) # 2
    <3>1. SUFFICES ASSUME Len(p) = 2 PROVE FALSE
      OBVIOUS
    <3>2. Len(Wildcard) = Len(p) /\ \A k \in 1..Len(Wildcard) : p[k] = Wildcard[k]
      BY <1>1, <1>3, <1>5, <3>1
    <3> QED BY <1>1, <2>2, <3>2, SameTexts
  <2> QED BY <1>2, <1>3, <1>5, <2>2, <2>3
<1> QED BY <1>2, <1>3, <1>4, <1>5

LEMMA LabelsBy ==
  ASSUME NEW t
  PROVE  /\ \A i, j : Gap(t, ".", i, j) => LabelOf(t, i, j) \in Labels(t)
         /\ \A l \in Labels(t) : \E i, j : Gap(t, ".", i, j) /\ l = LabelOf(t, i, j)
BY LabelsAre, Zenon DEF LabelOf

(* Where two texts agree, counted from their ends, they have one label;    *)
(* and where they have one label they agree.                               *)
LEMMA SameLabel ==
  ASSUME NEW P, NEW p \in Seq(P), NEW T, NEW h \in Seq(T), NEW d, d = Len(h) - Len(p),
         NEW i, NEW j, Gap(p, ".", i, j), i + d \in Cuts(h, "."), j + d \in Cuts(h, "."),
         Agree(p, h, d, i, j)
  PROVE  LabelOf(p, i, j) \in Labels(h)
<1>1. Len(p) \in Nat /\ Len(h) \in Nat /\ d \in Int
  BY CutsAre
<1>2. Gap(h, ".", i + d, j + d) /\ Between(h, i + d, j + d) = Between(p, i, j)
  BY <1>1, SamePart
<1>3. j \in 1..(Len(p) + 1)
  BY PartReads
<1>4. (Len(h) + 1) - (j + d) = (Len(p) + 1) - j
  BY <1>1, <1>3
<1>5. LabelOf(h, i + d, j + d) = LabelOf(p, i, j)
  BY <1>2, <1>4 DEF LabelOf
<1> QED BY <1>2, <1>5, LabelsBy

(* Places counted from the ends of two texts of lengths n and m.           *)
LEMMA Displaced ==
  ASSUME NEW n \in Int, NEW m \in Int, NEW i \in Int, NEW j \in Int, NEW a \in Int,
         NEW b \in Int, (n + 1) - j = (m + 1) - b, j - i = b - a
  PROVE  b = j + (m - n) /\ a = i + (m - n) /\ a - i = m - n
OBVIOUS

LEMMA LabelAgrees ==
  ASSUME NEW P, NEW p \in Seq(P), NEW T, NEW h \in Seq(T), NEW d, d = Len(h) - Len(p),
         NEW i, NEW j, Gap(p, ".", i, j), LabelOf(p, i, j) \in Labels(h)
  PROVE  Gap(h, ".", i + d, j + d) /\ \A k \in (i + 1)..(j - 1) : h[k + d] = p[k]
<1>1. PICK a, b : Gap(h, ".", a, b) /\ LabelOf(p, i, j) = LabelOf(h, a, b)
  BY LabelsBy
<1>2. (Len(p) + 1) - j = (Len(h) + 1) - b /\ Between(h, a, b) = Between(p, i, j)
  BY <1>1 DEF LabelOf
<1>3. /\ i \in 0..Len(p) /\ j \in 1..(Len(p) + 1) /\ Len(p) \in Nat
      /\ a \in 0..Len(h) /\ b \in 1..(Len(h) + 1) /\ Len(h) \in Nat
  BY <1>1, PartReads, CutsAre
<1>4. j - i = b - a /\ \A k \in (i + 1)..(j - 1) : h[k + (a - i)] = p[k]
  BY <1>1, <1>2, SameText
<1>5. b = j + d /\ a = i + d /\ a - i = d
  <2> DEFINE n == Len(p)
             m == Len(h)
  <2>1. n \in Int /\ m \in Int /\ i \in Int /\ j \in Int /\ a \in Int /\ b \in Int
    BY <1>3
  <2>2. (n + 1) - j = (m + 1) - b /\ j - i = b - a /\ d = m - n
    BY <1>2, <1>4
  <2> HIDE DEF n, m
  <2> QED BY <2>1, <2>2, Displaced
<1> QED BY <1>1, <1>4, <1>5

(* The labels of a wildcard pattern are "*" and those behind it.           *)
LEMMA WildcardLabels ==
  ASSUME NEW P, NEW p \in Seq(P), ValidHost(p), IsPrefix(Wildcard, p)
  PROVE  /\ \A i, j : Gap(p, ".", i, j) /\ i >= 2 => LabelOf(p, i, j) \in Plain(p)
         /\ \A l \in Plain(p) : \E i, j : Gap(p, ".", i, j) /\ i >= 2 /\ l = LabelOf(p, i, j)
         /\ Plain(p) # Labels(p)
<1> DEFINE n == Len(p)
<1>1. n \in Nat /\ n >= 3 /\ p[1] = "*" /\ p[2] = "." /\ \A k \in 3..n : p[k] # "*"
  BY PatternShape
<1>2. 0 \in Cuts(p, ".") /\ 1 \notin Cuts(p, ".") /\ 2 \in Cuts(p, ".")
  <2>1. 1 \in 1..n /\ 2 \in 1..n
    BY <1>1
  <2> QED BY <1>1, <2>1, CutsAre
<1>3. ASSUME NEW i, NEW j, Gap(p, ".", i, j), i >= 2
      PROVE  LabelOf(p, i, j) \in Plain(p)
  <2>1. i \in 0..n /\ j \in 1..(n + 1) /\ i < j
    BY <1>3, PartReads
  <2>2. Between(p, i, j) # <<"*">>
    <3>1. SUFFICES ASSUME Between(p, i, j) = <<"*">> PROVE FALSE
      OBVIOUS
    <3>r. /\ Len(Between(p, i, j)) = j - i - 1
          /\ \A k \in 1..(j - i - 1) : Between(p, i, j)[k] = p[i + k]
      BY <1>3, PartReads
    <3>2. j - i - 1 = 1
      BY <3>1, <3>r
    <3>3. Between(p, i, j)[1] = p[i + 1]
      BY <3>2, <3>r
    <3>4. i + 1 \in 3..n
      BY <1>1, <1>3, <2>1, <3>2
    <3> QED BY <1>1, <3>1, <3>3, <3>4
  <2>3. LabelOf(p, i, j) \in Labels(p) /\ LabelOf(p, i, j).text = Between(p, i, j)
    BY <1>3, LabelsBy DEF LabelOf
  <2> QED BY <2>2, <2>3 DEF Plain
<1>4. ASSUME NEW i, NEW j, Gap(p, ".", i, j), ~(i >= 2)
      PROVE  i = 0 /\ j = 2
  <2>1. /\ i \in 0..n /\ j \in 1..(n + 1) /\ i < j
        /\ i \in Cuts(p, ".") /\ j \in Cuts(p, ".") /\ ~(i < 2 /\ 2 < j)
    BY <1>2, <1>4, PartReads DEF Gap
  <2> QED BY <1>1, <1>2, <1>4, <2>1
<1>5. ASSUME Gap(p, ".", 0, 2) PROVE LabelOf(p, 0, 2).text = <<"*">>
  <2>1. Between(p, 0, 2) \in Seq(P) /\ Len(Between(p, 0, 2)) = 1 /\ Between(p, 0, 2)[1] = "*"
    <3>r. \A i, j : Gap(p, ".", i, j) =>
            /\ Between(p, i, j) \in Seq(P) /\ Len(Between(p, i, j)) = j - i - 1
            /\ \A k \in 1..(j - i - 1) : Between(p, i, j)[k] = p[i + k]
      BY PartReads
    <3>1. ASSUME NEW i, NEW j, Gap(p, ".", i, j), i = 0, j = 2
          PROVE  /\ Between(p, i, j) \in Seq(P) /\ Len(Between(p, i, j)) = 1
                 /\ Between(p, i, j)[1] = p[1]
      <4>1. /\ Between(p, i, j) \in Seq(P) /\ Len(Between(p, i, j)) = j - i - 1
            /\ \A k \in 1..(j - i - 1) : Between(p, i, j)[k] = p[i + k]
        BY <3>1, <3>r
      <4>2. j - i - 1 = 1 /\ i + 1 = 1
        BY <3>1
      <4> QED BY <4>1, <4>2
    <3> QED BY <1>1, <1>5, <3>1
  <2>2. Between(p, 0, 2) = <<"*">>
    <3> DEFINE b == Between(p, 0, 2)
    <3>1. b \in Seq(P) /\ Len(b) = 1 /\ b[1] = "*"
      BY <2>1
    <3> HIDE DEF b
    <3>2. DOMAIN b = 1..1 /\ b = [k \in 1..1 |-> b[k]]
      BY <3>1, LenProperties
    <3> QED BY <3>1, <3>2 DEF b
  <2> QED BY <2>2 DEF LabelOf
<1>6. ASSUME NEW l \in Plain(p)
      PROVE  \E i, j : Gap(p, ".", i, j) /\ i >= 2 /\ l = LabelOf(p, i, j)
  <2>1. l \in Labels(p) /\ l.text # <<"*">>
    BY DEF Plain
  <2>2. PICK i, j : Gap(p, ".", i, j) /\ l = LabelOf(p, i, j)
    BY <2>1, LabelsBy
  <2> QED BY <1>4, <1>5, <2>1, <2>2
<1>7. Plain(p) # Labels(p)
  <2>1. PICK j : Gap(p, ".", 0, j)
    BY <1>1, <1>2, PartBegins
  <2>2. j = 2
    BY <1>4, <2>1
  <2>3. LabelOf(p, 0, 2) \in Labels(p) /\ LabelOf(p, 0, 2) \notin Plain(p)
    BY <1>5, <2>1, <2>2, LabelsBy DEF Plain
  <2> QED BY <2>3
<1> QED BY <1>3, <1>6, <1>7

(* Every other label is behind the "*".                                    *)
LEMMA StarIsFirst ==
  ASSUME NEW P, NEW p \in Seq(P), ValidHost(p), IsPrefix(Wildcard, p), NEW l \in Plain(p)
  PROVE  l.from < Len(p) - 1
<1> DEFINE n == Len(p)
<1>1. PICK i, j : Gap(p, ".", i, j) /\ i >= 2 /\ l = LabelOf(p, i, j)
  BY WildcardLabels
<1>2. n \in Nat /\ i \in 0..n /\ j \in 1..(n + 1) /\ i < j
  BY <1>1, PartReads, CutsAre
<1>3. l.from = (n + 1) - j
  BY <1>1 DEF LabelOf
<1> HIDE DEF n
<1>4. l.from < n - 1
  BY <1>1, <1>2, <1>3
<1> QED BY <1>4 DEF n

(* A host cut like the pattern behind its "*", and the same there, has no  *)
(* labels there but the pattern's.                                         *)
EndsLike(h, p, d) ==
  /\ \A k \in 2..(Len(p) + 1) : k \in Cuts(p, ".") <=> k + d \in Cuts(h, ".")
  /\ \A k \in 3..Len(p) : h[k + d] = p[k]

LEMMA BehindTheStar ==
  ASSUME NEW P, NEW p \in Seq(P), ValidHost(p), IsPrefix(Wildcard, p),
         NEW T, NEW h \in Seq(T), NEW d \in Int, d = Len(h) - Len(p),
         EndsLike(h, p, d), NEW a, NEW b, Gap(h, ".", a, b), a >= 2 + d
  PROVE  LabelOf(h, a, b) \in Plain(p)
<1> DEFINE n == Len(p)
           m == Len(h)
           e == 0 - d
           i == a + e
           j == b + e
<1>1. /\ n \in Nat /\ m \in Nat /\ a \in 0..m /\ b \in 1..(m + 1) /\ a < b
      /\ a \in Cuts(h, ".") /\ b \in Cuts(h, ".")
  BY PartReads, CutsAre DEF Gap
<1>2. d = m - n
  OBVIOUS
<1>c. /\ \A k \in 2..(n + 1) : k \in Cuts(p, ".") <=> k + d \in Cuts(h, ".")
      /\ \A k \in 3..n : h[k + d] = p[k]
  BY DEF EndsLike
<1> HIDE DEF n, m
<1>3. /\ e \in Int /\ i \in 2..(n + 1) /\ j \in 2..(n + 1) /\ i + d = a /\ j + d = b
      /\ (n + 1) - j = (m + 1) - b
  <2>1. n \in Int /\ m \in Int /\ a \in Int /\ b \in Int /\ d \in Int
    BY <1>1
  <2>2. i \in Int /\ j \in Int /\ i + d = a /\ j + d = b /\ e \in Int
    BY <2>1
  <2>3. i >= 2 /\ i < j /\ j <= n + 1
    BY <1>1, <1>2, <2>1
  <2>4. (n + 1) - j = (m + 1) - b
    <3> HIDE DEF i, j, e
    <3> QED BY <1>2, <2>1, <2>2
  <2> HIDE DEF i, j, e
  <2> QED BY <1>1, <2>2, <2>3, <2>4
<1>4. a + e \in Cuts(p, ".") /\ b + e \in Cuts(p, ".")
  BY <1>1, <1>3, <1>c
<1>5. Agree(h, p, e, a, b)
  <2>1. ASSUME NEW k \in (a + 1)..(b - 1) PROVE k + e \in 3..n /\ (k + e) + d = k
    BY <1>1, <1>2
  <2> HIDE DEF e
  <2>2. ASSUME NEW k \in (a + 1)..(b - 1) PROVE p[k + e] = h[k]
    <3>1. h[(k + e) + d] = p[k + e]
      BY <1>c, <2>1
    <3> QED BY <2>1, <3>1
  <2> QED BY <2>2 DEF Agree
<1>6. Gap(p, ".", i, j) /\ Between(p, i, j) = Between(h, a, b)
  <2>1. e \in Int
    BY <1>3
  <2> HIDE DEF e
  <2> QED BY <1>4, <1>5, <2>1, SamePart
<1>7. LabelOf(p, i, j) = LabelOf(h, a, b)
  BY <1>3, <1>6 DEF LabelOf, n, m
<1>8. i >= 2
  BY <1>1, <1>3
<1> HIDE DEF i, j
<1> QED BY <1>6, <1>7, <1>8, WildcardLabels

(* What hostMatches finds for a wildcard has the pattern's labels, and     *)
(* before them others, all with a name.                                    *)
LEMMA MatchedHasLabels ==
  ASSUME NEW P, NEW p \in Seq(P), ValidHost(p), IsPrefix(Wildcard, p),
         NEW T, NEW h \in Seq(T), HostMatches(p, h)
  PROVE  LabelsMatch(p, h)
<1> DEFINE n == Len(p)
           m == Len(h)
           d == m - n
<1>1. n \in Nat /\ m \in Nat /\ n >= 3 /\ p[2] = "."
  BY PatternShape, CutsAre
<1>2. /\ d \in Nat /\ m = n + d /\ \A k \in 2..n : h[k + d] = p[k]
      /\ h[1] # "." /\ h[d + 1] # "." /\ \A k \in 1..d : ~(h[k] = "." /\ h[k + 1] = ".")
  <2>1. /\ d >= 0 /\ \A k \in 2..n : h[k + d] = p[k]
        /\ h[1] # "." /\ h[d + 1] # "." /\ \A k \in 1..d : ~(h[k] = "." /\ h[k + 1] = ".")
    BY WildcardMatches
  <2> QED BY <1>1, <2>1
<1> HIDE DEF d
<1>3. ASSUME NEW k \in 2..(n + 1) PROVE k \in Cuts(p, ".") <=> k + d \in Cuts(h, ".")
  <2>1. CASE k = n + 1
    <3>1. k + d = m + 1
      BY <1>1, <1>2, <2>1
    <3> QED BY <2>1, <3>1, CutsAre
  <2>2. CASE k # n + 1
    <3>1. k \in 1..n /\ k \in 2..n /\ k + d \in 1..m
      BY <1>1, <1>2, <2>2
    <3>2. h[k + d] = p[k]
      BY <1>2, <3>1
    <3> QED BY <3>1, <3>2, CutsAre
  <2> QED BY <2>1, <2>2
<1>4. Plain(p) \subseteq Labels(h)
  <2>1. ASSUME NEW i, NEW j, Gap(p, ".", i, j), i >= 2 PROVE LabelOf(p, i, j) \in Labels(h)
    <3>1. /\ i \in 2..(n + 1) /\ j \in 2..(n + 1) /\ i \in Cuts(p, ".") /\ j \in Cuts(p, ".")
          /\ i \in 0..n /\ j \in 1..(n + 1)
      BY <1>1, <2>1, PartReads DEF Gap
    <3>2. i + d \in Cuts(h, ".") /\ j + d \in Cuts(h, ".")
      BY <1>3, <3>1
    <3>3. Agree(p, h, d, i, j)
      <4>1. (i + 1)..(j - 1) \subseteq 2..n
        BY <1>1, <3>1
      <4> QED BY <1>2, <4>1 DEF Agree
    <3> QED BY <2>1, <3>2, <3>3, SameLabel DEF d
  <2> QED BY <2>1, WildcardLabels
<1>5. 2 + d \in Cuts(h, ".")
  <2>1. 2 \in 1..n /\ 2 \in 2..(n + 1)
    BY <1>1
  <2> QED BY <1>1, <1>3, <2>1, CutsAre
<1>6. ASSUME NEW a, NEW b, Gap(h, ".", a, b), a >= 2 + d
      PROVE  LabelOf(h, a, b) \in Plain(p)
  <2>1. d \in Int /\ 3..n \subseteq 2..n
    BY <1>1, <1>2
  <2>2. \A k \in 3..n : h[k + d] = p[k]
    BY <1>2, <2>1
  <2>3. EndsLike(h, p, d)
    BY <1>3, <2>2 DEF EndsLike
  <2> QED BY <1>6, <2>1, <2>3, BehindTheStar DEF d
<1>7. ASSUME NEW l \in Labels(h) \ Plain(p) PROVE l.text # <<>>
  <2>1. PICK a, b : Gap(h, ".", a, b) /\ l = LabelOf(h, a, b)
    BY LabelsBy
  <2>2. /\ a \in 0..m /\ b \in 1..(m + 1) /\ a < b /\ a \in Cuts(h, ".") /\ b \in Cuts(h, ".")
        /\ ~(a < 2 + d /\ 2 + d < b)
    BY <1>5, <2>1, PartReads DEF Gap
  <2>3. a < 2 + d /\ b <= 2 + d
    BY <1>2, <1>6, <1>7, <2>1, <2>2
  <2> SUFFICES ASSUME Between(h, a, b) = <<>> PROVE FALSE
    BY <2>1 DEF LabelOf
  <2>4. b = a + 1
    <3>1. b - a - 1 = 0
      BY <2>1, PartReads
    <3> QED BY <2>2, <3>1
  <2>5. b <= m => h[b] = "."
    BY <2>2, CutsAre
  <2>6. a >= 1 => h[a] = "."
    BY <2>2, CutsAre
  <2>7. CASE a = 0
    BY <1>1, <1>2, <2>4, <2>5, <2>7
  <2>8. CASE a = d + 1
    BY <1>2, <2>6, <2>8
  <2>9. CASE a # 0 /\ a # d + 1
    <3>1. a \in 1..d /\ b = a + 1 /\ b <= m
      BY <1>1, <1>2, <2>2, <2>3, <2>4, <2>9
    <3> QED BY <1>2, <2>5, <2>6, <3>1
  <2> QED BY <2>7, <2>8, <2>9
<1>8. Labels(h) \ Plain(p) # {}
  <2>1. PICK a : Gap(h, ".", a, 2 + d)
    BY <1>2, <1>5, PartEnds
  <2>2. LabelOf(h, a, 2 + d) \in Labels(h) /\ LabelOf(h, a, 2 + d).from = n - 1
    <3>1. (m + 1) - (2 + d) = n - 1
      BY <1>1, <1>2
    <3> QED BY <2>1, <3>1, LabelsBy DEF LabelOf
  <2>3. \A l \in Plain(p) : l.from < n - 1
    BY StarIsFirst
  <2> QED BY <1>1, <2>2, <2>3
<1>9. Plain(p) # Labels(p)
  BY WildcardLabels
<1> HIDE DEF n, m
<1> QED BY <1>4, <1>7, <1>8, <1>9 DEF LabelsMatch, Plain

(* And what has those labels is found: the "*" stands for the labels left  *)
(* over, none of them empty.                                               *)
LEMMA LabeledMatches ==
  ASSUME NEW P, NEW p \in Seq(P), ValidHost(p), IsPrefix(Wildcard, p),
         NEW T, NEW h \in Seq(T), LabelsMatch(p, h)
  PROVE  HostMatches(p, h)
<1> DEFINE n == Len(p)
           m == Len(h)
           d == m - n
<1>1. n \in Nat /\ m \in Nat /\ d \in Int /\ n >= 3 /\ p[2] = "."
  BY PatternShape, CutsAre
<1>2. /\ Plain(p) \subseteq Labels(h) /\ Labels(h) \ Plain(p) # {}
      /\ \A l \in Labels(h) \ Plain(p) : l.text # <<>>
  <2>1. Plain(p) # Labels(p)
    BY WildcardLabels
  <2> QED BY <2>1, Zenon DEF LabelsMatch, Plain
<1>3. ASSUME NEW i, NEW j, Gap(p, ".", i, j), i >= 2
      PROVE  Gap(h, ".", i + d, j + d) /\ \A k \in (i + 1)..(j - 1) : h[k + d] = p[k]
  <2>1. LabelOf(p, i, j) \in Labels(h)
    BY <1>2, <1>3, WildcardLabels
  <2> QED BY <1>3, <2>1, LabelAgrees
<1>b. d = m - n
  OBVIOUS
<1> HIDE DEF d
<1>c. 2 \in Cuts(p, ".") /\ 2 <= n
  <2>1. 2 \in 1..n
    BY <1>1
  <2> QED BY <1>1, <2>1, CutsAre
<1>4. ASSUME NEW k \in 3..n, p[k] # "." PROVE h[k + d] = p[k]
  <2>1. k \in 1..n
    BY <1>1
  <2>2. PICK i, j : Gap(p, ".", i, j) /\ i < k /\ k < j
    BY <1>4, <2>1, PartAround
  <2>3. i \in 0..n /\ j \in 1..(n + 1) /\ ~(i < 2 /\ 2 < j)
    BY <1>c, <2>2, PartReads DEF Gap
  <2>4. i >= 2 /\ k \in (i + 1)..(j - 1)
    BY <1>1, <2>1, <2>2, <2>3
  <2> QED BY <1>3, <2>2, <2>4
<1>5. ASSUME NEW k \in 2..n, p[k] = "."
      PROVE  k + d \in Cuts(h, ".") /\ k + d \in 0..m
  <2>1. k \in 1..n /\ k >= 2
    BY <1>1
  <2>2. k \in Cuts(p, ".") /\ k <= n
    BY <1>5, <2>1, CutsAre
  <2>3. PICK j : Gap(p, ".", k, j)
    BY <2>2, PartBegins
  <2>4. Gap(h, ".", k + d, j + d)
    BY <1>3, <2>1, <2>3
  <2> QED BY <2>4, PartReads DEF Gap
<1>6. 2 + d \in Cuts(h, ".") /\ 2 + d >= 0
  <2>1. 2 \in 2..n
    BY <1>1
  <2>2. 2 + d \in 0..m
    BY <1>1, <1>5, <2>1
  <2> QED BY <1>1, <1>5, <2>1, <2>2
<1>7. \A k \in 3..n : h[k + d] = p[k]
  <2>1. ASSUME NEW k \in 3..n, p[k] = "." PROVE h[k + d] = "."
    <3>1. k \in 2..n /\ k >= 3
      BY <1>1
    <3>2. k + d \in Cuts(h, ".") /\ k + d \in 0..m
      BY <1>5, <2>1, <3>1
    <3>3. k + d \in 1..m
      BY <1>1, <1>6, <3>1, <3>2
    <3> QED BY <3>2, <3>3, CutsAre
  <2> QED BY <1>4, <2>1
<1>8. ASSUME NEW k \in 2..(n + 1) PROVE k \in Cuts(p, ".") <=> k + d \in Cuts(h, ".")
  <2>1. CASE k = n + 1
    <3>1. k + d = m + 1
      BY <1>1, <1>b, <2>1
    <3> QED BY <2>1, <3>1, CutsAre
  <2>2. CASE k = 2
    BY <1>6, <1>c, <2>2
  <2>3. CASE k # n + 1 /\ k # 2
    <3>1. k \in 1..n /\ k \in 3..n /\ k + d \in 1..m
      BY <1>1, <1>b, <1>6, <2>3
    <3>2. h[k + d] = p[k]
      BY <1>7, <3>1
    <3> QED BY <3>1, <3>2, CutsAre
  <2> QED BY <2>1, <2>2, <2>3
<1>9. d # 0 - 2
  <2> SUFFICES ASSUME d = 0 - 2 PROVE FALSE
    OBVIOUS
  <2>1. ASSUME NEW l \in Labels(h) PROVE l \in Plain(p)
    <3>1. PICK a, b : Gap(h, ".", a, b) /\ l = LabelOf(h, a, b)
      BY LabelsBy
    <3>2. a >= 2 + d
      BY <3>1, PartReads
    <3>3. EndsLike(h, p, d)
      BY <1>7, <1>8 DEF EndsLike
    <3> QED BY <1>1, <1>b, <3>1, <3>2, <3>3, BehindTheStar
  <2> QED BY <1>2, <2>1
<1>10. ASSUME NEW k \in 0..(d + 1), k \in Cuts(h, "."), k + 1 \in Cuts(h, ".")
       PROVE  FALSE
  <2>1. Gap(h, ".", k, k + 1)
    <3>1. \A c \in Cuts(h, ".") : c \in Int
      BY CutsAre
    <3>2. \A c \in Cuts(h, ".") : ~(k < c /\ c < k + 1)
      BY <3>1
    <3> QED BY <1>10, <3>2 DEF Gap
  <2>2. LabelOf(h, k, k + 1) \in Labels(h)
    BY <2>1, LabelsBy
  <2>3. LabelOf(h, k, k + 1).from >= n - 1
    <3>1. (m + 1) - (k + 1) >= n - 1
      BY <1>1, <1>b
    <3> QED BY <3>1 DEF LabelOf
  <2>4. LabelOf(h, k, k + 1).text = <<>>
    <3>1. Between(h, k, k + 1) \in Seq(T) /\ Len(Between(h, k, k + 1)) = (k + 1) - k - 1
      BY <2>1, PartReads
    <3>2. (k + 1) - k - 1 = 0
      OBVIOUS
    <3>3. Between(h, k, k + 1) = <<>>
      BY <3>1, <3>2, EmptySeq
    <3> QED BY <3>3 DEF LabelOf
  <2>5. LabelOf(h, k, k + 1) \notin Plain(p)
    <3>1. \A l \in Plain(p) : l.from < n - 1
      BY StarIsFirst
    <3>2. LabelOf(h, k, k + 1).from \in Int
      <4>1. (m + 1) - (k + 1) \in Int
        BY <1>1
      <4> QED BY <4>1 DEF LabelOf
    <3> QED BY <1>1, <2>3, <3>1, <3>2
  <2> QED BY <1>2, <2>2, <2>4, <2>5
<1>11. d \in Nat
  <2>1. d # 0 - 1
    <3> SUFFICES ASSUME d = 0 - 1 PROVE FALSE
      OBVIOUS
    <3>1. 0 \in 0..(d + 1) /\ 0 + 1 = 2 + d
      OBVIOUS
    <3>2. 0 \in Cuts(h, ".") /\ 0 + 1 \in Cuts(h, ".")
      BY <1>6, <3>1, CutsAre
    <3> QED BY <1>10, <3>1, <3>2
  <2> QED BY <1>1, <1>6, <1>9, <2>1
<1>12. \A k \in 2..n : h[k + d] = p[k]
  <2>1. 2 + d \in 1..m
    BY <1>1, <1>11, <1>b
  <2>2. h[2 + d] = p[2]
    BY <1>1, <1>6, <2>1, CutsAre
  <2>3. \A k \in 2..n : k = 2 \/ k \in 3..n
    BY <1>1
  <2> QED BY <1>7, <2>2, <2>3
<1>13. ASSUME NEW k \in 1..(d + 1), h[k] = "."
       PROVE  k \in Cuts(h, ".") /\ k - 1 \notin Cuts(h, ".") /\ k # d + 1
  <2>1. k \in 1..m /\ k \in 0..(d + 1) /\ k - 1 \in 0..(d + 1) /\ (k - 1) + 1 = k
    BY <1>1, <1>11, <1>b
  <2>2. k \in Cuts(h, ".")
    BY <1>13, <2>1, CutsAre
  <2>3. k + 1 \notin Cuts(h, ".") /\ k - 1 \notin Cuts(h, ".")
    BY <1>10, <2>1, <2>2
  <2>4. k # d + 1
    <3> SUFFICES ASSUME k = d + 1 PROVE FALSE
      OBVIOUS
    <3>1. k + 1 = 2 + d
      BY <1>11
    <3> QED BY <1>6, <2>3, <3>1
  <2> QED BY <2>2, <2>3, <2>4
<1>14. h[1] # "." /\ h[d + 1] # "."
  <2>1. 1 \in 1..(d + 1) /\ d + 1 \in 1..(d + 1) /\ 1 - 1 = 0
    BY <1>11
  <2>2. 0 \in Cuts(h, ".")
    BY CutsAre
  <2> QED BY <1>13, <2>1, <2>2
<1>15. ASSUME NEW k \in 1..d, h[k] = ".", h[k + 1] = "." PROVE FALSE
  <2>1. k \in 1..(d + 1) /\ k + 1 \in 1..(d + 1) /\ (k + 1) - 1 = k
    BY <1>11
  <2> QED BY <1>13, <1>15, <2>1
<1>16. d >= 0
  BY <1>11
<1> HIDE DEF n, m
<1> QED BY <1>12, <1>14, <1>15, <1>16, <1>b, WildcardMatches DEF n, m

(* A text that has all the labels of another is at least as long; so their *)
(* labels tell two texts apart.                                            *)
LEMMA LabelsFit ==
  ASSUME NEW P, NEW p \in Seq(P), NEW T, NEW h \in Seq(T), Labels(p) \subseteq Labels(h)
  PROVE  Len(h) - Len(p) >= 0
<1> DEFINE d == Len(h) - Len(p)
<1>1. Len(p) \in Nat /\ Len(h) \in Nat /\ 0 \in Cuts(p, ".") /\ 0 <= Len(p)
  BY CutsAre
<1>2. PICK j : Gap(p, ".", 0, j)
  BY <1>1, PartBegins
<1>3. Gap(h, ".", 0 + d, j + d)
  <2>1. LabelOf(p, 0, j) \in Labels(h)
    BY <1>2, LabelsBy
  <2> HIDE DEF d
  <2> QED BY <1>2, <2>1, LabelAgrees DEF d
<1>4. 0 + d \in 0..Len(h)
  <2> HIDE DEF d
  <2> QED BY <1>3, PartReads
<1> QED BY <1>1, <1>4

LEMMA LabelsDetermine ==
  ASSUME NEW P, NEW p \in Seq(P), NEW T, NEW h \in Seq(T), Labels(p) = Labels(h)
  PROVE  p = h
<1> DEFINE n == Len(p)
           d == Len(h) - n
<1>1. n \in Nat /\ Len(h) = n /\ d = 0
  <2>1. Len(p) \in Nat /\ Len(h) \in Nat
    BY CutsAre
  <2>2. Len(h) - Len(p) >= 0 /\ Len(p) - Len(h) >= 0
    BY LabelsFit
  <2> QED BY <2>1, <2>2
<1>2. \A i, j : Gap(p, ".", i, j) =>
        Gap(h, ".", i + d, j + d) /\ \A k \in (i + 1)..(j - 1) : h[k + d] = p[k]
  BY LabelsBy, LabelAgrees
<1> HIDE DEF d
<1>3. ASSUME NEW k \in 1..n PROVE h[k] = p[k]
  <2>1. CASE p[k] = "."
    <3>1. k \in Cuts(p, ".") /\ k <= n
      BY <2>1, CutsAre
    <3>2. PICK j : Gap(p, ".", k, j)
      BY <3>1, PartBegins
    <3>3. k + d \in Cuts(h, ".")
      BY <1>2, <3>2 DEF Gap
    <3>4. k + d = k
      BY <1>1
    <3> QED BY <1>1, <2>1, <3>3, <3>4, CutsAre
  <2>2. CASE p[k] # "."
    <3>1. PICK i, j : Gap(p, ".", i, j) /\ i < k /\ k < j
      BY <2>2, PartAround
    <3>2. k \in (i + 1)..(j - 1) /\ k + d = k
      BY <1>1, <3>1, PartReads
    <3>3. h[k + d] = p[k]
      BY <1>2, <3>1, <3>2
    <3> QED BY <3>2, <3>3
  <2> QED BY <2>1, <2>2
<1> QED BY <1>1, <1>3, SameTexts

LEMMA ExactHosts ==
  ASSUME NEW P, NEW p \in Seq(P), ValidHost(p), ~IsPrefix(Wildcard, p),
         NEW T, NEW h \in Seq(T)
  PROVE  HostMatches(p, h) <=> LabelsMatch(p, h)
<1>1. ASSUME NEW l \in Labels(p) PROVE l.text # <<"*">>
  <2>1. PICK i, j : Gap(p, ".", i, j) /\ l = LabelOf(p, i, j)
    BY LabelsBy
  <2>2. /\ i \in 0..Len(p) /\ j \in 1..(Len(p) + 1) /\ i < j
        /\ Len(Between(p, i, j)) = j - i - 1
        /\ \A k \in 1..(j - i - 1) : Between(p, i, j)[k] = p[i + k]
    BY <2>1, PartReads
  <2> SUFFICES ASSUME Between(p, i, j) = <<"*">> PROVE FALSE
    BY <2>1 DEF LabelOf
  <2>3. j - i - 1 = 1
    BY <2>2
  <2>4. p[i + 1] = "*"
    BY <2>2, <2>3
  <2>5. i + 1 \in 1..Len(p)
    BY <2>2, <2>3, CutsAre
  <2> QED BY <2>4, <2>5, PatternShape
<1>2. {l \in Labels(p) : l.text # <<"*">>} = Labels(p)
  BY <1>1
<1>3. LabelsMatch(p, h) <=> Labels(p) = Labels(h)
  BY <1>2 DEF LabelsMatch
<1>4. HostMatches(p, h) <=> p = h
  BY DEF HostMatches
<1> QED BY <1>3, <1>4, LabelsDetermine

(* So hostMatches and the labels say the same of every host.               *)
LEMMA HostsByLabel ==
  ASSUME NEW P, NEW p \in Seq(P), ValidHost(p), NEW T, NEW h \in Seq(T)
  PROVE  HostMatches(p, h) <=> LabelsMatch(p, h)
BY MatchedHasLabels, LabeledMatches, ExactHosts

-----------------------------------------------------------------------------
(* The hosts and paths of the rules in force, and of the questions, are    *)
(* texts in the form the lemmas above take.                                *)
LEMMA LoweredTexts ==
  ASSUME NEW S, NEW t \in Seq(S)
  PROVE  \E T : ToLower(t) \in Seq(T)
<1> DEFINE low(x) == Folded(LowerOf, x)
           n == Len(t)
           T == {low(t[k]) : k \in 1..n}
<1>1. n \in Nat /\ DOMAIN t = 1..n
  BY LenProperties
<1>2. ToLower(t) = [k \in 1..n |-> low(t[k])]
  BY <1>1 DEF ToLower
<1> HIDE DEF low, n
<1>3. ToLower(t) \in [1..n -> T]
  BY <1>2
<1> HIDE DEF T
<1> QED BY <1>1, <1>3, IsASeq

LEMMA KeptHostIsText ==
  ASSUME NEW S, NEW h \in Seq(S), KeptHost(h) # <<>>
  PROVE  \E T : KeptHost(h) \in Seq(T)
<1>1. TrimSpace(h) # <<>>
  <2>1. ToLower(<<>>) = <<>>
    BY DEF ToLower
  <2> QED BY <2>1, Zenon DEF KeptHost
<1>2. PICK n \in Nat \ {0} : TrimSpace(h) \in [1..n -> S]
  BY <1>1, TrimmedShape, Zenon
<1>3. TrimSpace(h) \in Seq(S)
  BY <1>2, IsASeq
<1> QED BY <1>3, LoweredTexts, Zenon DEF KeptHost

LEMMA RulesReadTexts ==
  ASSUME TypeOK, NEW i \in DOMAIN current.rules
  PROVE  /\ \A p \in current.rules[i].hosts : ValidHost(p) /\ \E S : p \in Seq(S)
         /\ \A p \in current.rules[i].paths : IsPrefix(<<"/">>, p) /\ \E S : p \in Seq(S)
<1>1. PICK d \in Documents :
        /\ Valid(d) /\ current = Kept(d)
        /\ Len(d.rules) \in Nat /\ DOMAIN current.rules = 1..Len(d.rules)
        /\ current.default \in {"allow", "deny"}
        /\ \A k \in DOMAIN current.rules : current.rules[k] = KeptRule(d.rules[k])
  BY InForceShape
<1>2. d # Unparsable /\ i \in DOMAIN d.rules
  BY <1>1, RulesAreLists DEF Valid
<1> DEFINE r == d.rules[i]
<1>3. \A x \in r.hosts \cup r.paths : \E S : x \in Seq(S)
  BY <1>2, HostsAndPathsAreTexts, TextsAreSequences
<1>4. ValidRule(r) /\ current.rules[i] = KeptRule(r)
  BY <1>1, <1>2 DEF Valid
<1> HIDE DEF r
<1>5. /\ current.rules[i].hosts = {KeptHost(h) : h \in r.hosts}
      /\ current.rules[i].paths = r.paths
  BY <1>4 DEF KeptRule
<1>6. ASSUME NEW p \in current.rules[i].hosts
      PROVE  ValidHost(p) /\ \E S : p \in Seq(S)
  <2>1. PICK h \in r.hosts : p = KeptHost(h)
    BY <1>5, <1>6
  <2>2. ValidHost(p)
    BY <1>4, <2>1 DEF ValidRule
  <2>3. KeptHost(h) # <<>>
    BY <2>1, <2>2 DEF ValidHost
  <2>4. PICK S : h \in Seq(S)
    BY <1>3, <2>1
  <2> QED BY <2>1, <2>2, <2>3, <2>4, KeptHostIsText
<1>7. \A p \in r.paths : IsPrefix(<<"/">>, p)
  BY <1>4 DEF ValidRule
<1> QED BY <1>3, <1>5, <1>6, <1>7

(* A host pattern admits whole labels, whatever case the request is        *)
(* written in (hostMatches, policy.go:301-323): for every policy a store   *)
(* can hold and every host, comparing the text behind the "*" and looking  *)
(* for dots at the ends of what is left decides what counting labels from  *)
(* the right decides.                                                      *)
THEOREM HostsMatchByLabelAlways == Spec => []HostsMatchByLabel
<1>1. ASSUME TypeOK, NEW i \in DOMAIN current.rules, NEW q \in Questions,
             NEW p \in current.rules[i].hosts
      PROVE  HostMatches(p, ToLower(q.host)) <=> LabelsMatch(p, ToLower(q.host))
  <2>1. ValidHost(p)
    BY <1>1, RulesReadTexts
  <2>2. PICK P : p \in Seq(P)
    BY <1>1, RulesReadTexts
  <2>3. PICK S : q.host \in Seq(S)
    BY QuestionsAreTexts, TextsAreSequences
  <2>4. PICK T : ToLower(q.host) \in Seq(T)
    BY <2>3, LoweredTexts
  <2> QED BY <2>1, <2>2, <2>4, HostsByLabel
<1>2. TypeOK => HostsMatchByLabel
  BY <1>1, Zenon DEF HostsMatchByLabel, MatchesHost
<1> QED BY <1>2, TypeCorrect, PTL

(* A path prefix admits whole segments (pathHasPrefix, policy.go:362-379): *)
(* for every policy a store can hold and every path, a look at the one     *)
(* byte behind the prefix decides what comparing segments from the left    *)
(* decides.                                                                *)
THEOREM PathsMatchBySegmentAlways == Spec => []PathsMatchBySegment
<1>1. ASSUME TypeOK, NEW i \in DOMAIN current.rules, NEW q \in Questions,
             NEW p \in current.rules[i].paths
      PROVE  PathHasPrefix(q.path, p) <=> SegmentsMatch(p, q.path)
  <2>1. PICK P : p \in Seq(P)
    BY <1>1, RulesReadTexts
  <2>2. Len(p) >= 1
    <3>1. IsPrefix(<<"/">>, p)
      BY <1>1, RulesReadTexts
    <3>2. <<"/">> \in Seq({"/"}) /\ Len(<<"/">>) = 1
      OBVIOUS
    <3> QED BY <2>1, <3>1, <3>2, PrefixIs
  <2>3. PICK T : q.path \in Seq(T)
    BY QuestionsAreTexts, TextsAreSequences
  <2> QED BY <2>1, <2>2, <2>3, PrefixCovers, CoveredHasPrefix
<1>2. TypeOK => PathsMatchBySegment
  BY <1>1, Zenon DEF PathsMatchBySegment, MatchesPath
<1> QED BY <1>2, TypeCorrect, PTL

=============================================================================
