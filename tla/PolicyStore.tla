---------------------------- MODULE PolicyStore ----------------------------
(***************************************************************************)
(* The policy in force while a gate runs: internal/policy/store.go under   *)
(* the /reload handlers of the admin port, an operator who rewrites the    *)
(* file at any moment, and the handlers that ask for decisions.            *)
(*                                                                         *)
(* A reload reads and parses the file in one step (a file read while it is *)
(* being written is one more document) and stores the pointer in another;  *)
(* a decision loads the pointer in one step and evaluates in another.      *)
(* Reloads are not serialised against each other.                          *)
(***************************************************************************)
EXTENDS Policy

CONSTANTS
  Documents,   \* what the policy file can hold when the gate starts
  Rewrites,    \* what the operator may write into it later
  Admins,      \* callers of POST /reload
  Clients,     \* connections that ask for decisions
  Wires        \* the requests they send, see Malformed

ASSUME DocumentsAssumption == Rewrites \subseteq Documents
ASSUME RulesAreLists ==
  \A d \in Documents : d # Unparsable => Len(d.rules) \in Nat /\ DOMAIN d.rules = 1..Len(d.rules)
ASSUME HostsAndPathsAreTexts ==
  \A d \in Documents : d # Unparsable =>
    \A i \in DOMAIN d.rules : \A x \in d.rules[i].hosts \cup d.rules[i].paths : IsText(x)

VARIABLES
  disk,        \* the document in the policy file
  current,     \* Store.current
  reload,      \* per admin: where its reload is, and the policy it parsed
  ask,         \* per client: where its request is, the request, the policy
               \* loaded for it and the decision
  seen,        \* per client, a history: the policies in force since it asked
  quiet        \* a history: the admin whose reload no other reload and no
               \* rewrite of the file has overlapped, if there is one

vars == <<disk, current, reload, ask, seen, quiet>>

Policies == {Kept(d) : d \in {e \in Documents : Valid(e)}}

ASSUME ParseReturnsPolicies == Unparsable \notin Policies

Init ==
  /\ disk \in {d \in Documents : Valid(d)}
  /\ current = Kept(disk)
  /\ reload = [a \in Admins |-> [at |-> "idle", policy |-> current]]
  /\ ask = [c \in Clients |-> [at |-> "idle"]]
  /\ seen = [c \in Clients |-> {}]
  /\ quiet = {}

(* The operator, not synchronised with anything.                           *)
RewriteFile(d) ==
  /\ d # disk
  /\ disk' = d
  /\ quiet' = {}
  /\ UNCHANGED <<current, reload, ask, seen>>

-----------------------------------------------------------------------------
(* POST /reload: readPolicy, then the pointer.                             *)
Reloading(a) == reload[a].at = "parsed"

BeginsReload(a) ==
  /\ ~Reloading(a)
  /\ quiet' = IF \E b \in Admins : Reloading(b) THEN {} ELSE {a}
  /\ UNCHANGED <<disk, current, ask, seen>>

MutReadPolicy(a) ==
  /\ BeginsReload(a)
  /\ disk # Unparsable
  /\ reload' = [reload EXCEPT ![a] = [at |-> "parsed", policy |-> Kept(disk)]]

ReadPolicy(a) ==
  /\ BeginsReload(a)
  /\ Valid(disk)
  /\ reload' = [reload EXCEPT ![a] = [at |-> "parsed", policy |-> Kept(disk)]]

ReadFails(a) ==
  /\ BeginsReload(a)
  /\ ~Valid(disk)
  /\ reload' = [reload EXCEPT ![a] = [at |-> "failed", policy |-> @.policy]]

MutSwap(a) ==
  /\ Reloading(a)
  /\ reload' = [reload EXCEPT ![a] = [at |-> "ok", policy |-> @.policy]]
  /\ UNCHANGED <<disk, current, ask, seen, quiet>>

Swap(a) ==
  /\ Reloading(a)
  /\ current' = reload[a].policy
  /\ reload' = [reload EXCEPT ![a] = [at |-> "ok", policy |-> @.policy]]
  /\ seen' = [c \in Clients |->
                IF ask[c].at \in {"asked", "loaded"} THEN seen[c] \cup {current'} ELSE seen[c]]
  /\ UNCHANGED <<disk, ask, quiet>>

-----------------------------------------------------------------------------
(* A request: malformed ones are refused before the store is asked.        *)
Asks(c) ==
  /\ ask[c].at = "idle"
  /\ UNCHANGED <<disk, current, reload, quiet>>

Refuse(c, w) ==
  /\ Asks(c)
  /\ Malformed(w)
  /\ ask' = [ask EXCEPT ![c] = [at |-> "malformed"]]
  /\ UNCHANGED seen

Ask(c, w) ==
  /\ Asks(c)
  /\ ~Malformed(w)
  /\ ask' = [ask EXCEPT ![c] = [at |-> "asked", question |-> QuestionOf(w)]]
  /\ seen' = [seen EXCEPT ![c] = {current}]

LoadPointer(c) ==
  /\ ask[c].at = "asked"
  /\ ask' = [ask EXCEPT ![c] = [at |-> "loaded", question |-> @.question, policy |-> current]]
  /\ UNCHANGED <<disk, current, reload, seen, quiet>>

Decides(c, policy) ==
  /\ ask[c].at = "loaded"
  /\ ask' = [ask EXCEPT ![c] = [at |-> "decided", question |-> @.question,
                                decision |-> Evaluate(policy, @.question)]]
  /\ UNCHANGED <<disk, current, reload, seen, quiet>>

MutDecide(c) == Decides(c, [ask[c].policy EXCEPT !.default = current.default])

Decide(c) == Decides(c, ask[c].policy)

(* The connection's next request.                                          *)
Again(c) ==
  /\ ask[c].at \in {"malformed", "decided"}
  /\ ask' = [ask EXCEPT ![c] = [at |-> "idle"]]
  /\ seen' = [seen EXCEPT ![c] = {}]
  /\ UNCHANGED <<disk, current, reload, quiet>>

Next ==
  \/ \E d \in Rewrites : RewriteFile(d)
  \/ \E a \in Admins : ReadPolicy(a) \/ ReadFails(a) \/ Swap(a)
  \/ \E c \in Clients :
       \/ \E w \in Wires : Refuse(c, w) \/ Ask(c, w)
       \/ LoadPointer(c) \/ Decide(c) \/ Again(c)

Spec == Init /\ [][Next]_vars

-----------------------------------------------------------------------------
(* Every policy a goroutine can reach is one that Parse made of a document *)
(* it accepted: readPolicy never hands out a policy validate refused.      *)
TypeOK ==
  /\ disk \in Documents
  /\ current \in Policies
  /\ quiet \subseteq Admins
  /\ reload \in [Admins -> [at : {"idle", "parsed", "ok", "failed"}, policy : Policies]]
  /\ DOMAIN ask = Clients
  /\ seen \in [Clients -> SUBSET Policies]
  /\ \A c \in Clients :
       /\ ask[c].at \in {"idle", "malformed", "asked", "loaded", "decided"}
       /\ ask[c].at = "loaded" => ask[c].policy \in Policies

(* What is in force is itself a document validate accepts, with its hosts  *)
(* and methods in the form they were judged in, which is the form Evaluate *)
(* compares requests with (policy.go:177-193, 220-226), whatever reloads   *)
(* overlap.                                                                *)
InForceIsWellFormed ==
  /\ Valid(current)
  /\ \A i \in DOMAIN current.rules :
       /\ \A h \in current.rules[i].hosts : KeptHost(h) = h
       /\ \A m \in current.rules[i].methods : ToUpper(m) = m

(* A request is judged by one policy, and by one that was in force between *)
(* its arrival and its answer, however many reloads it overlaps            *)
(* (store.go:8-10, 42-44).                                                 *)
DecisionWasInForce ==
  \A c \in Clients : ask[c].at = "decided" =>
    \E p \in seen[c] : ask[c].decision = Evaluate(p, ask[c].question)

(* A reload answered "reloaded" that overlapped no other reload, with no   *)
(* rewrite of the file since it read it, has put the file's rules in force *)
(* (store.go:53-60).  Overlapping reloads give no such promise: the one    *)
(* that read first may store last.                                         *)
ReloadTakesEffect ==
  \A a \in quiet : reload[a].at = "ok" => current = Kept(disk)

=============================================================================
