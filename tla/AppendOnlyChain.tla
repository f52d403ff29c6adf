--------------------------- MODULE AppendOnlyChain ---------------------------
(***************************************************************************)
(* What the audit log promises its reader, with no file, process or crash  *)
(* in sight: a chain of bodies that only ever grows by one at its end, and *)
(* a set of positions a caller has been told are written.  A position may  *)
(* be filled without anyone being told (the process died in between); it   *)
(* is never announced before it is filled.                                 *)
(***************************************************************************)
EXTENDS Naturals, Sequences

CONSTANT Bodies

VARIABLES chain, announced
avars == <<chain, announced>>

AInit == chain = <<>> /\ announced = {}

Extend(b) == chain' = Append(chain, b)

ExtendAndAnnounce(b) == Extend(b) /\ announced' = announced \cup {Len(chain')}

ExtendUnannounced(b) == Extend(b) /\ UNCHANGED announced

ANext == \E b \in Bodies : ExtendAndAnnounce(b) \/ ExtendUnannounced(b)

ASpec == AInit /\ [][ANext]_avars
=============================================================================
