----------------------- MODULE MCCriticalProjection -------------------------
(***************************************************************************)
(* Instances of CriticalProjection: two processes, two new source facts.   *)
(* A fact derives one event exactly when another source fact precedes it,  *)
(* so an engine that lost or repeated part of its prefix derives wrongly.  *)
(***************************************************************************)
EXTENDS CriticalProjection, TLC

CONSTANTS p1, p2, a, b

MCProcs == {p1, p2}
OneWorker == {p1}
MCFacts == {a, b}
MCEmits == [S \in SUBSET MCFacts |-> [f \in MCFacts |-> IF S = {} THEN 0 ELSE 1]]
NoLegacy == <<>>
SomeLegacy == <<Source(a), Derived(a, 1)>>
Symmetry == Permutations(MCProcs)
=============================================================================
