--------------------------- MODULE MCStubObjects ---------------------------
(***************************************************************************)
(* An instance of StubObjects for TLC: two specs, one condition of another *)
(* controller, two moments.                                                *)
(***************************************************************************)
EXTENDS StubObjects, TLC

CONSTANTS x1, x2, synced, t1, t2

MCSpecs == {x1, x2}
MCTypes == {synced}
MCTimes == {t1, t2}
MCSymmetry == Permutations(MCSpecs) \union Permutations(MCTimes)
============================================================================
