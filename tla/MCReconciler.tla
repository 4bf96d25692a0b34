---------------------------- MODULE MCReconciler ----------------------------
(***************************************************************************)
(* Instances of Reconciler for TLC: two stubs, two pods, a selector for    *)
(* both pods, one for a single pod, and an invalid one.                    *)
(***************************************************************************)
EXTENDS Reconciler, TLC

CONSTANTS s1, s2, p1, p2, both, one, bad

OneStub == {s1}
TwoStubs == {s1, s2}
MCPods == {p1, p2}
MCStart == {(p1 :> "none") @@ (p2 :> "none"), (p1 :> "injected") @@ (p2 :> "plain")}
MCSelectors == {both, one, bad}
MCBad == {bad}
MCMatches == (both :> {p1, p2}) @@ (one :> {p1}) @@ (bad :> {})
=============================================================================
