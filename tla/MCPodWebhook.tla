---------------------------- MODULE MCPodWebhook ----------------------------
(***************************************************************************)
(* Instances of PodWebhook for TLC: two stubs, two label sets, and pods    *)
(* whose containers set PATH, once or twice, take it from a source, or     *)
(* leave it to their image; a manifest dumped from an injected pod; and    *)
(* one that uses the sidecar's name for a container of its own.            *)
(***************************************************************************)
EXTENDS PodWebhook, TLC

CONSTANTS s1, s2, p1, p2, app, other, forApp, forAll, bad, web, tool, twice, usrbin, optbin

MCStubs == {s1, s2}
MCSpecs == {forApp, forAll, bad}
MCBad == {bad}
MCLabels == {app, other}
MCSelects == (forApp :> {app}) @@ (forAll :> {app, other}) @@ (bad :> {})
OnePod == {p1}
TwoPods == {p1, p2}
PodSymmetry == Permutations(TwoPods)
MCDefaultPath == <<usrbin>>
MCDirs == {Bin, usrbin, optbin}

Plain(path) == [mounts |-> 0, path |-> path]
Pod(l, cs) == [labels |-> l, shared |-> 0, scripts |-> <<>>, sidecars |-> <<>>, containers |-> cs]

Simple == Pod(app, web :> Plain(<<>>))
Rich == Pod(app, (web :> Plain(<<>>)) @@ (tool :> Plain(<<<<optbin>>>>))
                 @@ (twice :> Plain(<<<<optbin>>, <<usrbin>>>>)))
Sourced == Pod(app, web :> Plain(<<FromSource>>))
Elsewhere == Pod(other, web :> Plain(<<<<optbin>>>>))
NamedAlike == Pod(app, (web :> Plain(<<>>)) @@ (SidecarName :> Plain(<<>>)))
Dumped ==
    [labels |-> app, shared |-> 1, scripts |-> <<forApp>>, sidecars |-> <<[stub |-> s1, spec |-> forApp]>>,
     containers |-> (web :> [mounts |-> 1, path |-> <<<<Bin, usrbin>>>>])
                 @@ (tool :> [mounts |-> 1, path |-> <<<<Bin, optbin>>>>])
                 @@ (twice :> [mounts |-> 1, path |-> <<<<Bin, optbin>>, <<usrbin>>>>])]

MCManifests == {Rich, Sourced, Elsewhere, NamedAlike, Dumped}
SimpleManifests == {Simple, Elsewhere}
=============================================================================
