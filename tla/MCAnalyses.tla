----------------------------- MODULE MCAnalyses -----------------------------
EXTENDS Analyses, TLC
CONSTANTS s1, s2, p1, p2, d, e

\* Two profiles on repositories of one name.
OneName == [profile |-> (s1 :> p1) @@ (s2 :> p2), path |-> (p1 :> d) @@ (p2 :> d),
            own |-> {}, home |-> {}, archives |-> {}, crashes |-> TRUE, target |-> {p1}]
\* Two repositories, which the quota does not hold together.
TwoNames == [OneName EXCEPT !.path = (p1 :> d) @@ (p2 :> e), !.target = {p1, p2}]
\* One profile scanned twice, without an endpoint.
OneProfile == [OneName EXCEPT !.profile = (s1 :> p1) @@ (s2 :> p1), !.target = {}]
\* A profile that scans what is uploaded under the name of a repository of the other.
OwnUpload == [OneName EXCEPT !.own = {p2}, !.archives = {d}, !.crashes = FALSE, !.target = {p1, p2}]
\* A directory of the user's machine.
Home == [OneName EXCEPT !.own = {p2}, !.path = (p1 :> d) @@ (p2 :> e), !.home = {e}, !.crashes = FALSE]

MCLayouts == {OneName, TwoNames, OneProfile, OwnUpload, Home}
AllTasks == {"blue", "purple", "sandbox"}
=============================================================================
