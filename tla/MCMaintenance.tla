---------------------------- MODULE MCMaintenance ----------------------------
(***************************************************************************)
(* Three commits in a line, and what may happen beside maintenance.        *)
(***************************************************************************)
EXTENDS Maintenance, TLC

CONSTANTS c1, c2, c3, main, dev, m1, m2

Line == (c1 :> {c1}) @@ (c2 :> {c1, c2}) @@ (c3 :> {c1, c2, c3})
Short == (c1 :> {c1}) @@ (c2 :> {c1, c2})
Symmetry == Permutations(Maintainers)

Branches == [runs |-> 1, refs |-> {main, dev}, rewrites |-> FALSE, reshards |-> FALSE, takes |-> {1}]
Overlap == [Branches EXCEPT !.runs = 2, !.refs = {main}]
Rewriting == [Branches EXCEPT !.refs = {main}, !.rewrites = TRUE, !.takes = {1, 2}]
Resharding == [Branches EXCEPT !.refs = {main}, !.reshards = TRUE]
Each == {Branches, Overlap, Rewriting, Resharding}
OnlyResharding == {[Resharding EXCEPT !.refs = {main, dev}]}
OverlapRewriting == {[Overlap EXCEPT !.rewrites = TRUE]}
=============================================================================
