---------------------------- MODULE MCReceivePack ----------------------------
(***************************************************************************)
(* Two gateways, and a commit c2 that follows c1.                          *)
(***************************************************************************)
EXTENDS ReceivePack, TLC

CONSTANTS g1, g2, p1, p2, p3, f1, main, dev, c1, c2

Short == (c1 :> {c1}) @@ (c2 :> {c1, c2})

\* p1 and p2 share a gateway, p3 uses the other one.
Spread == (p1 :> g1) @@ (p2 :> g1) @@ (p3 :> g2)
\* A push and a fetch share a gateway, a push uses the other one.
WithFetch == (p1 :> g1) @@ (p3 :> g2) @@ (f1 :> g1)
Alone == p1 :> g1
\* Two pushes through one gateway are interchangeable.
Symmetry == Permutations({p1, p2})
=============================================================================
