----------------------------- MODULE LoginFlowMC -----------------------------
\* LoginFlow with two tabs in one browser and a third in another.
EXTENDS LoginFlow, TLC

CONSTANTS b1, b2, t1, t2, t3, p1, p2, u1, u2

TwoBrowsers == (t1 :> b1) @@ (t2 :> b1) @@ (t3 :> b2)
ThreePages  == (t1 :> p1) @@ (t2 :> p2) @@ (t3 :> p2)

\* Nothing tells the users apart.
UsersAlike == Permutations({u1, u2})

OneBrowser == (t1 :> b1) @@ (t2 :> b1)
TwoPages   == (t1 :> p1) @@ (t2 :> p2)

OneTab  == t1 :> b1
OnePage == t1 :> p1

=============================================================================
