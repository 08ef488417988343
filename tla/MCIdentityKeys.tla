---------------------------- MODULE MCIdentityKeys ----------------------------
(* IdentityKeys on small instances: two browsers with a tab each, or two     *)
(* tabs of one browser.                                                      *)
EXTENDS IdentityKeys, TLC

CONSTANTS p1, p2, b1, b2

TwoBrowsers == (p1 :> b1) @@ (p2 :> b2)
OneBrowser == (p1 :> b1) @@ (p2 :> b1)

\* Two browsers with a tab each are interchangeable together with their tabs.
Swap == (p1 :> p2) @@ (p2 :> p1) @@ (b1 :> b2) @@ (b2 :> b1)

Symmetry == {Swap} \cup Permutations(Users) \cup Permutations(Passwords) \cup Permutations(Keys)
            \cup Permutations(Calls)

=============================================================================
