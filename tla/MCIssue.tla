------------------------------ MODULE MCIssue ------------------------------
(* Two issues, one of them opened, two comments, one of them posted on it.  *)
EXTENDS Issue, TLC

CONSTANTS i1, i2, c1, c2, u1, u2

MCOpened == (i1 :> u1) @@ (i2 :> None)
MCPosted == (c1 :> i1) @@ (c2 :> None)

RequestSymmetry == Permutations(Request)
=============================================================================
