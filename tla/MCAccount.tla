----------------------------- MODULE MCAccount -----------------------------
(* Requests are interchangeable, and so are e-mails and the users that are *)
(* not there yet.                                                          *)
EXTENDS Account, TLC

MCSymmetry == Permutations(Request) \cup Permutations(Email)
                  \cup Permutations(User \ {Legacy})
=============================================================================
