-------------------------- MODULE MCApplicationData --------------------------
(* Inputs for checking ApplicationData with TLC: one question in its three *)
(* forms, with and without an answer, another one, and a blank one.        *)
EXTENDS ApplicationData

CONSTANTS k1, k2, a1, a2

MCInput ==
    {[question |-> [key |-> k1, form |-> "plain"],  answer |-> a1],
     [question |-> [key |-> k1, form |-> "cased"],  answer |-> a2],
     [question |-> [key |-> k1, form |-> "padded"], answer |-> NoAnswer],
     [question |-> [key |-> k2, form |-> "padded"], answer |-> a1],
     [question |-> [key |-> Blank, form |-> "padded"], answer |-> a1]}
=============================================================================
