------------------------------ MODULE MCSession -------------------------------
(* Session for TLC: the texts of the ids there can be. *)
EXTENDS Session

MCNumerals == <<"0", "1", "2">>
===============================================================================
