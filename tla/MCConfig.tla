------------------------------ MODULE MCConfig ------------------------------
(***************************************************************************)
(* An instance of Config: two processes, one in a directory within a       *)
(* project within another and one in the outer project, and the user's     *)
(* file.  The defaults have two lengths, and an operator's file can be     *)
(* longer than both.                                                       *)
(***************************************************************************)
EXTENDS Config

CONSTANTS p1, p2

MCCandidates == [p \in Procs |-> IF p = p1 THEN <<"inner", "outer">> ELSE <<"outer">>]

MCStateOf == [inner |-> "in", outer |-> "out", user |-> "home"]

Guarded == [listen |-> "public", token |-> TRUE, rules |-> TRUE, logs |-> "home"]
Public == [Guarded EXCEPT !.token = FALSE]

Refused == [Guarded EXCEPT !.rules = FALSE]

MCEdits == [inner |-> {Public, Refused}, outer |-> {Guarded}, user |-> {}]

MCSize == [c \in Configs |-> CASE c \in {Guarded, Refused} -> 3 [] c.logs = "in" -> 2 [] OTHER -> 1]
=============================================================================
