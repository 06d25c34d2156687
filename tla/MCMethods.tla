----------------------------- MODULE MCMethods -----------------------------
(* Instance of Methods for TLC: a battery that comes, goes and keeps its   *)
(* charge, a quarter of the full one, asked for as 0 and as 00, of which   *)
(* only the first names its directory, and another one, asked for as 1.    *)
EXTENDS Methods

Written == {"0", "00", "1"}
Strtol == [a \in Written |-> IF a = "1" THEN 1 ELSE 0]
=============================================================================
