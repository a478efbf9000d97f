-------------------------------- MODULE Results --------------------------------
(***************************************************************************)
(* Option and Result, as the other modules use them: an option is a        *)
(* sequence of at most one value, a result that failed is a record that    *)
(* says why.                                                               *)
(***************************************************************************)
None == <<>>
Some(v) == <<v>>
Given(option) == option # None
Value(option) == option[1]
Else(option, v) == IF Given(option) THEN Value(option) ELSE v

Fail(why) == [error |-> why]
Failed(r) == "error" \in DOMAIN r
================================================================================
