------------------------------ MODULE ThreeValued ------------------------------
(* The three-valued logic of SQL: a term is true, false or null.              *)

Truth == {"true", "false", "null"}

And3(S) == IF "false" \in S THEN "false" ELSE IF "null" \in S THEN "null" ELSE "true"
Or3(S)  == IF "true"  \in S THEN "true"  ELSE IF "null" \in S THEN "null" ELSE "false"
Not3(t) == CASE t = "true" -> "false" [] t = "false" -> "true" [] OTHER -> "null"

TruthOf(b) == IF b THEN "true" ELSE "false"
================================================================================
