--------------------------- MODULE MCServiceCheck ---------------------------
(* Two checks: one with two URL tests, which share every queue, and one    *)
(* with a row of a service type nobody knows.                              *)
EXTENDS ServiceCheck

MCChecks == {"director", "sal"}
MCTypes == {"ping", "url"}

MCTests == {"page", "shop", "odd"}
MCCheckOf == [t \in MCTests |-> IF t = "odd" THEN "sal" ELSE "director"]
MCTypeOf == [t \in MCTests |-> IF t = "odd" THEN "dns" ELSE "url"]
=============================================================================
