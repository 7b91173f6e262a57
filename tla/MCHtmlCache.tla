------------------------------ MODULE MCHtmlCache ------------------------------
(* Two versions of one length with validators, one of it without, one longer.   *)
EXTENDS HtmlCache

CONSTANTS v1, v2, v3, v4

Lengths == [v \in Versions |-> IF v \in {v1, v2, v3} THEN 1 ELSE 2]
=============================================================================
