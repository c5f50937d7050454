---------------------------- MODULE MCHTTPServer ----------------------------
(* Instances of HTTPServer for TLC: a and b share a connection, x has one  *)
(* of its own.                                                             *)
EXTENDS HTTPServer

CONSTANTS a, b, x, c1, c2

TwoConns == [r \in {a, b, x} |-> IF r = x THEN c2 ELSE c1]
=============================================================================
