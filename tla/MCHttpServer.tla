---------------------------- MODULE MCHttpServer ----------------------------
(* An instance of HttpServer for TLC: one connection more than descriptors. *)
EXTENDS HttpServer

CONSTANTS c1, c2, c3

MCConns == {c1, c2, c3}
MCOne   == {c1}
=============================================================================
