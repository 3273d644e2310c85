---------------------------- MODULE MCHttpServer ----------------------------
(***************************************************************************)
(* HttpServer for TLC.  One thread in the pool is enough: handlers share   *)
(* nothing but the pool's queue, and a second connection waits in it.      *)
(***************************************************************************)
EXTENDS HttpServer
=============================================================================
