----------------------------- MODULE MCHttpServer -----------------------------
(***************************************************************************)
(* Instances of HttpServer for TLC.                                        *)
(***************************************************************************)
EXTENDS HttpServer

CONSTANTS c1, c2

MCClients == {c1, c2}
MCFds == 1 .. 3

BadRequests == {"bad_request"}
=============================================================================
