----------------------------- MODULE MCHttpServer -----------------------------
(* HttpServer for TLC: three connections compete for two slots and for one     *)
(* call of the service.                                                        *)
EXTENDS HttpServer
===============================================================================
