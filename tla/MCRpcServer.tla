----------------------------- MODULE MCRpcServer ------------------------------
(***************************************************************************)
(* Instance of RpcServer for TLC.  Everything may fail that the shims and  *)
(* the handlers deal with.                                                 *)
(***************************************************************************)
EXTENDS RpcServer

MCFailing ==
    ((Methods \X {"struct", "content", "elements", "handler", "buffer"})
     \cup {<<"GetTraceVariables", "overrun">>, <<"GetLogMessage", "nofile">>}) \ NotHandled
=============================================================================
