----------------------------- MODULE MCRpcLink ------------------------------
(* One call besides the registrations, one check, two connections. *)
EXTENDS RpcLink
=============================================================================
