-------------------------- MODULE MCClientSession --------------------------
(***************************************************************************)
(* The client for TLC; its bounds are in the configuration.                *)
(***************************************************************************)
EXTENDS ClientSessionProperties
=============================================================================
