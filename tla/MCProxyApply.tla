---------------------------- MODULE MCProxyApply ----------------------------
(***************************************************************************)
(* Instances of ProxyApply for TLC.                                        *)
(***************************************************************************)
EXTENDS ProxyApply
=============================================================================
