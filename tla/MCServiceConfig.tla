-------------------------- MODULE MCServiceConfig --------------------------
(* Small configuration files for ServiceConfig.                            *)
EXTENDS ServiceConfig
=============================================================================
