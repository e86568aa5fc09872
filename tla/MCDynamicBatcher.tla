-------------------------- MODULE MCDynamicBatcher --------------------------
(* TLC instances of DynamicBatcher.                                        *)
EXTENDS DynamicBatcherProperties

CONSTANTS a, b
=============================================================================
