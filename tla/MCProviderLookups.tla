-------------------------- MODULE MCProviderLookups --------------------------
(* Two requests for two clients, caches with room for one.                    *)
EXTENDS ProviderLookups

CONSTANTS q1, q2, id1, id2
=============================================================================
