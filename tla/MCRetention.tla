----------------------------- MODULE MCRetention -----------------------------
(* One client with one authorization, and lifetimes of a few ticks.          *)
EXTENDS Retention

CONSTANTS c1

MCClientOf == [s \in Sid |-> c1]
==============================================================================
