-------------------------- MODULE MCTargetRegistry --------------------------
(* Small deployments for TLC. d1 is per_user at u1, d2 static at u1 and d3   *)
(* static at u2.                                                             *)
EXTENDS TargetRegistry, TLC

CONSTANTS d1, d2, d3, u1, u2, g1, a, t1, t2, p1, p2, r1, r2

\* One replica, so that buildMu and the row locks are contended.
OneHome == [t \in Thread |-> r1]

\* A handler on each of two replicas.
TwoHomes == [t \in Thread |-> IF t \in {t1, p1} THEN r1 ELSE r2]

MCUrlOf  == [d \in Def |-> IF d = d3 THEN u2 ELSE u1]
MCModeOf == [d \in Def |-> IF d = d1 THEN "per_user" ELSE "static"]

NoConfig == [n \in Name |-> NoTarget]
OwnsA == [n \in Name |-> [def |-> d1, access |-> g1]]

\* A deployment with no config target, and one with a config target named a
\* whose policy refuses d2.
Plain    == [targets |-> NoConfig, refuses |-> {}]
Owning   == [targets |-> OwnsA, refuses |-> {d2}]
OnlyPlain == {Plain}
Rolling == {Plain, Owning}
=============================================================================
