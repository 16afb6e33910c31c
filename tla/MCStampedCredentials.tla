------------------------ MODULE MCStampedCredentials ------------------------
(* Small deployments for TLC: one name, replicas r1 and r2. dp is per_user,  *)
(* dt provider_token, ds static. open admits the user, shut does not.        *)
EXTENDS StampedCredentials, TLC

CONSTANTS dp, dt, ds, u1, open, shut, a, h1, h2, h3, r1, r2, s1

MCUrlOf  == [d \in Def |-> u1]
MCModeOf == [d \in Def |-> CASE d = dp -> "per_user" [] d = dt -> "provider_token" [] OTHER -> "static"]

\* h2 runs on the second replica, if there is one; the others on r1.
MCOn == [h \in SigningIn \cup Saving \cup Proxying |-> IF h = h2 /\ r2 \in Replica THEN r2 ELSE r1]

Plain  == [targets |-> [n \in Name |-> NoTarget], refuses |-> {}]
Owning == [targets |-> [n \in Name |-> [def |-> dp, access |-> open]], refuses |-> {}]
OnlyPlain == {Plain}
OnlyOwning == {Owning}
Rolling == {Plain, Owning}
=============================================================================
