------------------------- MODULE MCUpstreamRefresh -------------------------
(* Requests q1 and q2 on r1 and, where there is one, q3 on r2.              *)
EXTENDS UpstreamRefresh

CONSTANTS q1, q2, q3, r1, r2, s1, s2, k1

MCOn == [q \in Request |-> IF q = q3 /\ r2 \in Replica THEN r2 ELSE r1]
MCStripeOf == [s \in Sid |-> k1]
=============================================================================
