--------------------------- MODULE MCTokenGrants ---------------------------
(* One session, two requests to /token and one to /revoke.                  *)
EXTENDS TokenGrants

CONSTANTS s1, h1, h2, r1
=============================================================================
