------------------------ MODULE MCSessionController ------------------------
(* Model values for SessionController: two devices of one user, request    *)
(* handlers w1 and w2 and the cleaner cl.                                  *)
EXTENDS SessionController, TLC

CONSTANTS d1, d2, u, w1, w2, cl, s1, s2, s3, p1, g1

User == [d \in Devices |-> u]
Sym == Permutations({w1, w2}) \cup Permutations(Sessions)
=============================================================================
