---------------------------- MODULE MCCoordinator ----------------------------
(* Two servers with the same tool, and a tool that neither has.            *)
EXTENDS Coordinator

CONSTANTS p1, q1, q2, s1, s2, t, u

Lists  == {<< >>, <<s1, s2>>}
Offer  == [s \in {s1, s2} |-> {t}]
=============================================================================
