--------------------------- MODULE MCRequests -----------------------------
EXTENDS Requests

\* The load balancers are interchangeable: a call may begin at any of them and
\* all start with the same layout.  The nodes are not, Init chooses the leader.
Symmetry == Permutations(LB)
============================================================================
