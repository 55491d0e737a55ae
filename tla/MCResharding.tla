--------------------------- MODULE MCResharding ----------------------------
(* What gcd returns for small counts. *)
EXTENDS Resharding, FiniteSetsExt

gcd(o, n) == Max({d \in 1..o : o % d = 0 /\ n % d = 0})
GcdTable == [o \in Count |-> [n \in Count |-> gcd(o, n)]]
============================================================================
