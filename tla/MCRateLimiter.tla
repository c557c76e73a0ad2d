--------------------------- MODULE MCRateLimiter ---------------------------
(***************************************************************************)
(* Instances of RateLimiter.  In OneHost every connection is from the same *)
(* client, some over IPv4 and some through the dual-stack socket; in       *)
(* TwoHosts c3 is from another host.                                       *)
(***************************************************************************)
EXTENDS RateLimiter, TLC

CONSTANTS c1, c2, c3, c4

OneHost == [c \in {c1, c2, c3, c4} |->
              [family |-> IF c \in {c1, c3} THEN "v4" ELSE "mapped", host |-> 1]]
TwoHosts == [OneHost EXCEPT ![c3] = [family |-> "v6", host |-> 2]]

\* Entries, and connections with the same address, are interchangeable.
Symmetry ==
  {p @@ q @@ r : p \in Permutations(Entry), q \in Permutations({c1, c3}),
                 r \in Permutations({c2, c4})}

=============================================================================
