-------------------------------- MODULE Sifting --------------------------------
(* Vec::retain, as a recursive function.                                       *)
EXTENDS Naturals, Sequences

\* The elements of s that are in P, in their order.
Sift(s, P) ==
    LET upto[i \in 0..Len(s)] ==
          IF i = 0 THEN << >>
          ELSE IF s[i] \in P THEN Append(upto[i - 1], s[i]) ELSE upto[i - 1]
    IN upto[Len(s)]
=============================================================================
