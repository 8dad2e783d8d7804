---------------------------- MODULE Subsequences ----------------------------
(* The elements of a sequence that are in a set, in their order.  It is    *)
(* what SelectSeq gives for a test of membership, written as a recursive   *)
(* function.                                                               *)
EXTENDS Naturals, Sequences

Among(seq, S) ==
  LET upto[n \in 0 .. Len(seq)] ==
        IF n = 0 THEN <<>>
        ELSE IF seq[n] \in S THEN Append(upto[n - 1], seq[n]) ELSE upto[n - 1]
  IN upto[Len(seq)]
=============================================================================
