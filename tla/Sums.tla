-------------------------------- MODULE Sums --------------------------------
(* Sums of weights, as the loops that accumulate them in Go compute them.  *)
EXTENDS Integers, FiniteSetsExt

\* The sum of w[i] for all i in S.
SumOf(w, S) == MapThenSumSet(LAMBDA i : w[i], S)

=============================================================================
