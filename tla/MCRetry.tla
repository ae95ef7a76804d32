------------------------------ MODULE MCRetry ------------------------------
(* Instances of Retry for TLC. *)
EXTENDS Retry

\* An attempt is answered at once, or at the client's timeout.
Extremes == {0, Timeout}

\* None, now, in two seconds, in ten minutes, or beyond the Limit.
SomeHeaders == {NoHeader, 0, 8, 2400, 5003}
=============================================================================
