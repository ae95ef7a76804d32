------------------------------ MODULE MCTokens ------------------------------
(* Instances of Tokens for TLC. *)
EXTENDS Tokens

TwoLoops == {"syncLoop", "tokenRefreshLoop"}
=============================================================================
