------------------------------ MODULE MCServer ------------------------------
(* Instances of Server for TLC. *)
EXTENDS Server

OneBank == {"comdirect"}
TwoBanks == {"comdirect", "other"}
TwoBrowsers == {"w1", "w2"}

ThreeChallenges == {"c1", "c2", "c3"}
FourChallenges == {"c1", "c2", "c3", "c4"}
=============================================================================
