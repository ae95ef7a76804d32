----------------------------- MODULE MCListing -----------------------------
(* Instances of Listing for TLC. *)
EXTENDS Listing

FourDocs == {"d1", "d2", "d3", "d4"}
=============================================================================
