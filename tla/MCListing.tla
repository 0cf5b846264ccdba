------------------------------ MODULE MCListing ------------------------------
(* The instance of Listing, with Browse, that TLC checks.                  *)
EXTENDS Browse

ThreeWords == <<<<"a">>, <<"b">>, <<"a", "\\", "b">>>>
=============================================================================
