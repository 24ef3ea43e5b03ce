-------------------------- MODULE MCVendorReconcile --------------------------
(* Instances of VendorReconcile for TLC.                                   *)
EXTENDS VendorReconcile, TLC

CONSTANTS p, f, m, wp, alt, bad, r1, none

(* f is a number of another country that ends in the ten digits of p; p can*)
(* stand on the list in another format (alt); bad is no number.            *)
WireOf == p :> wp @@ f :> wp
ParseOf == wp :> p @@ alt :> p @@ bad :> none
=============================================================================
