----------------------------- MODULE MCRedemption ----------------------------
(* Two coupons of each kind, one kind at a time. *)
EXTENDS Redemption, TLC

MCKinds == {"codeperks", "goldxtra", "clipxtra"}
MCSymmetry == Permutations(Request) \cup Permutations(Coupon) \cup Permutations(Certificate)
==============================================================================
