------------------------------ MODULE AccountsMC ------------------------------
(* Instances of Accounts for TLC: logins are interchangeable. *)
EXTENDS Accounts, TLC

LoginSymmetry == Permutations(Logins)
=============================================================================
