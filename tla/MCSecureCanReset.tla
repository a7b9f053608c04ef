-------------------------- MODULE MCSecureCanReset --------------------------
(***************************************************************************)
(* The two nodes with resets, on the instances of MCSecureCan.             *)
(***************************************************************************)
EXTENDS SecureCanReset, MCSecureCan

=============================================================================
