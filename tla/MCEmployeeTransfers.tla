------------------------ MODULE MCEmployeeTransfers ------------------------
(* Small instances of EmployeeTransfers.                                     *)
EXTENDS EmployeeTransfers, TLC

\* The identities of transfers are interchangeable.
TransferSymmetry == Permutations(Transfers)
=============================================================================
