------------------------------- MODULE MCExits -------------------------------
(* Small instances of Exits.                                                 *)
EXTENDS Exits, TLC

\* OWNERs, assets and exits are interchangeable.
ExitSymmetry == Permutations(Owners) \cup Permutations(Assets) \cup Permutations(Exits)
=============================================================================
