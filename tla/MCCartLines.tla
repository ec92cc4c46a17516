---------------------------- MODULE MCCartLines ----------------------------
(***************************************************************************)
(* An instance of CartLines for TLC.                                       *)
(***************************************************************************)
EXTENDS CartLines, TLC

\* No action names a session, a variant or a line.
AnyName == Permutations(Sessions) \union Permutations(Variants)
               \union Permutations(LineIds)

=============================================================================
