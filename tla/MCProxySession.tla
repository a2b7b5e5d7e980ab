--------------------------- MODULE MCProxySession ---------------------------
(***************************************************************************)
(* ProxySession for TLC: which members of the sets of controls and kinds   *)
(* are interchangeable.                                                    *)
(***************************************************************************)
EXTENDS ProxySession, TLC

Symmetry == Permutations(Kinds) \cup Permutations(Keys)

=============================================================================
