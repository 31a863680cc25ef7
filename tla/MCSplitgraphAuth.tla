-------------------------- MODULE MCSplitgraphAuth --------------------------
(***************************************************************************)
(* Two accounts that differ matter to every property, and two calls of     *)
(* fetchAccessToken can overlap; two tokens of an account can be installed *)
(* in the other order than they were issued in.                            *)
(***************************************************************************)
EXTENDS SplitgraphAuth, TLC

Symmetry == Permutations(Accounts) \cup Permutations(Calls)
=============================================================================
