--------------------------- MODULE MCEventTarget ---------------------------
(***************************************************************************)
(* Two listeners and three subscriptions: one listener can be subscribed   *)
(* twice beside another.  A dispatch within a dispatch is the first case   *)
(* in which a removal must reach an outer one.                             *)
(***************************************************************************)
EXTENDS EventTarget, TLC

Symmetry ==
    Permutations(Events) \cup Permutations(Listeners) \cup Permutations(Subscriptions)
=============================================================================
