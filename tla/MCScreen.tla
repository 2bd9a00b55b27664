------------------------------ MODULE MCScreen ------------------------------
(* Screen on a small instance. *)
EXTENDS Screen, TLC

\* Any place, the last, and one past it.
SomePrefs == {-1, MaxShortcutCount - 1, MaxShortcutCount}

Alike == Permutations(Tabs) \cup Permutations(Shortcuts)
=============================================================================
