--------------------------- MODULE MCTabLifecycle ---------------------------
(* TabLifecycle on small instances. *)
EXTENDS TabLifecycle, TLC

\* Connections, and ids of tabs and of shortcuts, are interchangeable.
Symmetry == Permutations(Conns) \cup Permutations(Tabs) \cup Permutations(Shortcuts)
=============================================================================
