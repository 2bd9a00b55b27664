----------------------------- MODULE MCTabLayout -----------------------------
(* TabLayout on small instances. *)
EXTENDS TabLayout

\* Every kind of preferredPos but POS_MIDDLE, with a slot of each third and one
\* that does not exist.
KindsOfPlace == {POS_ANY, POS_BEGINNING, POS_END, POS_EXTRA, 1, 4, MaxTabs}

\* The thirds alone, and POS_ANY to fill them up.
Thirds == {POS_ANY, POS_BEGINNING, POS_MIDDLE, POS_END}

\* What the word next to the vector may hold: a slot that is taken, one of
\* another third, and no slot at all.
Words == {-7, 0, 3}
=============================================================================
