--------------------------- MODULE TabLayout_proofs ---------------------------
(* Why two tabs never share a slot, each third stays in order, a tab is refused *)
(* only for want of a slot, nobody else is moved, and the bar shows it all.    *)
EXTENDS TabLayout, FiniteSetTheorems, SequenceTheorems, WellFoundedInduction, TLAPS

(***************************************************************************)
(* What holds of a map of pages: as long as no vector has been read        *)
(* outside its bounds it is the inductive invariant.                       *)
(***************************************************************************)
InPlace(ps, t) ==
  /\ ps[t].pref = POS_EXTRA => ps[t].pos = POS_EXTRA
  /\ ps[t].pref # POS_EXTRA => ps[t].pos \in Slots
  /\ ps[t].pref \in ZonePrefs => ps[t].pos \in Zone(ps[t].pref)
  /\ ps[t].pref >= 0 => ps[t].pos = ps[t].pref

Apart(ps, t, u) ==
  t # u /\ ps[t].pref # POS_EXTRA /\ ps[u].pref # POS_EXTRA => ps[t].pos # ps[u].pos

InUrlOrder(ps, t, u) ==
  ps[t].pref \in ZonePrefs /\ ps[u].pref = ps[t].pref /\ UrlLess(ps, t, u)
    => ps[t].pos < ps[u].pos

IsPages(ps) ==
  /\ DOMAIN ps \subseteq Uuids
  /\ \A t \in DOMAIN ps : ps[t].url \in Urls /\ ps[t].pref \in Prefs /\ ps[t].pos \in Int

Sound(ps) ==
  /\ IsPages(ps)
  /\ \A t \in DOMAIN ps : InPlace(ps, t)
  /\ \A t, u \in DOMAIN ps : Apart(ps, t, u) /\ InUrlOrder(ps, t, u)

LayoutInv == ~overrun => Sound(pages)

\* A map that is sound but for t, which has no slot yet or stands where it did
\* before its URL changed.
SoundBut(ps, t) ==
  /\ IsPages(ps) /\ t \in DOMAIN ps
  /\ \A u \in DOMAIN ps \ {t} : InPlace(ps, u)
  /\ \A u, v \in DOMAIN ps \ {t} : Apart(ps, u, v) /\ InUrlOrder(ps, u, v)
  /\ \/ ps[t].pos = -1
     \/ InPlace(ps, t) /\ \A u \in DOMAIN ps : Apart(ps, t, u)

-----------------------------------------------------------------------------
\* The thirds are slots.
LEMMA ZonesAreSlots ==
  ASSUME NEW pref \in ZonePrefs
  PROVE  Zone(pref) \subseteq Slots
<1> DEFINE third == MaxTabs \div 3
<1>1. MaxTabs \in Nat
  BY LayoutAssumption
<1>2. third \in Nat /\ 3 * third <= MaxTabs
  BY <1>1
<1>3. pref \in {-2, -3, -4}
  BY DEF ZonePrefs, POS_BEGINNING, POS_MIDDLE, POS_END
<1>4. Zone(pref) \in {0..(third - 1), third..(2 * third - 1), (2 * third)..(MaxTabs - 1)}
  BY DEF Zone
<1>5. QED
  BY <1>1, <1>2, <1>4 DEF Slots

\* The order of pageUrlLess is total.
LEMMA UrlOrderTotal ==
  ASSUME NEW ps, IsPages(ps), NEW t \in DOMAIN ps, NEW u \in DOMAIN ps, t # u
  PROVE  UrlLess(ps, t, u) \/ UrlLess(ps, u, t)
<1>1. t \in Int /\ u \in Int /\ ps[t].url \in Int /\ ps[u].url \in Int
  BY LayoutAssumption DEF IsPages
<1>2. QED
  BY <1>1 DEF UrlLess

\* Only the position of the pages in f changes, and it becomes f's.
LEMMA MovedPages ==
  ASSUME NEW ps, NEW f
  PROVE  /\ DOMAIN Moved(ps, f) = DOMAIN ps
         /\ \A t \in DOMAIN ps :
              /\ Moved(ps, f)[t].url = ps[t].url /\ Moved(ps, f)[t].pref = ps[t].pref
              /\ t \in DOMAIN f => Moved(ps, f)[t].pos = f[t]
              /\ t \notin DOMAIN f => Moved(ps, f)[t].pos = ps[t].pos
  BY DEF Moved, At

\* A label is only written on the tab.
LEMMA LabelledPages ==
  ASSUME NEW ps, NEW t
  PROVE  /\ DOMAIN Labelled(ps, t) = DOMAIN ps
         /\ \A u \in DOMAIN ps :
              /\ Labelled(ps, t)[u].url = ps[u].url /\ Labelled(ps, t)[u].pref = ps[u].pref
              /\ Labelled(ps, t)[u].pos = ps[u].pos
  BY DEF Labelled, WithLabel

\* Soundness is a matter of URLs, preferences and positions.
LEMMA SameSound ==
  ASSUME NEW ps, NEW qs, Sound(ps), DOMAIN qs \subseteq DOMAIN ps,
         \A u \in DOMAIN qs : qs[u].url = ps[u].url /\ qs[u].pref = ps[u].pref
                              /\ qs[u].pos = ps[u].pos
  PROVE  Sound(qs)
<1>1. IsPages(qs)
  BY DEF Sound, IsPages
<1>2. \A u \in DOMAIN qs : InPlace(qs, u)
  BY DEF Sound, InPlace
<1>3. \A u, v \in DOMAIN qs : Apart(qs, u, v)
  BY DEF Sound, Apart
<1>4. \A u, v \in DOMAIN qs : InUrlOrder(qs, u, v)
  BY DEF Sound, InUrlOrder, UrlLess
<1>5. QED
  BY <1>1, <1>2, <1>3, <1>4 DEF Sound

\* A page that asked for no third is put on a slot nobody has.
LEMMA PlaceOne ==
  ASSUME NEW ps, NEW t, SoundBut(ps, t), ps[t].pref \notin ZonePrefs, NEW x \in Int,
         NEW qs, qs = Moved(ps, [u \in {t} |-> x]), InPlace(qs, t),
         ps[t].pref # POS_EXTRA => \A u \in DOMAIN ps \ {t} : ps[u].pos # x
  PROVE  Sound(qs)
<1>1. /\ DOMAIN qs = DOMAIN ps
      /\ \A u \in DOMAIN ps :
           /\ qs[u].url = ps[u].url /\ qs[u].pref = ps[u].pref
           /\ u # t => qs[u].pos = ps[u].pos
      /\ qs[t].pos = x
  BY MovedPages DEF SoundBut
<1>2. IsPages(qs)
  BY <1>1 DEF SoundBut, IsPages
<1>3. \A u \in DOMAIN qs : InPlace(qs, u)
  BY <1>1 DEF SoundBut, InPlace
<1>4. \A u, v \in DOMAIN qs : Apart(qs, u, v)
  BY <1>1 DEF SoundBut, Apart
<1>5. \A u, v \in DOMAIN qs : InUrlOrder(qs, u, v)
  <2>1. SUFFICES ASSUME NEW u \in DOMAIN qs, NEW v \in DOMAIN qs,
                        qs[u].pref \in ZonePrefs, qs[v].pref = qs[u].pref, UrlLess(qs, u, v)
                 PROVE  qs[u].pos < qs[v].pos
    BY DEF InUrlOrder
  <2>2. u # t /\ v # t
    BY <1>1, <2>1 DEF SoundBut
  <2>3. InUrlOrder(ps, u, v) /\ UrlLess(ps, u, v)
    BY <1>1, <2>1, <2>2 DEF SoundBut, UrlLess
  <2>4. QED
    BY <1>1, <2>1, <2>2, <2>3 DEF InUrlOrder
<1>6. QED
  BY <1>2, <1>3, <1>4, <1>5 DEF Sound

\* allocateZonePosition inside its bounds keeps the third in order and disturbs
\* nobody else: what it hands out was free or belonged to one of the pages it moves.
LEMMA ZoneSound ==
  ASSUME NEW ps, NEW t, SoundBut(ps, t), ps[t].pref \in ZonePrefs,
         NEW f \in InOrder(ps, Mates(ps, t), Chosen(ps, t)), NEW qs, qs = Moved(ps, f)
  PROVE  Sound(qs)
<1> DEFINE zone  == Zone(ps[t].pref)
           mates == Mates(ps, t)
<1>1. zone \subseteq Slots /\ Slots \subseteq Int /\ ps[t].pref # POS_EXTRA /\ -1 \notin zone
      /\ ~(ps[t].pref >= 0)
  BY ZonesAreSlots DEF ZonePrefs, POS_BEGINNING, POS_MIDDLE, POS_END, POS_EXTRA, Slots
<1>2. mates \subseteq DOMAIN ps /\ t \in mates /\ \A u \in mates : ps[u].pref = ps[t].pref
  BY DEF Mates, SoundBut
<1>3. /\ DOMAIN f = mates
      /\ \A u \in mates : f[u] \in Candidates(ps, t)
      /\ \A u, v \in mates : UrlLess(ps, u, v) => f[u] < f[v]
  BY DEF InOrder, Chosen
<1>4. \A c \in Candidates(ps, t) :
        /\ c \in zone
        /\ \A u \in DOMAIN ps : ps[u].pos = c => \E v \in mates : ps[v].pos = c /\ ps[v].pos \in zone
  BY DEF Candidates, Free, Occupied
<1>5. /\ DOMAIN qs = DOMAIN ps
      /\ \A u \in DOMAIN ps :
           /\ qs[u].url = ps[u].url /\ qs[u].pref = ps[u].pref
           /\ u \in mates => qs[u].pos = f[u]
           /\ u \notin mates => qs[u].pos = ps[u].pos
  BY <1>2, <1>3, MovedPages
<1>6. \A u \in mates : f[u] \in zone
  BY <1>3, <1>4
<1>7. IsPages(qs)
  BY <1>1, <1>5, <1>6 DEF SoundBut, IsPages
<1>8. ASSUME NEW u \in DOMAIN ps
      PROVE  InPlace(qs, u)
  <2>1. CASE u \in mates
    BY <1>1, <1>2, <1>5, <1>6, <2>1 DEF InPlace
  <2>2. CASE u \notin mates
    <3>1. InPlace(ps, u)
      BY <1>2, <2>2 DEF SoundBut
    <3>2. QED
      BY <1>5, <2>2, <3>1 DEF InPlace
  <2>3. QED
    BY <2>1, <2>2
<1>9. ASSUME NEW u \in mates, NEW v \in DOMAIN ps \ mates, ps[v].pref # POS_EXTRA
      PROVE  f[u] # ps[v].pos
  <2>1. SUFFICES ASSUME f[u] = ps[v].pos PROVE FALSE
    OBVIOUS
  <2>2. PICK w \in mates : ps[w].pos = ps[v].pos /\ ps[w].pos \in zone
    BY <1>3, <1>4, <2>1
  <2>3. w # v /\ ps[w].pref # POS_EXTRA /\ w \in DOMAIN ps /\ v # t
    BY <1>1, <1>2, <1>9, <2>2
  <2>4. Apart(ps, w, v)
    BY <1>1, <2>2, <2>3 DEF SoundBut
  <2>5. QED
    BY <1>9, <2>2, <2>3, <2>4 DEF Apart
<1>10. ASSUME NEW u \in mates, NEW v \in mates, u # v
       PROVE  f[u] # f[v]
  <2>1. UrlLess(ps, u, v) \/ UrlLess(ps, v, u)
    BY <1>2, <1>10, UrlOrderTotal DEF SoundBut
  <2>2. f[u] \in Int /\ f[v] \in Int
    BY <1>1, <1>6
  <2>3. QED
    BY <1>3, <2>1, <2>2
<1>11. ASSUME NEW u \in DOMAIN ps, NEW v \in DOMAIN ps
       PROVE  Apart(qs, u, v)
  <2>1. CASE u \in mates /\ v \in mates
    BY <1>5, <1>10, <2>1 DEF Apart
  <2>2. CASE u \in mates /\ v \notin mates
    BY <1>5, <1>9, <2>2 DEF Apart
  <2>3. CASE u \notin mates /\ v \in mates
    BY <1>5, <1>9, <2>3 DEF Apart
  <2>4. CASE u \notin mates /\ v \notin mates
    <3>1. Apart(ps, u, v)
      BY <1>2, <2>4 DEF SoundBut
    <3>2. QED
      BY <1>5, <2>4, <3>1 DEF Apart
  <2>5. QED
    BY <2>1, <2>2, <2>3, <2>4
<1>12. ASSUME NEW u \in DOMAIN ps, NEW v \in DOMAIN ps
       PROVE  InUrlOrder(qs, u, v)
  <2>1. SUFFICES ASSUME qs[u].pref \in ZonePrefs, qs[v].pref = qs[u].pref, UrlLess(qs, u, v)
                 PROVE  qs[u].pos < qs[v].pos
    BY DEF InUrlOrder
  <2>2. UrlLess(ps, u, v)
    BY <1>5, <2>1 DEF UrlLess
  <2>3. CASE ps[u].pref = ps[t].pref
    <3>1. \A w \in DOMAIN ps : ps[w].pref = ps[t].pref => w \in mates
      BY DEF SoundBut, InPlace, Mates
    <3>2. QED
      BY <1>3, <1>5, <2>1, <2>2, <2>3, <3>1
  <2>4. CASE ps[u].pref # ps[t].pref
    <3>1. u \notin mates /\ v \notin mates
      BY <1>2, <1>5, <2>1, <2>4
    <3>2. InUrlOrder(ps, u, v)
      BY <1>2, <3>1 DEF SoundBut
    <3>3. QED
      BY <1>5, <2>1, <2>2, <3>1, <3>2 DEF InUrlOrder
  <2>5. QED
    BY <2>3, <2>4
<1>13. QED
  BY <1>5, <1>7, <1>8, <1>11, <1>12 DEF Sound

\* Whatever position allocateLogicalPosition gives, the map is sound with it.
LEMMA AllocateSound ==
  ASSUME NEW ps, NEW t, SoundBut(ps, t), ~Overruns(ps, t), NEW f \in Allocate(ps, t)
  PROVE  Sound(Moved(ps, f))
<1> DEFINE qs == Moved(ps, f)
<1> USE DEF POS_ANY, POS_BEGINNING, POS_MIDDLE, POS_END, POS_EXTRA
<1>1. CASE ps[t].pref = POS_ANY
  <2>1. PICK x \in First(Free(ps, Slots)) : f = [u \in {t} |-> x]
    BY <1>1 DEF Allocate
  <2>2. x \in Slots /\ x \in Int /\ \A u \in DOMAIN ps : ps[u].pos # x
    BY <2>1 DEF First, Free, Occupied, Slots
  <2>3. qs[t].pos = x /\ qs[t].pref = -1
    BY <1>1, <2>1, MovedPages DEF SoundBut
  <2>4. InPlace(qs, t)
    BY <2>2, <2>3 DEF InPlace, ZonePrefs
  <2>5. ps[t].pref \notin ZonePrefs
    BY <1>1 DEF ZonePrefs
  <2>6. QED
    BY <2>1, <2>2, <2>4, <2>5, PlaceOne
<1>2. CASE ps[t].pref \in ZonePrefs
  <2>1. f \in AllocateZone(ps, t)
    BY <1>2 DEF Allocate, ZonePrefs
  <2>2. f \in InOrder(ps, Mates(ps, t), Chosen(ps, t))
    BY <1>2, <2>1 DEF AllocateZone, Overruns
  <2>3. QED
    BY <1>2, <2>2, ZoneSound
<1>3. CASE ps[t].pref = POS_EXTRA
  <2>1. f = [u \in {t} |-> -10]
    BY <1>3 DEF Allocate, ZonePrefs
  <2>2. qs[t].pos = -10 /\ qs[t].pref = -10
    BY <1>3, <2>1, MovedPages DEF SoundBut
  <2>3. InPlace(qs, t)
    BY <2>2 DEF InPlace, ZonePrefs
  <2>4. ps[t].pref \notin ZonePrefs
    BY <1>3 DEF ZonePrefs
  <2>5. PICK x \in Int : x = -10
    OBVIOUS
  <2>6. f = [u \in {t} |-> x]
    BY <2>1, <2>5
  <2>7. ps[t].pref # POS_EXTRA => \A u \in DOMAIN ps \ {t} : ps[u].pos # x
    BY <1>3
  <2>8. QED
    BY <2>3, <2>4, <2>6, <2>7, PlaceOne
<1>4. CASE ps[t].pref \notin ZonePrefs \cup {POS_ANY, POS_EXTRA}
  <2>1. f \in AllocateAbsolute(ps, t)
    BY <1>4 DEF Allocate
  <2>2. /\ f = [u \in {t} |-> ps[t].pref] /\ ps[t].pref \in Slots
        /\ \A u \in DOMAIN ps \ {t} : ps[u].pos # ps[t].pref
    BY <2>1 DEF AllocateAbsolute
  <2>3. qs[t].pos = ps[t].pref /\ qs[t].pref = ps[t].pref
    BY <2>2, MovedPages DEF SoundBut
  <2>4. InPlace(qs, t)
    BY <1>4, <2>2, <2>3 DEF InPlace
  <2>5. ps[t].pref \in Int
    BY <2>2 DEF Slots
  <2>6. DEFINE x == ps[t].pref
  <2>7. x \in Int /\ f = [u \in {t} |-> x] /\ \A u \in DOMAIN ps \ {t} : ps[u].pos # x
    BY <2>2, <2>5
  <2>8. qs = Moved(ps, [u \in {t} |-> x])
    BY <2>7
  <2>9. ps[t].pref \notin ZonePrefs
    BY <1>4
  <2> HIDE DEF x, qs
  <2>10. QED
    BY <2>4, <2>7, <2>8, <2>9, PlaceOne
<1>5. QED
  BY <1>1, <1>2, <1>3, <1>4

-----------------------------------------------------------------------------
(* The steps. *)

\* A new tab is given a slot of its own, or its third is rearranged around it.
LEMMA NewWebTabSound ==
  ASSUME LayoutInv, NEW t \in Uuids, NEW url \in Urls, NEW pref \in Prefs,
         NewWebTab(t, url, pref)
  PROVE  LayoutInv'
<1> DEFINE entered == Entered(t, url, pref)
<1>1. ~overrun /\ t \notin DOMAIN pages /\ Sound(pages)
  BY DEF NewWebTab, LayoutInv
<1>2. CASE UNCHANGED <<pages, bar, overrun>>
  BY <1>2 DEF LayoutInv
<1>3. ASSUME NEW f \in Allocate(entered, t), overrun' = Overruns(entered, t),
             pages' = Moved(entered, f) \/ pages' = Labelled(Moved(entered, f), t)
      PROVE  LayoutInv'
  <2>1. SUFFICES ASSUME ~overrun'
                 PROVE  Sound(pages')
    BY DEF LayoutInv
  <2>2. /\ DOMAIN entered = DOMAIN pages \cup {t}
        /\ entered[t].url = url /\ entered[t].pref = pref /\ entered[t].pos = -1
        /\ \A u \in DOMAIN pages : entered[u] = pages[u]
    BY <1>1 DEF Entered
  <2>3. IsPages(entered)
    BY <1>1, <2>2 DEF IsPages, Sound
  <2>4. \A u \in DOMAIN entered \ {t} : u \in DOMAIN pages /\ entered[u] = pages[u]
    BY <2>2
  <2>5. \A u \in DOMAIN entered \ {t} : InPlace(entered, u)
    BY <1>1, <2>4 DEF Sound, InPlace
  <2>6. \A u, v \in DOMAIN entered \ {t} : Apart(entered, u, v) /\ InUrlOrder(entered, u, v)
    BY <1>1, <2>4 DEF Sound, Apart, InUrlOrder, UrlLess
  <2>7. SoundBut(entered, t)
    BY <2>2, <2>3, <2>5, <2>6 DEF SoundBut
  <2>8. Sound(Moved(entered, f))
    BY <1>3, <2>1, <2>7, AllocateSound
  <2>9. Sound(Labelled(Moved(entered, f), t))
    BY <2>8, LabelledPages, SameSound
  <2>10. QED
    BY <1>3, <2>8, <2>9
<1>4. QED
  BY <1>2, <1>3 DEF NewWebTab

\* What is left of a sound map is sound.
LEMMA KillTabSound ==
  ASSUME LayoutInv, NEW t \in Uuids, KillTab(t)
  PROVE  LayoutInv'
<1> DEFINE left == [u \in DOMAIN pages \ {t} |-> pages[u]]
<1>1. ~overrun /\ ~overrun' /\ Sound(pages)
  BY DEF KillTab, LayoutInv
<1>2. pages' = pages \/ pages' = left \/ pages' = Labelled(left, t)
  BY DEF KillTab
<1>3. Sound(left)
  BY <1>1, SameSound
<1>4. Sound(Labelled(left, t))
  BY <1>3, LabelledPages, SameSound
<1>5. QED
  BY <1>1, <1>2, <1>3, <1>4 DEF LayoutInv

\* A new URL moves a tab within its third only.
LEMMA NavigateToSound ==
  ASSUME LayoutInv, NEW t \in Uuids, NEW url \in Urls, NavigateTo(t, url)
  PROVE  LayoutInv'
<1> DEFINE named == Navigated(t, url)
<1>1. ~overrun /\ Sound(pages)
  BY DEF NavigateTo, LayoutInv
<1>2. CASE t \notin DOMAIN pages
  BY <1>1, <1>2 DEF NavigateTo, LayoutInv
<1>3. CASE t \in DOMAIN pages
  <2>1. /\ DOMAIN named = DOMAIN pages
        /\ \A u \in DOMAIN pages : named[u].pref = pages[u].pref /\ named[u].pos = pages[u].pos
        /\ \A u \in DOMAIN pages \ {t} : named[u].url = pages[u].url
        /\ named[t].url = url
    BY <1>3 DEF Navigated
  <2>2. IsPages(named)
    BY <1>1, <2>1 DEF Sound, IsPages
  <2>3. \A u \in DOMAIN named : InPlace(named, u)
    BY <1>1, <2>1 DEF Sound, InPlace
  <2>4. \A u, v \in DOMAIN named : Apart(named, u, v)
    BY <1>1, <2>1 DEF Sound, Apart
  <2>5. \A u, v \in DOMAIN named \ {t} : InUrlOrder(named, u, v)
    BY <1>1, <2>1 DEF Sound, InUrlOrder, UrlLess
  <2>6. SoundBut(named, t)
    BY <1>3, <2>1, <2>2, <2>3, <2>4, <2>5 DEF SoundBut
  <2>7. ASSUME pages[t].pref \in ZonePrefs, NEW f \in AllocateZone(named, t),
               pages' = Labelled(Moved(named, f), t), overrun' = Overruns(named, t)
        PROVE  LayoutInv'
    <3>1. SUFFICES ASSUME ~overrun'
                   PROVE  Sound(pages')
      BY DEF LayoutInv
    <3>2. f \in Allocate(named, t)
      BY <1>3, <2>1, <2>7
         DEF Allocate, ZonePrefs, POS_ANY, POS_BEGINNING, POS_MIDDLE, POS_END
    <3>3. Sound(Moved(named, f))
      BY <2>6, <2>7, <3>1, <3>2, AllocateSound
    <3>4. QED
      BY <2>7, <3>3, LabelledPages, SameSound
  <2>8. ASSUME pages[t].pref \in ZonePrefs
        PROVE  pages[t].pos \in Candidates(named, t)
    <3>1. named[t].pos \in Zone(named[t].pref) /\ t \in Mates(named, t)
      BY <1>3, <2>1, <2>3, <2>8 DEF InPlace, Mates
    <3>2. QED
      BY <1>3, <2>1, <3>1 DEF Candidates
  <2>9. CASE pages[t].pref \notin ZonePrefs /\ pages' = named /\ overrun' = overrun
    <3>1. \A u, v \in DOMAIN named : InUrlOrder(named, u, v)
      BY <1>1, <2>1, <2>9 DEF Sound, InUrlOrder, UrlLess
    <3>2. QED
      BY <2>2, <2>3, <2>4, <2>9, <3>1 DEF LayoutInv, Sound
  <2>10. QED
    BY <1>3, <2>7, <2>8, <2>9 DEF NavigateTo
<1>4. QED
  BY <1>2, <1>3

-----------------------------------------------------------------------------
(* Sorting.  The rank of an element is how many come before it; in a finite   *)
(* total order the ranks are 0, 1, ... without a gap, so two orders of equal  *)
(* size can be laid side by side.                                             *)

TotalOrder(S, R) ==
  /\ \A x \in S : <<x, x>> \notin R
  /\ \A x, y, z \in S : <<x, y>> \in R /\ <<y, z>> \in R => <<x, z>> \in R
  /\ \A x, y \in S : x # y => <<x, y>> \in R \/ <<y, x>> \in R

Before(S, R, x) == {y \in S : <<y, x>> \in R}
Rank(S, R) == [x \in S |-> Cardinality(Before(S, R, x))]

\* Ranks are less than the number of elements and grow with the order.
LEMMA RankGrows ==
  ASSUME NEW S, IsFiniteSet(S), NEW R, TotalOrder(S, R)
  PROVE  /\ Rank(S, R) \in [S -> 0..(Cardinality(S) - 1)]
         /\ \A x, y \in S : <<x, y>> \in R => Rank(S, R)[x] < Rank(S, R)[y]
<1>1. Cardinality(S) \in Nat
  BY FS_CardinalityType
<1>2. ASSUME NEW x \in S
      PROVE  Cardinality(Before(S, R, x)) \in 0..(Cardinality(S) - 1)
  <2>1. Before(S, R, x) \in SUBSET S /\ Before(S, R, x) # S
    BY DEF Before, TotalOrder
  <2>2. IsFiniteSet(Before(S, R, x)) /\ Cardinality(Before(S, R, x)) < Cardinality(S)
    <3>1. /\ IsFiniteSet(Before(S, R, x))
          /\ Cardinality(Before(S, R, x)) <= Cardinality(S)
          /\ Cardinality(S) # Cardinality(Before(S, R, x))
      BY <2>1, FS_Subset
    <3>2. Cardinality(Before(S, R, x)) \in Nat
      BY <3>1, FS_CardinalityType
    <3>3. QED
      BY <1>1, <3>1, <3>2
  <2>3. Cardinality(Before(S, R, x)) \in Nat
    BY <2>2, FS_CardinalityType
  <2>4. QED
    BY <1>1, <2>2, <2>3
<1>3. ASSUME NEW x \in S, NEW y \in S, <<x, y>> \in R
      PROVE  Cardinality(Before(S, R, x)) < Cardinality(Before(S, R, y))
  <2>1. /\ Before(S, R, x) \in SUBSET Before(S, R, y)
        /\ x \in Before(S, R, y) /\ x \notin Before(S, R, x)
    BY <1>3 DEF Before, TotalOrder
  <2>2. IsFiniteSet(Before(S, R, y))
    <3>1. Before(S, R, y) \in SUBSET S
      BY DEF Before
    <3>2. QED
      BY <3>1, FS_Subset
  <2>3. /\ IsFiniteSet(Before(S, R, x))
        /\ Cardinality(Before(S, R, x)) <= Cardinality(Before(S, R, y))
        /\ Cardinality(Before(S, R, x)) # Cardinality(Before(S, R, y))
    BY <2>1, <2>2, FS_Subset
  <2>4. Cardinality(Before(S, R, x)) \in Nat /\ Cardinality(Before(S, R, y)) \in Nat
    BY <2>2, <2>3, FS_CardinalityType
  <2>5. QED
    BY <2>3, <2>4
<1>4. QED
  BY <1>2, <1>3 DEF Rank

\* Every rank is taken, once.
LEMMA RanksWithoutGap ==
  ASSUME NEW S, IsFiniteSet(S), NEW R, TotalOrder(S, R)
  PROVE  Rank(S, R) \in Bijection(S, 0..(Cardinality(S) - 1))
<1> DEFINE n == Cardinality(S)
           g == Rank(S, R)
<1>1. n \in Nat
  BY FS_CardinalityType
<1>2. IsFiniteSet(0..(n - 1)) /\ Cardinality(0..(n - 1)) = n
  <2>1. IsFiniteSet(0..(n - 1)) /\ Cardinality(0..(n - 1)) = IF 0 > n - 1 THEN 0 ELSE n - 1 - 0 + 1
    BY <1>1, FS_Interval
  <2>2. QED
    BY <1>1, <2>1
<1>3. g \in [S -> 0..(n - 1)] /\ \A x, y \in S : <<x, y>> \in R => g[x] < g[y]
  BY RankGrows
<1>4. \A x, y \in S : x # y => g[x] # g[y]
  <2> SUFFICES ASSUME NEW x \in S, NEW y \in S, x # y PROVE g[x] # g[y]
    OBVIOUS
  <2>1. <<x, y>> \in R \/ <<y, x>> \in R
    BY DEF TotalOrder
  <2>2. g[x] \in Int /\ g[y] \in Int
    BY <1>3
  <2>3. QED
    BY <1>3, <2>1, <2>2
<1> HIDE DEF g
<1>5. g \in Injection(S, 0..(n - 1))
  BY <1>3, <1>4 DEF Injection, IsInjective
<1>6. g \in Surjection(S, 0..(n - 1))
  BY <1>2, <1>5, FS_Injection
<1>7. QED
  BY <1>5, <1>6 DEF g, Bijection

\* The order of slots, and its converse.
Ascending == {p \in Int \X Int : p[1] < p[2]}
Descending == {p \in Int \X Int : p[1] > p[2]}

LEMMA SlotOrders ==
  ASSUME NEW S \in SUBSET Int
  PROVE  TotalOrder(S, Ascending) /\ TotalOrder(S, Descending)
<1>1. \A x, y \in S : /\ <<x, y>> \in Ascending <=> x < y
                      /\ <<x, y>> \in Descending <=> x > y
  BY DEF Ascending, Descending
<1>2. \A x, y, z \in S : x < y /\ y < z => x < z
  OBVIOUS
<1>3. QED
  BY <1>1, <1>2 DEF TotalOrder

\* As many slots as pages: there is a way to put the pages in order.
LEMMA Sortable ==
  ASSUME NEW S, IsFiniteSet(S), NEW R, TotalOrder(S, R),
         NEW T \in SUBSET Int, IsFiniteSet(T), Cardinality(T) = Cardinality(S)
  PROVE  \E f \in [S -> T] : \A x, y \in S : <<x, y>> \in R => f[x] < f[y]
<1> DEFINE r == Rank(S, R)
           g == Rank(T, Ascending)
           f == [x \in S |-> CHOOSE c \in T : g[c] = r[x]]
<1>1. /\ r \in [S -> 0..(Cardinality(S) - 1)]
      /\ \A x, y \in S : <<x, y>> \in R => r[x] < r[y]
  BY RankGrows
<1>2. TotalOrder(T, Ascending)
  BY SlotOrders
<1>3. /\ g \in [T -> 0..(Cardinality(S) - 1)]
      /\ \A c, d \in T : <<c, d>> \in Ascending => g[c] < g[d]
  BY <1>2, RankGrows
<1>4. \A k \in 0..(Cardinality(S) - 1) : \E c \in T : g[c] = k
  <2>1. g \in Bijection(T, 0..(Cardinality(T) - 1))
    BY <1>2, RanksWithoutGap
  <2>2. QED
    BY <2>1 DEF Bijection, Surjection
<1> HIDE DEF r, g
<1>5. \A x \in S : f[x] \in T /\ g[f[x]] = r[x]
  BY <1>1, <1>4
<1>6. ASSUME NEW x \in S, NEW y \in S, <<x, y>> \in R
      PROVE  f[x] < f[y]
  <2>1. r[x] < r[y] /\ r[x] \in Int /\ r[y] \in Int
    BY <1>1, <1>6
  <2> DEFINE c == f[x]
             d == f[y]
  <2>2. c \in Int /\ d \in Int /\ c \in T /\ d \in T
    BY <1>5
  <2>3. g[c] < g[d] /\ g[c] \in Int /\ g[d] \in Int
    BY <1>5, <2>1
  <2> HIDE DEF c, d
  <2>4. ~(d < c) /\ d # c
    <3>1. d < c => <<d, c>> \in Ascending
      BY <2>2 DEF Ascending
    <3>2. QED
      BY <1>3, <2>2, <2>3, <3>1
  <2>5. c < d
    BY <2>2, <2>4
  <2>6. QED
    BY <2>5 DEF c, d
<1>7. f \in [S -> T]
  BY <1>5
<1>8. QED
  BY <1>6, <1>7

\* The first n of an order are n.
LEMMA FirstOnes ==
  ASSUME NEW S, IsFiniteSet(S), NEW R, TotalOrder(S, R), NEW n \in Nat, n <= Cardinality(S)
  PROVE  Cardinality({c \in S : Cardinality(Before(S, R, c)) < n}) = n
<1> DEFINE g == Rank(S, R)
           T == {c \in S : Cardinality(Before(S, R, c)) < n}
           h == [c \in T |-> g[c]]
<1>1. Cardinality(S) \in Nat
  BY FS_CardinalityType
<1>2. \A c \in S : g[c] = Cardinality(Before(S, R, c))
  BY DEF Rank
<1>3. /\ g \in [S -> 0..(Cardinality(S) - 1)]
      /\ \A x, y \in S : g[x] = g[y] => x = y
      /\ \A k \in 0..(Cardinality(S) - 1) : \E c \in S : g[c] = k
  BY RanksWithoutGap DEF Bijection, Injection, IsInjective, Surjection
<1> HIDE DEF g
<1>4. h \in [T -> 0..(n - 1)]
  BY <1>1, <1>2, <1>3
<1>5. h \in Injection(T, 0..(n - 1))
  BY <1>3, <1>4 DEF Injection, IsInjective
<1>6. h \in Surjection(T, 0..(n - 1))
  <2>1. ASSUME NEW k \in 0..(n - 1) PROVE \E c \in T : h[c] = k
    <3>1. k \in 0..(Cardinality(S) - 1) /\ k < n
      BY <1>1
    <3>2. PICK c \in S : g[c] = k
      BY <1>3, <3>1
    <3>3. c \in T
      BY <1>2, <3>1, <3>2
    <3>4. QED
      BY <3>2, <3>3
  <2>2. QED
    BY <1>4, <2>1 DEF Surjection
<1>7. ExistsBijection(T, 0..(n - 1)) /\ IsFiniteSet(T)
  <2>1. T \in SUBSET S
    OBVIOUS
  <2>2. IsFiniteSet(T)
    BY <2>1, FS_Subset
  <2>3. QED
    BY <1>5, <1>6, <2>2 DEF ExistsBijection, Bijection
<1>8. Cardinality(0..(n - 1)) = n
  <2>1. Cardinality(0..(n - 1)) = IF 0 > n - 1 THEN 0 ELSE n - 1 - 0 + 1
    BY FS_Interval
  <2>2. QED
    BY <2>1
<1>9. QED
  BY <1>7, <1>8, FS_Bijection

-----------------------------------------------------------------------------
(* Refusals. *)

\* There are no more normal pages than slots, and as many only if every slot is taken.
LEMMA PagesFit ==
  ASSUME NEW ps, Sound(ps)
  PROVE  /\ IsFiniteSet(Normal(ps)) /\ Cardinality(Normal(ps)) \in Nat
         /\ Cardinality(Normal(ps)) <= MaxTabs
         /\ Slots \subseteq Occupied(ps) => Cardinality(Normal(ps)) = MaxTabs
<1> DEFINE h == [t \in Normal(ps) |-> ps[t].pos]
<1>1. IsFiniteSet(Slots) /\ Cardinality(Slots) = MaxTabs
  <2>1. MaxTabs \in Nat /\ MaxTabs - 1 \in Int
    BY LayoutAssumption
  <2>2. IsFiniteSet(0..(MaxTabs - 1))
        /\ Cardinality(0..(MaxTabs - 1)) = IF 0 > MaxTabs - 1 THEN 0 ELSE MaxTabs - 1 - 0 + 1
    BY <2>1, FS_Interval
  <2>3. QED
    BY <2>1, <2>2 DEF Slots
<1>2. h \in Injection(Normal(ps), Slots)
  <2>1. h \in [Normal(ps) -> Slots]
    BY DEF Sound, InPlace, Normal
  <2>2. \A t, u \in Normal(ps) : h[t] = h[u] => t = u
    BY DEF Sound, Apart, Normal
  <2>3. QED
    BY <2>1, <2>2 DEF Injection, IsInjective
<1>3. /\ IsFiniteSet(Normal(ps)) /\ Cardinality(Normal(ps)) <= Cardinality(Slots)
      /\ Cardinality(Normal(ps)) = Cardinality(Slots) <=> h \in Surjection(Normal(ps), Slots)
  BY <1>1, <1>2, FS_Injection
<1>4. Slots \subseteq Occupied(ps) => h \in Surjection(Normal(ps), Slots)
  <2> SUFFICES ASSUME Slots \subseteq Occupied(ps), NEW s \in Slots
               PROVE  \E t \in Normal(ps) : h[t] = s
    BY <1>2 DEF Surjection, Injection
  <2>1. PICK t \in DOMAIN ps : ps[t].pos = s
    BY DEF Occupied
  <2>2. t \in Normal(ps)
    BY <2>1 DEF Sound, InPlace, Normal, Slots, POS_EXTRA
  <2>3. QED
    BY <2>1, <2>2
<1>5. Cardinality(Normal(ps)) \in Nat
  BY <1>3, FS_CardinalityType
<1>6. QED
  BY <1>1, <1>3, <1>4, <1>5

\* A sorted vector that is not empty has a front.
LEMMA FrontExists ==
  ASSUME NEW S \in SUBSET Slots, S # {}
  PROVE  First(S) # {}
<1>1. IsFiniteSet(S)
  <2>1. MaxTabs - 1 \in Int
    BY LayoutAssumption
  <2>2. IsFiniteSet(Slots)
    BY <2>1, FS_Interval DEF Slots
  <2>3. QED
    BY <2>2, FS_Subset
<1>2. S \in SUBSET Int /\ TotalOrder(S, Ascending)
  BY SlotOrders DEF Slots
<1>3. Cardinality(S) \in Nat /\ Cardinality(S) # 0
  BY <1>1, FS_CardinalityType, FS_EmptySet
<1>4. PICK c \in S : Rank(S, Ascending)[c] = 0
  <2>1. Rank(S, Ascending) \in Surjection(S, 0..(Cardinality(S) - 1))
    BY <1>1, <1>2, RanksWithoutGap DEF Bijection
  <2>2. 0 \in 0..(Cardinality(S) - 1)
    BY <1>3
  <2>3. QED
    BY <2>1, <2>2 DEF Surjection
<1>5. Before(S, Ascending, c) = {}
  <2>1. Cardinality(Before(S, Ascending, c)) = 0
    BY <1>4 DEF Rank
  <2>2. IsFiniteSet(Before(S, Ascending, c))
    <3>1. Before(S, Ascending, c) \in SUBSET S
      BY DEF Before
    <3>2. QED
      BY <1>1, <3>1, FS_Subset
  <2>3. QED
    BY <2>1, <2>2, FS_EmptySet
<1>6. ASSUME NEW y \in S
      PROVE  c <= y
  <2>1. c \in Int /\ y \in Int /\ <<y, c>> \notin Ascending
    BY <1>2, <1>5 DEF Before
  <2>2. QED
    BY <2>1 DEF Ascending
<1>7. QED
  BY <1>6 DEF First

\* allocateZonePosition never fails with enough candidates: as many pages as
\* slots can be put in order, at either end of the third.
LEMMA ZoneCanBeOrdered ==
  ASSUME NEW ps, NEW t \in DOMAIN ps, IsPages(ps), IsFiniteSet(Mates(ps, t)),
         ps[t].pref \in ZonePrefs, ~Outside(ps, t)
  PROVE  InOrder(ps, Mates(ps, t), Chosen(ps, t)) # {}
<1> DEFINE mates == Mates(ps, t)
           cands == Candidates(ps, t)
           n     == Cardinality(mates)
           R     == {p \in mates \X mates : UrlLess(ps, p[1], p[2])}
           dir   == IF ps[t].pref = POS_END THEN Descending ELSE Ascending
<1>1. mates \in SUBSET DOMAIN ps /\ IsFiniteSet(mates) /\ n \in Nat
  <2>1. mates \in SUBSET DOMAIN ps
    BY DEF Mates
  <2>2. QED
    BY <2>1, FS_CardinalityType
<1>2. cands \in SUBSET Int /\ IsFiniteSet(cands) /\ Cardinality(cands) \in Nat
  <2>1. cands \in SUBSET Slots
    BY ZonesAreSlots DEF Candidates, Free
  <2>2. IsFiniteSet(Slots) /\ Slots \subseteq Int
    <3>1. MaxTabs - 1 \in Int
      BY LayoutAssumption
    <3>2. QED
      BY <3>1, FS_Interval DEF Slots
  <2>3. IsFiniteSet(cands)
    BY <2>1, <2>2, FS_Subset
  <2>4. QED
    BY <2>1, <2>2, <2>3, FS_CardinalityType
<1>3. n <= Cardinality(cands)
  BY <1>1, <1>2 DEF Outside
<1>4. \A u, v \in mates : <<u, v>> \in R <=> UrlLess(ps, u, v)
  OBVIOUS
<1>5. TotalOrder(mates, R)
  <2>1. \A u \in mates : u \in Int /\ ps[u].url \in Int
    BY <1>1, LayoutAssumption DEF IsPages
  <2>2. \A u \in mates : ~UrlLess(ps, u, u)
    BY <2>1 DEF UrlLess
  <2>3. \A u, v, w \in mates : UrlLess(ps, u, v) /\ UrlLess(ps, v, w) => UrlLess(ps, u, w)
    BY <2>1 DEF UrlLess
  <2>4. \A u, v \in mates : u # v => UrlLess(ps, u, v) \/ UrlLess(ps, v, u)
    BY <2>1 DEF UrlLess
  <2> HIDE DEF R, mates
  <2>5. QED
    BY <1>4, <2>2, <2>3, <2>4 DEF TotalOrder
<1>6. Chosen(ps, t) = {c \in cands : Cardinality(Before(cands, dir, c)) < n}
  <2>1. ASSUME NEW c \in cands
        PROVE  {d \in cands : IF ps[t].pref = POS_END THEN d > c ELSE d < c} = Before(cands, dir, c)
    <3>1. \A d \in cands : <<d, c>> \in dir <=> IF ps[t].pref = POS_END THEN d > c ELSE d < c
      BY <1>2 DEF Ascending, Descending
    <3> HIDE DEF dir
    <3>2. QED
      BY <3>1 DEF Before
  <2> HIDE DEF dir
  <2>2. QED
    BY <2>1 DEF Chosen
<1>7. TotalOrder(cands, dir)
  BY <1>2, SlotOrders
<1> HIDE DEF R, dir, n
<1>8. Cardinality(Chosen(ps, t)) = n
  BY <1>1, <1>2, <1>3, <1>6, <1>7, FirstOnes DEF n
<1>9. Chosen(ps, t) \in SUBSET Int /\ IsFiniteSet(Chosen(ps, t))
  <2>1. Chosen(ps, t) \in SUBSET cands
    BY DEF Chosen
  <2>2. QED
    BY <1>2, <2>1, FS_Subset
<1>10. PICK f \in [mates -> Chosen(ps, t)] : \A u, v \in mates : <<u, v>> \in R => f[u] < f[v]
  <2>1. Cardinality(Chosen(ps, t)) = Cardinality(mates)
    BY <1>8 DEF n
  <2> HIDE DEF mates
  <2>2. QED
    BY <1>1, <1>5, <1>9, <2>1, Sortable
<1>11. f \in InOrder(ps, mates, Chosen(ps, t))
  BY <1>4, <1>10 DEF InOrder
<1>12. QED
  BY <1>11

\* Why a new page is refused a place.
LEMMA NoPlaceFor ==
  ASSUME Sound(pages), NEW t \in Uuids, t \notin DOMAIN pages, NEW url \in Urls, NEW pref \in Prefs,
         Allocate(Entered(t, url, pref), t) = {}
  PROVE  \/ pref # POS_EXTRA /\ Cardinality(Normal(pages)) = MaxTabs
         \/ /\ pref \in ZonePrefs
            /\ Zone(pref) \subseteq {pages[u].pos : u \in {v \in Normal(pages) : pages[v].pref # pref}}
         \/ pref \in Slots /\ pref \in Occupied(pages)
         \/ pref \notin Slots \cup ZonePrefs \cup {POS_ANY, POS_EXTRA}
<1> DEFINE ps == Entered(t, url, pref)
<1>1. /\ DOMAIN ps = DOMAIN pages \cup {t}
      /\ ps[t].url = url /\ ps[t].pref = pref /\ ps[t].pos = -1
      /\ \A u \in DOMAIN pages : ps[u] = pages[u]
  BY DEF Entered
<1>2. Allocate(ps, t) = {}
  OBVIOUS
<1> HIDE DEF ps
<1>3. \A s \in Slots : s \in Occupied(ps) => s \in Occupied(pages)
  <2> SUFFICES ASSUME NEW s \in Slots, NEW u \in DOMAIN ps, ps[u].pos = s
               PROVE  s \in Occupied(pages)
    BY DEF Occupied
  <2>1. u # t
    BY <1>1 DEF Slots
  <2>2. u \in DOMAIN pages /\ pages[u].pos = s
    BY <1>1, <2>1
  <2>3. QED
    BY <2>2 DEF Occupied
<1>4. CASE pref = POS_ANY
  <2>1. Allocate(ps, t) = {[u \in {t} |-> pos] : pos \in First(Free(ps, Slots))}
    BY <1>1, <1>4 DEF Allocate
  <2>2. First(Free(ps, Slots)) = {}
    BY <1>2, <2>1
  <2>3. Free(ps, Slots) \in SUBSET Slots
    BY DEF Free
  <2>4. Free(ps, Slots) = {}
    BY <2>2, <2>3, FrontExists
  <2>5. Slots \subseteq Occupied(pages)
    BY <1>3, <2>4 DEF Free
  <2>6. QED
    BY <1>4, <2>5, PagesFit DEF POS_ANY, POS_EXTRA
<1>5. CASE pref \in ZonePrefs
  <2>1. AllocateZone(ps, t) = {}
    BY <1>2, <1>1, <1>5 DEF Allocate, ZonePrefs, POS_ANY, POS_BEGINNING, POS_MIDDLE, POS_END
  <2>2. IsPages(ps) /\ IsFiniteSet(Mates(ps, t))
    <3>1. IsPages(ps)
      BY <1>1 DEF IsPages, Sound
    <3>2. IsFiniteSet(Normal(pages) \cup {t})
      BY PagesFit, FS_AddElement
    <3>3. Mates(ps, t) \in SUBSET (Normal(pages) \cup {t})
      BY <1>1, <1>5
         DEF Mates, Normal, ZonePrefs, POS_EXTRA, POS_BEGINNING, POS_MIDDLE, POS_END
    <3>4. QED
      BY <3>1, <3>2, <3>3, FS_Subset
  <2>3. Candidates(ps, t) = {}
    <3>1. SUFFICES ASSUME Candidates(ps, t) # {} PROVE FALSE
      OBVIOUS
    <3>2. CASE Outside(ps, t)
      BY <2>1, <3>1, <3>2, LayoutAssumption DEF AllocateZone
    <3>3. CASE ~Outside(ps, t)
      <4>1. InOrder(ps, Mates(ps, t), Chosen(ps, t)) # {}
        BY <1>1, <1>5, <2>2, <3>3, ZoneCanBeOrdered
      <4>2. QED
        BY <2>1, <3>1, <3>3, <4>1 DEF AllocateZone
    <3>4. QED
      BY <3>2, <3>3
  <2>4. ASSUME NEW s \in Zone(pref)
        PROVE  \E u \in Normal(pages) : pages[u].pref # pref /\ pages[u].pos = s
    <3>1. s \in Slots
      BY <1>5, ZonesAreSlots
    <3>2. s \in Occupied(ps)
      BY <1>1, <2>3 DEF Candidates, Free
    <3>3. PICK u \in DOMAIN pages : pages[u].pos = s
      BY <1>3, <3>1, <3>2 DEF Occupied
    <3>4. u \in DOMAIN ps /\ ps[u] = pages[u]
      BY <1>1
    <3>5. pages[u].pref # pref
      BY <1>1, <2>3, <3>3, <3>4 DEF Candidates, Mates
    <3>6. u \in Normal(pages)
      BY <3>1, <3>3 DEF Sound, InPlace, Normal, Slots, POS_EXTRA
    <3>7. QED
      BY <3>3, <3>5, <3>6
  <2>5. Zone(pref) \subseteq {pages[u].pos : u \in {v \in Normal(pages) : pages[v].pref # pref}}
    BY <2>4
  <2>6. QED
    BY <1>5, <2>5
<1>6. CASE pref = POS_EXTRA
  <2>1. pref # POS_ANY /\ pref \notin ZonePrefs
    BY <1>6 DEF ZonePrefs, POS_EXTRA, POS_ANY, POS_BEGINNING, POS_MIDDLE, POS_END
  <2>2. Allocate(ps, t) = {[u \in {t} |-> POS_EXTRA]}
    BY <1>1, <1>6, <2>1 DEF Allocate
  <2>3. QED
    BY <1>2, <2>2
<1>7. CASE pref \in Slots /\ pref \notin ZonePrefs \cup {POS_ANY, POS_EXTRA}
  <2>1. AllocateAbsolute(ps, t) = {}
    BY <1>2, <1>1, <1>7 DEF Allocate
  <2>2. PICK u \in DOMAIN ps \ {t} : ps[u].pos = pref
    BY <1>1, <1>7, <2>1 DEF AllocateAbsolute
  <2>3. QED
    BY <1>1, <1>7, <2>2 DEF Occupied
<1>8. QED
  BY <1>4, <1>5, <1>6, <1>7

-----------------------------------------------------------------------------
(* Induction over the turns of a loop: the numbers up to which a statement     *)
(* holds are a set, and the loop's values a function on them.                  *)

\* A set with 0 and the successor of each of its numbers has all numbers.
LEMMA NatSet ==
  ASSUME NEW T, 0 \in T, \A n \in Nat : n \in T => n + 1 \in T
  PROVE  Nat \subseteq T
<1> SUFFICES ASSUME Nat \ T # {} PROVE FALSE
  OBVIOUS
<1>1. PICK n \in Nat \ T : \A m \in Nat \ T : ~(<<m, n>> \in OpToRel(<, Nat))
  BY NatLessThanWellFounded, WFMin
<1>2. \A m \in Nat \ T : ~(m < n)
  BY <1>1 DEF OpToRel
<1>3. n # 0 /\ n - 1 \in Nat
  OBVIOUS
<1>4. n - 1 \in T
  BY <1>2, <1>3
<1>5. (n - 1) + 1 \in T
  BY <1>3, <1>4
<1>6. QED
  BY <1>3, <1>5

\* The same for the numbers up to one.
LEMMA IntervalSet ==
  ASSUME NEW n \in Nat, NEW T, 0 \in T, \A i \in 1..n : i - 1 \in T => i \in T
  PROVE  0..n \subseteq T
<1> DEFINE U == {k \in Nat : k <= n => k \in T}
<1>1. 0 \in U
  OBVIOUS
<1>2. ASSUME NEW k \in Nat, k \in U
      PROVE  k + 1 \in U
  <2> SUFFICES ASSUME k + 1 <= n PROVE k + 1 \in T
    OBVIOUS
  <2>1. k + 1 \in 1..n /\ (k + 1) - 1 = k /\ k \in T
    BY <1>2
  <2>2. QED
    BY <2>1
<1>3. Nat \subseteq U
  BY <1>1, <1>2, NatSet
<1>4. QED
  BY <1>3

\* A value carried from step to step, each step a function.
IsRun(f, n, S, a, step) ==
  f \in [0..n -> S] /\ f[0] = a /\ \A i \in 1..n : f[i] = step[i][f[i - 1]]

\* Such a run exists.
LEMMA Iterates ==
  ASSUME NEW n \in Nat, NEW S, NEW a \in S, NEW step, step \in [1..n -> [S -> S]]
  PROVE  \E f : IsRun(f, n, S, a, step)
<1> DEFINE Good(f, k) == f \in [0..k -> S] /\ f[0] = a /\ \A i \in 1..k : f[i] = step[i][f[i - 1]]
           T == {k \in 0..n : \E f : Good(f, k)}
<1>1. 0 \in T
  <2>1. Good([i \in 0..0 |-> a], 0)
    OBVIOUS
  <2> HIDE DEF Good
  <2>2. QED
    BY <2>1
<1>2. ASSUME NEW k \in 1..n, k - 1 \in T
      PROVE  k \in T
  <2>1. PICK f : Good(f, k - 1)
    BY <1>2
  <2> DEFINE g == [i \in 0..k |-> IF i = k THEN step[k][f[k - 1]] ELSE f[i]]
  <2>2. step[k] \in [S -> S] /\ f[k - 1] \in S
    BY <2>1
  <2>3. g \in [0..k -> S]
    BY <2>1, <2>2
  <2>4. g[0] = a
    BY <2>1
  <2>5. ASSUME NEW i \in 1..k
        PROVE  g[i] = step[i][g[i - 1]]
    <3>1. CASE i = k
      BY <3>1
    <3>2. CASE i # k
      BY <2>1, <3>2
    <3>3. QED
      BY <3>1, <3>2
  <2>6. Good(g, k)
    BY <2>3, <2>4, <2>5
  <2> HIDE DEF Good, g
  <2>7. QED
    BY <2>6
<1>3. n \in T
  <2> HIDE DEF T
  <2>1. 0..n \subseteq T
    BY <1>1, <1>2, IntervalSet
  <2>2. QED
    BY <2>1
<1>4. QED
  BY <1>3 DEF IsRun

-----------------------------------------------------------------------------
(* The bar.  It has every normal page once. *)

IsBar(b, N) ==
  /\ b \in [1..Cardinality(N) -> N]
  /\ \A i, j \in 1..Cardinality(N) : i # j => b[i] # b[j]
  /\ \A t \in N : \E i \in 1..Cardinality(N) : b[i] = t

\* A bar is a sequence of its pages.
LEMMA BarFields ==
  ASSUME NEW N, Cardinality(N) \in Nat, NEW b, IsBar(b, N)
  PROVE  /\ b \in Seq(N) /\ Len(b) = Cardinality(N) /\ DOMAIN b = 1..Cardinality(N)
         /\ ToSet(b) = N
<1>1. b \in Seq(N) /\ Len(b) = Cardinality(N) /\ DOMAIN b = 1..Cardinality(N)
  BY DEF IsBar
<1>2. ToSet(b) = N
  BY <1>1 DEF ToSet, IsBar
<1>3. QED
  BY <1>1, <1>2

\* indexOf finds a tab where it is.
LEMMA IndexIs ==
  ASSUME NEW N, Cardinality(N) \in Nat, NEW b, IsBar(b, N), NEW t \in N
  PROVE  TabIndex(b, t) \in 1..Cardinality(N) /\ b[TabIndex(b, t)] = t
<1>1. DOMAIN b = 1..Cardinality(N) /\ t \in ToSet(b)
  BY BarFields
<1>2. \E i \in DOMAIN b : b[i] = t
  BY <1>1 DEF IsBar
<1>3. QED
  BY <1>1, <1>2 DEF TabIndex

\* As many different pages as there are, are all of them.
LEMMA SequencesAreBars ==
  ASSUME NEW N, IsFiniteSet(N), NEW b \in SetToSeqs(N)
  PROVE  IsBar(b, N)
<1> DEFINE n == Cardinality(N)
<1>1. n \in Nat /\ IsFiniteSet(1..n) /\ Cardinality(1..n) = n
  <2>1. n \in Nat
    BY FS_CardinalityType
  <2>2. IsFiniteSet(1..n) /\ Cardinality(1..n) = IF 1 > n THEN 0 ELSE n - 1 + 1
    BY <2>1, FS_Interval
  <2>3. QED
    BY <2>1, <2>2
<1>2. b \in [1..n -> N] /\ \A i, j \in 1..n : i # j => b[i] # b[j]
  BY DEF SetToSeqs
<1>3. b \in Injection(1..n, N)
  BY <1>2 DEF Injection, IsInjective
<1>4. b \in Surjection(1..n, N)
  BY <1>1, <1>3, FS_Injection
<1>5. QED
  BY <1>2, <1>4 DEF IsBar, Surjection

\* What comes first in the bar.
ByPos(ps) == {p \in Normal(ps) \X Normal(ps) : ps[p[1]].pos < ps[p[2]].pos}

\* The pages of a sound map can be put in order, and pagesInDisplayOrder does.
LEMMA DisplayOrderIs ==
  ASSUME NEW ps, Sound(ps)
  PROVE  /\ IsBar(DisplayOrder(ps), Normal(ps))
         /\ \A i, j \in 1..Cardinality(Normal(ps)) :
              i < j => ps[DisplayOrder(ps)[i]].pos < ps[DisplayOrder(ps)[j]].pos
<1> DEFINE N == Normal(ps)
           n == Cardinality(N)
           R == ByPos(ps)
           Less(t, u) == \/ ps[t].pos < ps[u].pos
                         \/ ps[t].pos = ps[u].pos /\ t < u
           Ordered(order) == \A i, j \in DOMAIN order : i < j => Less(order[i], order[j])
           g == Rank(N, R)
           f == [i \in 1..n |-> CHOOSE t \in N : g[t] = i - 1]
<1>1. IsFiniteSet(N) /\ n \in Nat
  BY PagesFit
<1>2. /\ \A t \in N : t \in Int /\ ps[t].pos \in Int
      /\ \A t, u \in N : t # u => ps[t].pos # ps[u].pos
  BY LayoutAssumption DEF Sound, IsPages, Apart, Normal
<1>3. \A t, u \in N : <<t, u>> \in R <=> ps[t].pos < ps[u].pos
  BY DEF ByPos
<1> HIDE DEF N, R
<1>4. TotalOrder(N, R)
  <2>1. \A t \in N : ~(ps[t].pos < ps[t].pos)
    BY <1>2
  <2>2. \A t, u, v \in N : ps[t].pos < ps[u].pos /\ ps[u].pos < ps[v].pos => ps[t].pos < ps[v].pos
    BY <1>2
  <2>3. \A t, u \in N : t # u => ps[t].pos < ps[u].pos \/ ps[u].pos < ps[t].pos
    BY <1>2
  <2>4. QED
    BY <1>3, <2>1, <2>2, <2>3 DEF TotalOrder
<1>5. /\ g \in [N -> 0..(n - 1)]
      /\ \A t, u \in N : <<t, u>> \in R => g[t] < g[u]
  BY <1>1, <1>4, RankGrows
<1>6. \A k \in 0..(n - 1) : \E t \in N : g[t] = k
  BY <1>1, <1>4, RanksWithoutGap DEF Bijection, Surjection
<1> HIDE DEF g, n
<1>7. f \in [1..n -> N] /\ \A i \in 1..n : f[i] \in N /\ g[f[i]] = i - 1
  <2>1. \A i \in 1..n : i - 1 \in 0..(n - 1)
    BY <1>1
  <2>2. QED
    BY <1>6, <2>1
<1> HIDE DEF f
<1>8. f \in SetToSeqs(N) /\ Ordered(f)
  <2>1. \A i, j \in 1..n : i # j => f[i] # f[j]
    <3> SUFFICES ASSUME NEW i \in 1..n, NEW j \in 1..n, f[i] = f[j] PROVE i = j
      OBVIOUS
    <3>1. i - 1 = j - 1
      BY <1>7
    <3>2. QED
      BY <1>1, <3>1
  <2>2. ASSUME NEW i \in 1..n, NEW j \in 1..n, i < j
        PROVE  ps[f[i]].pos < ps[f[j]].pos
    <3>1. f[i] \in N /\ f[j] \in N /\ g[f[i]] < g[f[j]] /\ f[i] # f[j]
      BY <1>1, <1>7, <2>1, <2>2
    <3>2. g[f[i]] \in Int /\ g[f[j]] \in Int
      BY <1>1, <1>5, <3>1
    <3>3. ~(ps[f[j]].pos < ps[f[i]].pos)
      <4>1. <<f[j], f[i]>> \in R => g[f[j]] < g[f[i]]
        BY <1>5, <3>1
      <4>2. <<f[j], f[i]>> \notin R
        BY <3>1, <3>2, <4>1
      <4>3. QED
        BY <1>3, <3>1, <4>2
    <3>4. QED
      BY <1>2, <3>1, <3>3
  <2>3. f \in SetToSeqs(N)
    BY <1>7, <2>1 DEF SetToSeqs, n
  <2>4. QED
    BY <1>7, <2>2, <2>3
<1>9. DisplayOrder(ps) = CHOOSE order \in SetToSeqs(N) : Ordered(order)
  BY DEF DisplayOrder, N
<1> DEFINE d == DisplayOrder(ps)
<1>10. d \in SetToSeqs(N) /\ Ordered(d)
  <2> HIDE DEF Ordered
  <2>1. QED
    BY <1>8, <1>9
<1>11. IsBar(d, N)
  BY <1>1, <1>10, SequencesAreBars
<1>12. ASSUME NEW i \in 1..n, NEW j \in 1..n, i < j
       PROVE  ps[d[i]].pos < ps[d[j]].pos
  <2>1. DOMAIN d = 1..n /\ d[i] \in N /\ d[j] \in N /\ d[i] # d[j]
    BY <1>1, <1>11, <1>12 DEF IsBar, n
  <2> HIDE DEF d
  <2>2. Less(d[i], d[j])
    BY <1>10, <1>12, <2>1
  <2>3. QED
    BY <1>2, <2>1, <2>2
<1>13. QED
  BY <1>11, <1>12 DEF N, n

\* A part of a sequence.
LEMMA PartOf ==
  ASSUME NEW S, NEW t \in Seq(S), NEW i \in 1..(Len(t) + 1), NEW n \in (i - 1)..Len(t)
  PROVE  /\ SubSeq(t, i, n) \in Seq(S) /\ Len(SubSeq(t, i, n)) = n - i + 1
         /\ Len(SubSeq(t, i, n)) \in Nat
         /\ \A j \in 1..(n - i + 1) : i + j - 1 \in 1..Len(t) /\ SubSeq(t, i, n)[j] = t[i + j - 1]
<1>1. Len(t) \in Nat /\ i \in Int /\ n \in Int /\ \A j \in 1..Len(t) : t[j] \in S
  OBVIOUS
<1>2. \A j \in i..n : t[j] \in S
  BY <1>1
<1>3. /\ SubSeq(t, i, n) \in Seq(S)
      /\ Len(SubSeq(t, i, n)) = IF i <= n THEN n - i + 1 ELSE 0
      /\ \A j \in 1..(n - i + 1) : SubSeq(t, i, n)[j] = t[i + j - 1]
  BY <1>1, <1>2, SubSeqProperties
<1>4. \A j \in 1..(n - i + 1) : i + j - 1 \in 1..Len(t)
  BY <1>1
<1>5. Len(SubSeq(t, i, n)) = n - i + 1 /\ n - i + 1 \in Nat
  BY <1>1, <1>3
<1>6. QED
  BY <1>3, <1>4, <1>5

\* Where the tabs are once one has been moved to the left.
LEMMA MoveTabIs ==
  ASSUME NEW N, Cardinality(N) \in Nat, NEW b, IsBar(b, N),
         NEW to \in 1..Cardinality(N), NEW from \in 1..Cardinality(N), to < from
  PROVE  MoveTab(b, from, to) = [k \in 1..Cardinality(N) |->
           IF k < to \/ k > from THEN b[k] ELSE IF k = to THEN b[from] ELSE b[k - 1]]
<1> DEFINE n == Cardinality(N)
           left  == SubSeq(b, 1, from - 1)
           right == SubSeq(b, from + 1, n)
           rest  == left \o right
<1>1. b \in Seq(N) /\ Len(b) = n /\ n \in Nat /\ from \in 1..n /\ to \in 1..n
  BY BarFields
<1> HIDE DEF n
<1>2. /\ left \in Seq(N) /\ Len(left) = from - 1 /\ \A k \in 1..(from - 1) : left[k] = b[k]
      /\ right \in Seq(N) /\ Len(right) = n - from
      /\ \A k \in 1..(n - from) : right[k] = b[from + k]
  <2>1. left \in Seq(N) /\ Len(left) = from - 1 /\ \A k \in 1..(from - 1) : left[k] = b[k]
    <3>1. 1 \in 1..(Len(b) + 1) /\ from - 1 \in (1 - 1)..Len(b)
      BY <1>1
    <3>2. /\ left \in Seq(N) /\ Len(left) = (from - 1) - 1 + 1
          /\ \A k \in 1..((from - 1) - 1 + 1) : left[k] = b[1 + k - 1]
      BY <1>1, <3>1, PartOf
    <3>3. QED
      BY <1>1, <3>2
  <2>2. /\ right \in Seq(N) /\ Len(right) = n - from
        /\ \A k \in 1..(n - from) : right[k] = b[from + k]
    <3>1. from + 1 \in 1..(Len(b) + 1) /\ n \in ((from + 1) - 1)..Len(b)
      BY <1>1
    <3>2. /\ right \in Seq(N) /\ Len(right) = n - (from + 1) + 1
          /\ \A k \in 1..(n - (from + 1) + 1) : right[k] = b[(from + 1) + k - 1]
      BY <1>1, <3>1, PartOf
    <3>3. QED
      BY <1>1, <3>2
  <2>3. QED
    BY <2>1, <2>2
<1> HIDE DEF left, right
<1>3. /\ rest \in Seq(N) /\ Len(rest) = n - 1
      /\ \A k \in 1..(n - 1) : rest[k] = IF k < from THEN b[k] ELSE b[k + 1]
  <2>1. /\ rest \in Seq(N) /\ Len(rest) = Len(left) + Len(right)
        /\ \A k \in 1..(Len(left) + Len(right)) :
             rest[k] = IF k <= Len(left) THEN left[k] ELSE right[k - Len(left)]
    BY <1>2, ConcatProperties
  <2> HIDE DEF rest
  <2>2. rest \in Seq(N) /\ Len(rest) = n - 1
    BY <1>1, <1>2, <2>1
  <2>3. ASSUME NEW k \in 1..(n - 1)
        PROVE  rest[k] = IF k < from THEN b[k] ELSE b[k + 1]
    <3>1. CASE k < from
      BY <1>1, <1>2, <2>1, <3>1
    <3>2. CASE ~(k < from)
      <4>1. k - (from - 1) \in 1..(n - from) /\ k > Len(left)
        BY <1>1, <1>2, <3>2
      <4>2. rest[k] = right[k - (from - 1)]
        BY <1>1, <1>2, <2>1, <4>1
      <4>3. from + (k - (from - 1)) = k + 1
        BY <1>1
      <4>4. QED
        BY <1>2, <3>2, <4>1, <4>2, <4>3
    <3>3. QED
      BY <3>1, <3>2
  <2>4. QED
    BY <2>2, <2>3
<1>4. RemoveAt(b, from) = rest
  BY <1>1 DEF RemoveAt, rest, left, right
<1> HIDE DEF rest
<1> DEFINE before == SubSeq(rest, 1, to - 1)
           after  == SubSeq(rest, to, n - 1)
           mid    == before \o <<b[from]>>
<1>5. MoveTab(b, from, to) = mid \o after
  BY <1>3, <1>4 DEF MoveTab, InsertAt
<1>6. /\ before \in Seq(N) /\ Len(before) = to - 1 /\ \A k \in 1..(to - 1) : before[k] = rest[k]
      /\ after \in Seq(N) /\ Len(after) = n - to
      /\ \A k \in 1..(n - to) : after[k] = rest[to + k - 1]
  <2>1. 1 \in 1..(Len(rest) + 1) /\ to - 1 \in (1 - 1)..Len(rest)
    BY <1>1, <1>3
  <2>2. /\ before \in Seq(N) /\ Len(before) = (to - 1) - 1 + 1
        /\ \A k \in 1..((to - 1) - 1 + 1) : before[k] = rest[1 + k - 1]
    BY <1>3, <2>1, PartOf
  <2>3. to \in 1..(Len(rest) + 1) /\ n - 1 \in (to - 1)..Len(rest)
    BY <1>1, <1>3
  <2>4. /\ after \in Seq(N) /\ Len(after) = (n - 1) - to + 1
        /\ \A k \in 1..((n - 1) - to + 1) : after[k] = rest[to + k - 1]
    BY <1>3, <2>3, PartOf
  <2>5. QED
    BY <1>1, <2>2, <2>4
<1>7. b[from] \in N
  BY <1>1
<1> HIDE DEF before, after
<1>8. /\ mid \in Seq(N) /\ Len(mid) = to /\ mid[to] = b[from]
      /\ \A k \in 1..(to - 1) : mid[k] = rest[k]
  <2>1. <<b[from]>> \in Seq(N) /\ Len(<<b[from]>>) = 1 /\ <<b[from]>>[1] = b[from]
    BY <1>7
  <2>2. /\ mid \in Seq(N) /\ Len(mid) = Len(before) + Len(<<b[from]>>)
        /\ \A k \in 1..(Len(before) + Len(<<b[from]>>)) :
             mid[k] = IF k <= Len(before) THEN before[k] ELSE <<b[from]>>[k - Len(before)]
    BY <1>6, <2>1, ConcatProperties
  <2> HIDE DEF mid
  <2>3. mid \in Seq(N) /\ Len(mid) = to /\ mid[to] = b[from]
    <3>1. Len(mid) = to /\ to \in 1..(Len(before) + Len(<<b[from]>>)) /\ ~(to <= Len(before))
      BY <1>1, <1>6, <2>1, <2>2
    <3>2. to - Len(before) = 1
      BY <1>1, <1>6
    <3>3. mid[to] = <<b[from]>>[1]
      BY <2>2, <3>1, <3>2
    <3>4. QED
      BY <2>1, <2>2, <3>1, <3>3
  <2>4. \A k \in 1..(to - 1) : mid[k] = rest[k]
    BY <1>1, <1>6, <2>1, <2>2
  <2>5. QED
    BY <2>3, <2>4
<1> HIDE DEF mid
<1> DEFINE m == mid \o after
<1>9. /\ m \in Seq(N) /\ Len(m) = Len(mid) + Len(after)
      /\ \A k \in 1..(Len(mid) + Len(after)) :
           m[k] = IF k <= Len(mid) THEN mid[k] ELSE after[k - Len(mid)]
  BY <1>6, <1>8, ConcatProperties
<1> HIDE DEF m
<1>10. m \in Seq(N) /\ Len(m) = n
  BY <1>9, <1>1, <1>6, <1>8
<1>11. ASSUME NEW k \in 1..n
       PROVE  m[k] = IF k < to \/ k > from THEN b[k] ELSE IF k = to THEN b[from] ELSE b[k - 1]
  <2>1. CASE k <= to
    <3>1. m[k] = mid[k]
      BY <1>9, <1>1, <1>6, <1>8, <2>1
    <3>2. QED
      BY <1>1, <1>3, <1>8, <2>1, <3>1
  <2>2. CASE k > to
    <3>1. k - to \in 1..(n - to) /\ to + (k - to) - 1 = k - 1 /\ k - 1 \in 1..(n - 1)
      BY <1>1, <2>2
    <3>2. m[k] = after[k - to]
      BY <1>9, <1>1, <1>6, <1>8, <2>2, <3>1
    <3>3. m[k] = rest[k - 1]
      BY <1>6, <3>1, <3>2
    <3>4. (k - 1) + 1 = k
      BY <1>1
    <3>5. QED
      BY <1>1, <1>3, <2>2, <3>1, <3>3, <3>4
  <2>3. QED
    BY <1>1, <2>1, <2>2
<1>12. DOMAIN m = 1..n
  BY <1>1, <1>10
<1>13. m = [k \in 1..n |->
           IF k < to \/ k > from THEN b[k] ELSE IF k = to THEN b[from] ELSE b[k - 1]]
  <2> HIDE DEF m
  <2>1. QED
    BY <1>10, <1>11, <1>12
<1>14. QED
  BY <1>5, <1>13 DEF m, n

\* The first i tabs of the bar are the pages that belong there.
Settled(b, order, i) == \A k \in 1..i : b[k] = order[k]

\* A turn of the loop puts the next page in its place and leaves those before it.
LEMMA PutSettles ==
  ASSUME NEW N, Cardinality(N) \in Nat, NEW b, IsBar(b, N), NEW order, IsBar(order, N),
         NEW i \in 1..Cardinality(N), Settled(b, order, i - 1)
  PROVE  IsBar(Put(b, order, i), N) /\ Settled(Put(b, order, i), order, i)
<1> DEFINE n == Cardinality(N)
           c == TabIndex(b, order[i])
           m == MoveTab(b, c, i)
<1>1. n \in Nat /\ i \in 1..n /\ order[i] \in N
  BY DEF IsBar
<1>2. c \in 1..n /\ b[c] = order[i]
  BY <1>1, IndexIs
<1>3. Put(b, order, i) = IF c > 0 /\ c # i THEN m ELSE b
  BY DEF Put
<1> HIDE DEF c
<1>4. ~(c < i)
  <2> SUFFICES ASSUME c < i PROVE FALSE
    OBVIOUS
  <2>1. c \in 1..(i - 1)
    BY <1>1, <1>2
  <2>2. order[c] = order[i] /\ c # i
    BY <1>2, <2>1 DEF Settled
  <2>3. QED
    BY <1>1, <1>2, <2>2 DEF IsBar
<1>5. CASE c = i
  <2>1. Put(b, order, i) = b
    BY <1>3, <1>5
  <2>2. \A k \in 1..i : k = i \/ k \in 1..(i - 1)
    BY <1>1
  <2>3. Settled(b, order, i)
    BY <1>2, <1>5, <2>2 DEF Settled
  <2>4. QED
    BY <2>1, <2>3
<1>6. CASE c # i
  <2>1. i < c
    BY <1>1, <1>2, <1>4, <1>6
  <2>2. m = [k \in 1..n |-> IF k < i \/ k > c THEN b[k] ELSE IF k = i THEN b[c] ELSE b[k - 1]]
    BY <1>1, <1>2, <2>1, MoveTabIs
  <2>3. Put(b, order, i) = m
    BY <1>1, <1>2, <1>3, <1>6
  <2> HIDE DEF m
  \* Where each tab was.
  <2> DEFINE from(k) == IF k < i \/ k > c THEN k ELSE IF k = i THEN c ELSE k - 1
  <2>4. ASSUME NEW k \in 1..n
        PROVE  from(k) \in 1..n /\ m[k] = b[from(k)]
    BY <1>1, <1>2, <2>1, <2>2
  <2>5. ASSUME NEW k \in 1..n, NEW l \in 1..n, k # l
        PROVE  from(k) # from(l)
    BY <1>1, <1>2, <2>1, <2>5
  <2>6. ASSUME NEW p \in 1..n
        PROVE  \E k \in 1..n : from(k) = p
    <3> DEFINE q == IF p < i \/ p > c THEN p ELSE IF p = c THEN i ELSE p + 1
    <3>1. q \in 1..n /\ from(q) = p
      BY <1>1, <1>2, <2>1
    <3>2. QED
      BY <3>1
  <2> HIDE DEF from
  <2>7. m \in [1..n -> N]
    <3>1. DOMAIN m = 1..n /\ m = [k \in 1..n |-> m[k]]
      BY <2>2
    <3>2. \A k \in 1..n : m[k] \in N
      BY <2>4 DEF IsBar
    <3>3. QED
      BY <3>1, <3>2
  <2>8. ASSUME NEW k \in 1..n, NEW l \in 1..n, k # l
        PROVE  m[k] # m[l]
    BY <2>4, <2>5, <2>8 DEF IsBar
  <2>9. ASSUME NEW t \in N
        PROVE  \E k \in 1..n : m[k] = t
    <3>1. PICK p \in 1..n : b[p] = t
      BY DEF IsBar
    <3>2. PICK k \in 1..n : from(k) = p
      BY <2>6
    <3>3. QED
      BY <2>4, <3>1, <3>2
  <2>10. IsBar(m, N)
    BY <2>7, <2>8, <2>9 DEF IsBar
  <2>11. ASSUME NEW k \in 1..i
         PROVE  m[k] = order[k]
    <3>1. CASE k = i
      BY <1>1, <1>2, <2>1, <2>2, <3>1
    <3>2. CASE k # i
      <4>1. k \in 1..(i - 1) /\ k \in 1..n /\ k < i
        BY <1>1, <3>2
      <4>2. m[k] = b[k]
        BY <2>2, <4>1
      <4>3. QED
        BY <4>1, <4>2 DEF Settled
    <3>3. QED
      BY <3>1, <3>2
  <2>12. QED
    BY <2>3, <2>10, <2>11 DEF Settled
<1>7. QED
  BY <1>5, <1>6

\* However the tabs stood, one by one they are brought in order.
LEMMA SyncedIs ==
  ASSUME NEW ps, Sound(ps), NEW b, IsBar(b, Normal(ps))
  PROVE  Synced(b, ps) = DisplayOrder(ps)
<1> DEFINE N == Normal(ps)
           n == Cardinality(N)
           order == DisplayOrder(ps)
           S == [1..n -> N]
           Turn(i, v) == IF Put(v, order, i) \in S THEN Put(v, order, i) ELSE v
           step == [i \in 1..n |-> [v \in S |-> Turn(i, v)]]
           Good(v, i) == IsBar(v, N) /\ Settled(v, order, i)
           Is(g) == g = [i \in 0..Len(order) |-> IF i = 0 THEN b ELSE Put(g[i - 1], order, i)]
<1>1. n \in Nat
  BY PagesFit
<1>2. IsBar(order, N)
  BY DisplayOrderIs
<1>3. Len(order) = n
  BY <1>1, <1>2, BarFields
<1>4. Synced(b, ps) = (CHOOSE g : Is(g))[Len(order)]
  BY DEF Synced
<1> HIDE DEF N, order, n
<1>5. Good(b, 0)
  BY DEF Settled, N
<1>6. ASSUME NEW i \in 1..n, NEW v, Good(v, i - 1)
      PROVE  Good(Put(v, order, i), i)
  BY <1>1, <1>2, <1>6, PutSettles DEF n
<1>7. \A v, i : Good(v, i) => v \in S
  BY DEF IsBar, n
<1> HIDE DEF Good
<1>8. \E g : Is(g)
  <2>1. b \in S
    BY <1>5, <1>7
  <2>2. step \in [1..n -> [S -> S]]
    OBVIOUS
  <2>3. \A i \in 1..n : \A v \in S : step[i][v] = Turn(i, v)
    OBVIOUS
  <2> HIDE DEF step, S
  <2>4. PICK f : IsRun(f, n, S, b, step)
    BY <1>1, <2>1, <2>2, Iterates
  <2>5. f \in [0..n -> S] /\ f[0] = b /\ \A i \in 1..n : f[i] = step[i][f[i - 1]]
    BY <2>4 DEF IsRun
  <2> DEFINE T == {i \in 0..n : Good(f[i], i)}
  <2>6. 0 \in T
    BY <1>1, <1>5, <2>5
  <2>7. ASSUME NEW i \in 1..n, Good(f[i - 1], i - 1)
        PROVE  f[i] = Put(f[i - 1], order, i) /\ Good(f[i], i)
    <3>1. Good(Put(f[i - 1], order, i), i) /\ f[i - 1] \in S
      BY <1>6, <1>7, <2>7
    <3>2. Put(f[i - 1], order, i) \in S
      BY <1>7, <3>1
    <3>3. f[i] = Put(f[i - 1], order, i)
      BY <2>3, <2>5, <3>1, <3>2
    <3>4. QED
      BY <3>1, <3>3
  <2>8. \A i \in 1..n : i - 1 \in T => i \in T
    BY <1>1, <2>7
  <2> HIDE DEF T
  <2>9. 0..n \subseteq T
    BY <1>1, <2>6, <2>8, IntervalSet
  <2>10. \A i \in 1..n : f[i] = Put(f[i - 1], order, i)
    <3> SUFFICES ASSUME NEW i \in 1..n PROVE f[i] = Put(f[i - 1], order, i)
      OBVIOUS
    <3>1. i - 1 \in 0..n
      BY <1>1
    <3>2. QED
      BY <2>7, <2>9, <3>1 DEF T
  <2>11. Is(f)
    <3>1. \A i \in 0..n : f[i] = IF i = 0 THEN b ELSE Put(f[i - 1], order, i)
      BY <1>1, <2>5, <2>10
    <3>2. f = [i \in 0..n |-> f[i]]
      BY <2>5
    <3>3. QED
      BY <1>3, <3>1, <3>2
  <2> HIDE DEF Is
  <2>12. QED
    BY <2>11
<1> DEFINE g == CHOOSE h : Is(h)
<1>9. Is(g)
  <2> HIDE DEF Is
  <2>1. QED
    BY <1>8
<1> HIDE DEF g
<1>10. g[0] = b /\ \A i \in 1..n : g[i] = Put(g[i - 1], order, i)
  <2>1. \A i \in 0..n : g[i] = IF i = 0 THEN b ELSE Put(g[i - 1], order, i)
    BY <1>3, <1>9
  <2>2. QED
    BY <1>1, <2>1
<1> HIDE DEF Is
<1> DEFINE U == {i \in 0..n : Good(g[i], i)}
<1>11. 0 \in U
  BY <1>1, <1>5, <1>10
<1>12. \A i \in 1..n : i - 1 \in U => i \in U
  BY <1>1, <1>6, <1>10
<1> HIDE DEF U
<1>13. 0..n \subseteq U
  BY <1>1, <1>11, <1>12, IntervalSet
<1>14. Good(g[n], n)
  BY <1>1, <1>13 DEF U
<1>15. g[n] = order
  <2>1. g[n] \in [1..n -> N] /\ order \in [1..n -> N] /\ \A k \in 1..n : g[n][k] = order[k]
    BY <1>2, <1>14 DEF Good, IsBar, Settled, n
  <2> DEFINE h == g[n]
  <2>2. h \in [1..n -> N] /\ order \in [1..n -> N] /\ \A k \in 1..n : h[k] = order[k]
    BY <2>1
  <2> HIDE DEF h
  <2>3. h = order
    <3>1. h = [k \in 1..n |-> h[k]] /\ order = [k \in 1..n |-> order[k]]
      BY <2>2
    <3>2. [k \in 1..n |-> h[k]] = [k \in 1..n |-> order[k]]
      BY <2>2
    <3>3. QED
      BY <3>1, <3>2
  <2>4. QED
    BY <2>3 DEF h
<1>16. QED
  BY <1>3, <1>4, <1>15 DEF g, order

\* addTab puts the new tab last.
LEMMA AppendIsBar ==
  ASSUME NEW N, IsFiniteSet(N), NEW b, IsBar(b, N), NEW t, t \notin N
  PROVE  IsBar(Append(b, t), N \cup {t})
<1> DEFINE n == Cardinality(N)
           M == N \cup {t}
           a == Append(b, t)
<1>1. n \in Nat /\ Cardinality(M) = n + 1
  BY FS_CardinalityType, FS_AddElement
<1>2. b \in Seq(N) /\ Len(b) = n /\ \A k \in 1..n : b[k] \in N
  BY <1>1, BarFields DEF IsBar
<1>3. /\ a \in Seq(M) /\ Len(a) = n + 1 /\ DOMAIN a = 1..(n + 1)
      /\ \A k \in 1..n : a[k] = b[k]
      /\ a[n + 1] = t
  BY <1>1, <1>2
<1> HIDE DEF n, M, a
<1>4. a \in [1..(n + 1) -> M]
  BY <1>3
<1>5. \A k \in 1..(n + 1) : k \in 1..n \/ k = n + 1
  BY <1>1
<1>6. ASSUME NEW k \in 1..(n + 1), NEW l \in 1..(n + 1), k # l
      PROVE  a[k] # a[l]
  BY <1>2, <1>3, <1>5, <1>6 DEF IsBar, n
<1>7. ASSUME NEW u \in M
      PROVE  \E k \in 1..(n + 1) : a[k] = u
  <2>1. CASE u = t
    <3>1. n + 1 \in 1..(n + 1)
      BY <1>1
    <3>2. QED
      BY <1>3, <2>1, <3>1
  <2>2. CASE u \in N
    <3>1. PICK k \in 1..n : b[k] = u
      BY <2>2 DEF IsBar, n
    <3>2. k \in 1..(n + 1)
      BY <1>1
    <3>3. QED
      BY <1>3, <3>1, <3>2
  <2>3. QED
    BY <2>1, <2>2 DEF M
<1>8. IsBar(a, M)
  BY <1>1, <1>4, <1>6, <1>7 DEF IsBar
<1>9. QED
  BY <1>8 DEF a, M

\* removeTab closes the gap.
LEMMA RemoveIsBar ==
  ASSUME NEW N, IsFiniteSet(N), NEW b, IsBar(b, N), NEW t \in N
  PROVE  IsBar(RemoveTab(b, t), N \ {t})
<1> DEFINE n == Cardinality(N)
           M == N \ {t}
           c == TabIndex(b, t)
           left  == SubSeq(b, 1, c - 1)
           right == SubSeq(b, c + 1, n)
           r == left \o right
           at(k) == IF k < c THEN k ELSE k + 1
<1>1. n \in Nat /\ Cardinality(M) = n - 1
  BY FS_CardinalityType, FS_RemoveElement
<1>2. b \in Seq(N) /\ Len(b) = n
  BY <1>1, BarFields
<1>3. c \in 1..n /\ b[c] = t
  BY <1>1, IndexIs
<1> HIDE DEF c
<1>4. RemoveTab(b, t) = r
  <2>1. RemoveTab(b, t) = RemoveAt(b, c)
    BY <1>1, <1>3 DEF RemoveTab, c
  <2>2. RemoveAt(b, c) = r
    BY <1>2 DEF RemoveAt
  <2>3. QED
    BY <2>1, <2>2
<1> HIDE DEF n
<1>5. /\ left \in Seq(N) /\ Len(left) = c - 1 /\ \A k \in 1..(c - 1) : left[k] = b[k]
  <2>1. 1 \in 1..(Len(b) + 1) /\ c - 1 \in (1 - 1)..Len(b)
    BY <1>1, <1>2, <1>3
  <2>2. /\ left \in Seq(N) /\ Len(left) = (c - 1) - 1 + 1
        /\ \A k \in 1..((c - 1) - 1 + 1) : left[k] = b[1 + k - 1]
    BY <1>2, <2>1, PartOf
  <2>3. QED
    BY <1>1, <1>3, <2>2
<1>6. /\ right \in Seq(N) /\ Len(right) = n - c /\ \A k \in 1..(n - c) : right[k] = b[c + k]
  <2>1. c + 1 \in 1..(Len(b) + 1) /\ n \in ((c + 1) - 1)..Len(b)
    BY <1>1, <1>2, <1>3
  <2>2. /\ right \in Seq(N) /\ Len(right) = n - (c + 1) + 1
        /\ \A k \in 1..(n - (c + 1) + 1) : right[k] = b[(c + 1) + k - 1]
    BY <1>2, <2>1, PartOf
  <2>3. QED
    BY <1>1, <1>3, <2>2
<1> HIDE DEF left, right
<1>7. /\ r \in Seq(N) /\ Len(r) = Len(left) + Len(right)
      /\ \A k \in 1..(Len(left) + Len(right)) :
           r[k] = IF k <= Len(left) THEN left[k] ELSE right[k - Len(left)]
  BY <1>5, <1>6, ConcatProperties
<1> HIDE DEF r
<1>8. Len(r) = n - 1 /\ DOMAIN r = 1..(n - 1)
  BY <1>1, <1>3, <1>5, <1>6, <1>7
<1>9. ASSUME NEW k \in 1..(n - 1)
      PROVE  at(k) \in 1..n /\ at(k) # c /\ r[k] = b[at(k)]
  <2>1. k \in 1..(Len(left) + Len(right))
    BY <1>1, <1>3, <1>5, <1>6
  <2>2. CASE k < c
    BY <1>1, <1>3, <1>5, <1>7, <2>1, <2>2
  <2>3. CASE ~(k < c)
    <3>1. k - (c - 1) \in 1..(n - c) /\ c + (k - (c - 1)) = k + 1 /\ ~(k <= Len(left))
      BY <1>1, <1>3, <1>5, <2>3
    <3>2. r[k] = right[k - (c - 1)]
      BY <1>5, <1>7, <2>1, <3>1
    <3>3. right[k - (c - 1)] = b[k + 1]
      BY <1>6, <3>1
    <3>4. at(k) = k + 1 /\ k + 1 \in 1..n /\ k + 1 # c
      BY <1>1, <1>3, <2>3
    <3>5. QED
      BY <3>2, <3>3, <3>4
  <2>4. QED
    BY <2>2, <2>3
<1>10. ASSUME NEW k \in 1..(n - 1), NEW l \in 1..(n - 1), k # l
       PROVE  at(k) # at(l)
  BY <1>1, <1>3, <1>10
<1>11. ASSUME NEW p \in 1..n, p # c
       PROVE  \E k \in 1..(n - 1) : at(k) = p
  <2> DEFINE q == IF p < c THEN p ELSE p - 1
  <2>1. q \in 1..(n - 1) /\ at(q) = p
    BY <1>1, <1>3, <1>11
  <2>2. QED
    BY <2>1
<1> HIDE DEF at
<1>12. /\ b \in [1..n -> N] /\ \A k, l \in 1..n : k # l => b[k] # b[l]
       /\ \A u \in N : \E k \in 1..n : b[k] = u
  BY DEF IsBar, n
<1>13. r \in [1..(n - 1) -> M]
  <2>1. \A k \in 1..(n - 1) : r[k] \in M
    BY <1>3, <1>9, <1>12
  <2>2. r = [k \in 1..(n - 1) |-> r[k]]
    BY <1>7, <1>8
  <2> HIDE DEF M
  <2>3. QED
    BY <2>1, <2>2
<1>14. \A k, l \in 1..(n - 1) : k # l => r[k] # r[l]
  BY <1>9, <1>10, <1>12
<1>15. ASSUME NEW u \in M
       PROVE  \E k \in 1..(n - 1) : r[k] = u
  <2>1. PICK p \in 1..n : b[p] = u
    BY <1>12
  <2>2. p # c
    BY <1>3, <2>1
  <2>3. PICK k \in 1..(n - 1) : at(k) = p
    BY <1>11, <2>2
  <2>4. QED
    BY <1>9, <2>1, <2>3
<1> HIDE DEF M
<1>16. IsBar(r, M)
  BY <1>1, <1>13, <1>14, <1>15 DEF IsBar
<1>17. QED
  BY <1>4, <1>16 DEF M

-----------------------------------------------------------------------------
\* A bar in the order of a map of pages, and the labels of a map that show it.
InBarOrder(ps, b) ==
  /\ IsBar(b, Normal(ps))
  /\ \A i, j \in 1..Cardinality(Normal(ps)) : i < j => ps[b[i]].pos < ps[b[j]].pos

LabelsShow(ps) == \A t \in Normal(ps) : ps[t].label = ps[t].pos + 1

\* What the bar shows, while no vector has been read outside its bounds.
BarInv == ~overrun => InBarOrder(pages, bar) /\ LabelsShow(pages)

\* Order and labels are a matter of the normal pages, their positions and labels.
LEMMA SameBar ==
  ASSUME NEW ps, NEW qs, NEW b, InBarOrder(ps, b), Normal(qs) = Normal(ps),
         \A t \in Normal(ps) : qs[t].pos = ps[t].pos
  PROVE  /\ InBarOrder(qs, b)
         /\ LabelsShow(ps) /\ (\A t \in Normal(ps) : qs[t].label = ps[t].label) => LabelsShow(qs)
<1>1. \A i \in 1..Cardinality(Normal(ps)) : b[i] \in Normal(ps)
  BY DEF InBarOrder, IsBar
<1>2. QED
  BY <1>1 DEF InBarOrder, LabelsShow

\* syncTabOrder leaves the bar in order and every label right.
LEMMA SyncSorts ==
  ASSUME NEW ps, Sound(ps), NEW b, IsBar(b, Normal(ps)), NEW t
  PROVE  InBarOrder(Labelled(ps, t), Synced(b, ps)) /\ LabelsShow(Labelled(ps, t))
<1> DEFINE qs == Labelled(ps, t)
<1>1. InBarOrder(ps, Synced(b, ps))
  BY SyncedIs, DisplayOrderIs DEF InBarOrder
<1>2. Normal(qs) = Normal(ps)
  BY LabelledPages DEF Normal
<1>3. \A u \in Normal(ps) : qs[u].pos = ps[u].pos
  BY LabelledPages DEF Normal
<1>4. LabelsShow(qs)
  BY <1>2, <1>3 DEF LabelsShow, Labelled, WithLabel, Normal
<1>5. InBarOrder(qs, Synced(b, ps))
  <2> HIDE DEF qs
  <2>1. QED
    BY <1>1, <1>2, <1>3, SameBar
<1>6. QED
  BY <1>4, <1>5

\* A sound map is sound before it is labelled.
LEMMA UnlabelledSound ==
  ASSUME NEW ps, NEW t, Sound(Labelled(ps, t))
  PROVE  Sound(ps)
BY LabelledPages, SameSound

\* A new tab is added last and brought to its place; the extra one is not in the bar.
LEMMA NewWebTabBar ==
  ASSUME LayoutInv, BarInv, NEW t \in Uuids, NEW url \in Urls, NEW pref \in Prefs,
         NewWebTab(t, url, pref)
  PROVE  BarInv'
<1> DEFINE entered == Entered(t, url, pref)
<1> SUFFICES ASSUME ~overrun' PROVE InBarOrder(pages', bar') /\ LabelsShow(pages')
  BY DEF BarInv
<1>1. /\ t \notin DOMAIN pages /\ Sound(pages) /\ Sound(pages')
      /\ InBarOrder(pages, bar) /\ LabelsShow(pages)
  BY NewWebTabSound DEF NewWebTab, LayoutInv, BarInv
<1>2. CASE UNCHANGED <<pages, bar>>
  BY <1>1, <1>2
<1>3. ASSUME NEW f \in Allocate(entered, t), pref = POS_EXTRA,
             pages' = Moved(entered, f), UNCHANGED bar
      PROVE  InBarOrder(pages', bar') /\ LabelsShow(pages')
  <2>1. f = [u \in {t} |-> POS_EXTRA]
    BY <1>3 DEF Allocate, Entered, ZonePrefs, POS_ANY, POS_BEGINNING, POS_MIDDLE, POS_END, POS_EXTRA
  <2>2. /\ DOMAIN pages' = DOMAIN pages \cup {t} /\ pages'[t].pref = POS_EXTRA
        /\ \A u \in DOMAIN pages : pages'[u] = pages[u]
    BY <1>1, <1>3, <2>1 DEF Moved, At, Entered
  <2>3. Normal(pages') = Normal(pages)
    BY <2>2 DEF Normal
  <2>4. \A u \in Normal(pages) : pages'[u] = pages[u]
    BY <2>2 DEF Normal
  <2>5. QED
    BY <1>1, <1>3, <2>3, <2>4, SameBar
<1>4. ASSUME NEW f \in Allocate(entered, t), pref # POS_EXTRA,
             pages' = Labelled(Moved(entered, f), t),
             bar' = Synced(Append(bar, t), Moved(entered, f))
      PROVE  InBarOrder(pages', bar') /\ LabelsShow(pages')
  <2> DEFINE placed == Moved(entered, f)
  <2>1. Sound(placed)
    BY <1>1, <1>4, UnlabelledSound
  <2>2. Normal(placed) = Normal(pages) \cup {t} /\ t \notin Normal(pages)
    <3>1. DOMAIN placed = DOMAIN pages \cup {t}
      BY MovedPages DEF Entered
    <3>2. \A u \in DOMAIN placed : placed[u].pref = entered[u].pref
      BY MovedPages
    <3>3. entered[t].pref = pref /\ \A u \in DOMAIN pages : entered[u] = pages[u]
      BY <1>1 DEF Entered
    <3> HIDE DEF placed, entered
    <3>4. QED
      BY <1>1, <1>4, <3>1, <3>2, <3>3 DEF Normal
  <2>3. IsBar(Append(bar, t), Normal(placed))
    <3>1. IsFiniteSet(Normal(pages)) /\ IsBar(bar, Normal(pages))
      BY <1>1, PagesFit DEF InBarOrder
    <3>2. QED
      BY <2>2, <3>1, AppendIsBar
  <2> HIDE DEF placed
  <2>4. QED
    BY <1>4, <2>1, <2>3, SyncSorts DEF placed
<1>5. QED
  BY <1>2, <1>3, <1>4 DEF NewWebTab

\* The gap a tab leaves is closed.
LEMMA KillTabBar ==
  ASSUME LayoutInv, BarInv, NEW t \in Uuids, KillTab(t)
  PROVE  BarInv'
<1> DEFINE left == [u \in DOMAIN pages \ {t} |-> pages[u]]
<1>1. /\ ~overrun' /\ Sound(pages) /\ InBarOrder(pages, bar) /\ LabelsShow(pages)
  BY DEF KillTab, LayoutInv, BarInv
<1>2. CASE t \notin DOMAIN pages
  BY <1>1, <1>2 DEF KillTab, BarInv
<1>3. DOMAIN left = DOMAIN pages \ {t} /\ \A u \in DOMAIN left : left[u] = pages[u]
  OBVIOUS
<1>4. CASE t \in DOMAIN pages /\ pages[t].pref = POS_EXTRA
  <2>1. pages' = left /\ bar' = bar
    BY <1>4 DEF KillTab
  <2> HIDE DEF left
  <2>2. Normal(left) = Normal(pages)
    BY <1>3, <1>4 DEF Normal
  <2>3. \A u \in Normal(pages) : left[u] = pages[u]
    BY <1>3, <1>4 DEF Normal
  <2>4. InBarOrder(left, bar) /\ LabelsShow(left)
    BY <1>1, <2>2, <2>3, SameBar
  <2>5. QED
    BY <2>1, <2>4 DEF BarInv
<1>5. CASE t \in DOMAIN pages /\ pages[t].pref # POS_EXTRA
  <2>1. pages' = Labelled(left, t) /\ bar' = Synced(RemoveTab(bar, t), left)
    BY <1>5 DEF KillTab
  <2> HIDE DEF left
  <2>2. Sound(left)
    BY <1>1, <1>3, SameSound
  <2>3. Normal(left) = Normal(pages) \ {t} /\ t \in Normal(pages)
    BY <1>3, <1>5 DEF Normal
  <2>4. IsFiniteSet(Normal(pages)) /\ IsBar(bar, Normal(pages))
    BY <1>1, PagesFit DEF InBarOrder
  <2>5. IsBar(RemoveTab(bar, t), Normal(left))
    BY <2>3, <2>4, RemoveIsBar
  <2>6. QED
    BY <2>1, <2>2, <2>5, SyncSorts DEF BarInv
<1>6. QED
  BY <1>2, <1>4, <1>5

\* A rearranged third is rearranged in the bar.
LEMMA NavigateToBar ==
  ASSUME LayoutInv, BarInv, NEW t \in Uuids, NEW url \in Urls, NavigateTo(t, url)
  PROVE  BarInv'
<1> DEFINE named == Navigated(t, url)
<1> SUFFICES ASSUME ~overrun' PROVE InBarOrder(pages', bar') /\ LabelsShow(pages')
  BY DEF BarInv
<1>1. /\ Sound(pages) /\ Sound(pages') /\ InBarOrder(pages, bar) /\ LabelsShow(pages)
  BY NavigateToSound DEF NavigateTo, LayoutInv, BarInv
<1>2. CASE UNCHANGED <<pages, bar>>
  BY <1>1, <1>2
<1>3. ASSUME t \in DOMAIN pages
      PROVE  /\ DOMAIN named = DOMAIN pages
             /\ \A u \in DOMAIN pages : /\ named[u].pref = pages[u].pref
                                        /\ named[u].pos = pages[u].pos
                                        /\ named[u].label = pages[u].label
  BY <1>3 DEF Navigated
<1> HIDE DEF named
<1>4. ASSUME t \in DOMAIN pages PROVE Normal(named) = Normal(pages)
  BY <1>3, <1>4 DEF Normal
<1>5. CASE t \in DOMAIN pages /\ pages' = named /\ bar' = bar
  <2>1. \A u \in Normal(pages) : named[u].pos = pages[u].pos /\ named[u].label = pages[u].label
    BY <1>3, <1>5 DEF Normal
  <2>2. QED
    BY <1>1, <1>4, <1>5, <2>1, SameBar
<1>6. ASSUME t \in DOMAIN pages, NEW f, pages' = Labelled(Moved(named, f), t),
             bar' = Synced(bar, Moved(named, f))
      PROVE  InBarOrder(pages', bar') /\ LabelsShow(pages')
  <2> DEFINE placed == Moved(named, f)
  <2>1. Sound(placed)
    BY <1>1, <1>6, UnlabelledSound
  <2>2. Normal(placed) = Normal(pages)
    <3>1. DOMAIN placed = DOMAIN named /\ \A u \in DOMAIN named : placed[u].pref = named[u].pref
      BY MovedPages
    <3> HIDE DEF placed
    <3>2. QED
      BY <1>4, <1>6, <3>1 DEF Normal
  <2>3. IsBar(bar, Normal(placed))
    BY <1>1, <2>2 DEF InBarOrder
  <2> HIDE DEF placed
  <2>4. QED
    BY <1>6, <2>1, <2>3, SyncSorts DEF placed
<1>7. QED
  BY <1>2, <1>5, <1>6 DEF NavigateTo, named

-----------------------------------------------------------------------------
(* The theorems. *)

\* The strengthened invariant: while no vector has been read outside its bounds,
\* every page is in its place, apart from the others and in the order of its third.
THEOREM LayoutInvariant == Spec => []LayoutInv
<1>1. Init => LayoutInv
  BY DEF Init, LayoutInv, Sound, IsPages
<1>2. LayoutInv /\ [Next]_vars => LayoutInv'
  <2> SUFFICES ASSUME LayoutInv, [Next]_vars
               PROVE  LayoutInv'
    OBVIOUS
  <2>1. CASE UNCHANGED vars
    BY <2>1 DEF vars, LayoutInv
  <2>2. ASSUME NEW t \in Uuids, NEW url \in Urls, NEW pref \in Prefs, NewWebTab(t, url, pref)
        PROVE  LayoutInv'
    BY <2>2, NewWebTabSound
  <2>3. ASSUME NEW t \in Uuids, KillTab(t)
        PROVE  LayoutInv'
    BY <2>3, KillTabSound
  <2>4. ASSUME NEW t \in Uuids, NEW url \in Urls, NavigateTo(t, url)
        PROVE  LayoutInv'
    BY <2>4, NavigateToSound
  <2>5. QED
    BY <2>1, <2>2, <2>3, <2>4 DEF Next
<1>3. QED
  BY <1>1, <1>2, PTL DEF Spec

\* However many slots, tabs and URLs there are, no two tabs share a slot and every
\* tab is where it asked to be, until a vector is read outside its bounds.
THEOREM PositionsAlwaysSound == Spec => []PositionsSound
<1>1. LayoutInv => PositionsSound
  <2> SUFFICES ASSUME ~overrun, Sound(pages)
               PROVE  PositionsSound
    BY DEF LayoutInv, PositionsSound
  <2>1. \A t \in Normal(pages) : InPlace(pages, t) /\ pages[t].pref # POS_EXTRA
    BY DEF Sound, Normal
  <2>2. \A t, u \in Normal(pages) : Apart(pages, t, u)
    BY DEF Sound, Normal
  <2>3. QED
    BY <2>1, <2>2 DEF PositionsSound, InPlace, Apart
<1>2. QED
  BY <1>1, LayoutInvariant, PTL

\* The tabs of a third stay in the order of their URLs.
THEOREM ZonesAlwaysInOrder == Spec => []ZonesInUrlOrder
<1>1. LayoutInv => ZonesInUrlOrder
  BY DEF LayoutInv, Sound, ZonesInUrlOrder, InUrlOrder, Normal
<1>2. QED
  BY <1>1, LayoutInvariant, PTL

\* A tab is refused only for want of a slot, whatever arrived, left and was moved
\* before: the code finds a free slot if there is one, and a third it may reorder
\* can always be put in order (Browser.cpp, allocateLogicalPosition).
THEOREM RefusalsForWantOfSlots == Spec => []RefusedForWantOfSlots
<1>1. Init => RefusedForWantOfSlots
  BY DEF Init, RefusedForWantOfSlots
<1>2. LayoutInv /\ RefusedForWantOfSlots /\ [Next]_vars => RefusedForWantOfSlots'
  <2> SUFFICES ASSUME LayoutInv, RefusedForWantOfSlots, [Next]_vars
               PROVE  RefusedForWantOfSlots'
    OBVIOUS
  <2>1. CASE UNCHANGED vars
    BY <2>1 DEF vars, RefusedForWantOfSlots, Normal, HasExtra, Occupied
  <2>2. ASSUME NEW t \in Uuids, NEW url \in Urls, NEW pref \in Prefs, NewWebTab(t, url, pref),
               last'.ret = "EXEC_ERROR"
        PROVE  RefusedForWantOfSlots'
    <3>1. /\ ~HasRoom(pref) \/ Allocate(Entered(t, url, pref), t) = {}
          /\ pages' = pages /\ last'.pref = pref /\ t \notin DOMAIN pages /\ ~overrun
      BY <2>2 DEF NewWebTab, Answer
    <3>2. Sound(pages)
      BY <3>1 DEF LayoutInv
    <3>3. CASE ~HasRoom(pref)
      <4>1. \/ pref = POS_EXTRA /\ HasExtra(pages)
            \/ pref # POS_EXTRA /\ Cardinality(Normal(pages)) = MaxTabs
        BY <3>2, <3>3, PagesFit, LayoutAssumption DEF HasRoom
      <4>2. QED
        BY <3>1, <4>1 DEF RefusedForWantOfSlots, Normal, HasExtra
    <3>4. CASE Allocate(Entered(t, url, pref), t) = {}
      <4>1. \/ pref # POS_EXTRA /\ Cardinality(Normal(pages)) = MaxTabs
            \/ /\ pref \in ZonePrefs
               /\ Zone(pref) \subseteq
                    {pages[u].pos : u \in {v \in Normal(pages) : pages[v].pref # pref}}
            \/ pref \in Slots /\ pref \in Occupied(pages)
            \/ pref \notin Slots \cup ZonePrefs \cup {POS_ANY, POS_EXTRA}
        BY <3>1, <3>2, <3>4, NoPlaceFor
      <4>2. QED
        BY <3>1, <4>1 DEF RefusedForWantOfSlots, Normal, Occupied
    <3>5. QED
      BY <3>1, <3>3, <3>4
  <2>3. ASSUME last'.op # "NewWebTab" \/ last'.ret # "EXEC_ERROR"
        PROVE  RefusedForWantOfSlots'
    BY <2>3 DEF RefusedForWantOfSlots
  <2>4. ASSUME NEW t \in Uuids, KillTab(t) \/ \E url \in Urls : NavigateTo(t, url)
        PROVE  last'.op # "NewWebTab"
    BY <2>4 DEF KillTab, NavigateTo, Answer
  <2>5. QED
    BY <2>1, <2>2, <2>3, <2>4 DEF Next
<1>3. QED
  BY <1>1, <1>2, LayoutInvariant, PTL DEF Spec

\* The bar has the normal pages, each once, in the order of their positions and
\* labelled with them, however many tabs syncTabOrder has to move, one by one,
\* and wherever they stood (Browser.cpp, syncTabOrder and its callers).
THEOREM BarAlwaysShowsPositions == Spec => []BarShowsPositions
<1>1. Init => BarInv
  <2> SUFFICES ASSUME Init PROVE InBarOrder(pages, bar) /\ LabelsShow(pages)
    BY DEF BarInv
  <2>1. Normal(pages) = {}
    BY DEF Init, Normal
  <2>2. Cardinality(Normal(pages)) = 0
    BY <2>1, FS_EmptySet
  <2>3. bar = <<>>
    BY DEF Init
  <2>4. QED
    BY <2>1, <2>2, <2>3 DEF InBarOrder, IsBar, LabelsShow
<1>2. LayoutInv /\ BarInv /\ [Next]_vars => BarInv'
  <2> SUFFICES ASSUME LayoutInv, BarInv, [Next]_vars
               PROVE  BarInv'
    OBVIOUS
  <2>1. CASE UNCHANGED vars
    BY <2>1 DEF vars, BarInv
  <2>2. QED
    BY <2>1, NewWebTabBar, KillTabBar, NavigateToBar DEF Next
<1>3. LayoutInv /\ BarInv => BarShowsPositions
  <2> SUFFICES ASSUME ~overrun, Sound(pages), InBarOrder(pages, bar), LabelsShow(pages)
               PROVE  BarShowsPositions
    BY DEF LayoutInv, BarInv, BarShowsPositions
  <2>1. Cardinality(Normal(pages)) \in Nat /\ IsBar(bar, Normal(pages))
    BY PagesFit DEF InBarOrder
  <2>2. /\ ToSet(bar) = Normal(pages) /\ Len(bar) = Cardinality(Normal(pages))
        /\ DOMAIN bar = 1..Cardinality(Normal(pages))
    BY <2>1, BarFields
  <2>3. QED
    BY <2>2 DEF BarShowsPositions, InBarOrder, LabelsShow
<1>4. QED
  BY <1>1, <1>2, <1>3, LayoutInvariant, PTL DEF Spec

\* A request moves no tab but those that asked for its third, even when a vector
\* is read outside its bounds (Browser.cpp, allocateZonePosition).
THEOREM OthersAlwaysStay == Spec => OthersStay
<1> DEFINE Stay == \A t \in DOMAIN pages \cap DOMAIN pages' :
                     pages'[t].pos # pages[t].pos =>
                       pages[t].pref \in ZonePrefs /\ pages[t].pref = last'.pref
<1>1. ASSUME NEW ps, NEW t, NEW f,
             f \in Allocate(ps, t) \/ (ps[t].pref \in ZonePrefs /\ f \in AllocateZone(ps, t))
      PROVE  \A u \in DOMAIN ps \ {t} :
               Moved(ps, f)[u].pos # ps[u].pos =>
                 ps[u].pref = ps[t].pref /\ ps[u].pref \in ZonePrefs
  <2>1. \A stray : DOMAIN ReadOutside(ps, t, stray) = Mates(ps, t)
    BY Zenon DEF ReadOutside
  <2>2. f \in AllocateZone(ps, t) => DOMAIN f = Mates(ps, t)
    BY <2>1 DEF AllocateZone, InOrder
  <2>3. f \in AllocateAbsolute(ps, t) => DOMAIN f = {t}
    BY DEF AllocateAbsolute
  <2>4. DOMAIN f = {t} \/ (DOMAIN f = Mates(ps, t) /\ ps[t].pref \in ZonePrefs)
    BY <1>1, <2>2, <2>3 DEF Allocate
  <2>5. QED
    BY <2>4, MovedPages DEF Mates
<1>2. ASSUME NEW t, NEW url, NEW pref, NewWebTab(t, url, pref)
      PROVE  Stay
  <2> DEFINE ps == Entered(t, url, pref)
  <2>1. CASE pages' = pages
    BY <2>1
  <2>2. ASSUME NEW f \in Allocate(ps, t),
               pages' = Moved(ps, f) \/ pages' = Labelled(Moved(ps, f), t)
        PROVE  Stay
    <3>1. /\ t \notin DOMAIN pages /\ last'.pref = pref
          /\ DOMAIN ps = DOMAIN pages \cup {t} /\ ps[t].pref = pref
          /\ \A u \in DOMAIN pages : ps[u] = pages[u]
      <4>1. t \notin DOMAIN pages /\ last'.pref = pref
        BY <1>2 DEF NewWebTab, Answer
      <4>2. QED
        BY <4>1 DEF Entered
    <3> HIDE DEF ps
    <3>2. \A u \in DOMAIN pages : u \in DOMAIN ps \ {t}
      BY <3>1
    <3>3. \A u \in DOMAIN ps : pages'[u].pos = Moved(ps, f)[u].pos
      BY <2>2, MovedPages, LabelledPages
    <3>4. \A u \in DOMAIN ps \ {t} :
            Moved(ps, f)[u].pos # ps[u].pos =>
              ps[u].pref = ps[t].pref /\ ps[u].pref \in ZonePrefs
      BY <1>1, <2>2
    <3>5. QED
      BY <3>1, <3>2, <3>3, <3>4
  <2>3. QED
    BY <1>2, <2>1, <2>2 DEF NewWebTab
<1>3. ASSUME NEW t, KillTab(t)
      PROVE  Stay
  <2> DEFINE left == [u \in DOMAIN pages \ {t} |-> pages[u]]
  <2>1. pages' = pages \/ pages' = left \/ pages' = Labelled(left, t)
    BY <1>3 DEF KillTab
  <2>2. \A u \in DOMAIN left : Labelled(left, t)[u].pos = left[u].pos /\ left[u] = pages[u]
    BY LabelledPages
  <2>3. DOMAIN Labelled(left, t) = DOMAIN left
    BY LabelledPages
  <2> HIDE DEF left
  <2>4. QED
    BY <2>1, <2>2, <2>3
<1>4. ASSUME NEW t, NEW url, NavigateTo(t, url)
      PROVE  Stay
  <2> DEFINE ps == Navigated(t, url)
  <2>1. /\ DOMAIN ps = DOMAIN pages
        /\ \A u \in DOMAIN pages : ps[u].pref = pages[u].pref /\ ps[u].pos = pages[u].pos
    BY DEF Navigated
  <2> HIDE DEF ps
  <2>2. CASE pages' = pages \/ pages' = ps
    BY <2>1, <2>2
  <2>3. ASSUME NEW f \in AllocateZone(ps, t), t \in DOMAIN pages, last'.pref = pages[t].pref,
               pages[t].pref \in ZonePrefs, pages' = Labelled(Moved(ps, f), t)
        PROVE  Stay
    <3>1. \A u \in DOMAIN ps : pages'[u].pos = Moved(ps, f)[u].pos
      BY <2>3, MovedPages, LabelledPages
    <3>2. \A u \in DOMAIN ps \ {t} :
            Moved(ps, f)[u].pos # ps[u].pos =>
              ps[u].pref = ps[t].pref /\ ps[u].pref \in ZonePrefs
      BY <1>1, <2>1, <2>3
    <3>3. QED
      BY <2>1, <2>3, <3>1, <3>2
  <2>4. QED
    BY <1>4, <2>2, <2>3 DEF NavigateTo, Answer, ps
<1>5. [Next]_vars => [Stay]_vars
  BY <1>2, <1>3, <1>4 DEF Next
<1>6. QED
  BY <1>5, PTL DEF Spec, OthersStay

=============================================================================
