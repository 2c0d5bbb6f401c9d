-------------------------- MODULE Segmentation_proof --------------------------
(***************************************************************************)
(* Facts about the operators of Segmentation, for every track.             *)
(***************************************************************************)
EXTENDS Segmentation, FiniteSetTheorems, SequenceTheorems, TLAPS

\* The sync samples before a sample are finitely many.
LEMMA SyncBeforeFinite ==
    ASSUME NEW t, NEW s \in Nat
    PROVE  /\ IsFiniteSet(SyncBefore(t, s))
           /\ SyncOrdinal(t, s) \in Nat
<1>1. IsFiniteSet(0 .. s - 1)
  BY FS_Interval
<1>2. SyncBefore(t, s) \in SUBSET (0 .. s - 1)
  BY DEF SyncBefore
<1> QED
  BY <1>1, <1>2, FS_Subset, FS_CardinalityType DEF SyncOrdinal

\* No sync sample comes before sample 0.
LEMMA SyncOrdinalZero ==
    ASSUME NEW t
    PROVE  SyncOrdinal(t, 0) = 0
<1>1. SyncBefore(t, 0) = {}
  BY DEF SyncBefore
<1> QED
  BY <1>1, FS_EmptySet DEF SyncOrdinal

\* Counting one sample further adds one exactly when the sample is marked:
\* what the code's "++i" next to "++cur" does.
LEMMA SyncOrdinalStep ==
    ASSUME NEW t, NEW s \in Nat, t.sync[s] \in BOOLEAN
    PROVE  SyncOrdinal(t, s + 1) = IF t.sync[s] THEN SyncOrdinal(t, s) + 1
                                                ELSE SyncOrdinal(t, s)
<1>1. CASE t.sync[s]
  <2>1. SyncBefore(t, s + 1) = SyncBefore(t, s) \cup {s}
    BY <1>1 DEF SyncBefore
  <2>2. s \notin SyncBefore(t, s)
    BY DEF SyncBefore
  <2> QED
    BY <1>1, <2>1, <2>2, SyncBeforeFinite, FS_AddElement DEF SyncOrdinal
<1>2. CASE ~ t.sync[s]
  <2>1. SyncBefore(t, s + 1) = SyncBefore(t, s)
    BY <1>2 DEF SyncBefore
  <2> QED
    BY <1>2, <2>1 DEF SyncOrdinal
<1> QED
  BY <1>1, <1>2

\* Numbers grow along the track: no two sync samples have the same one.
LEMMA SyncOrdinalIncreases ==
    ASSUME NEW t, NEW a \in Nat, NEW b \in Nat, a < b, t.sync[a]
    PROVE  SyncOrdinal(t, a) < SyncOrdinal(t, b)
<1> DEFINE A == SyncBefore(t, a) \cup {a}
<1>1. /\ IsFiniteSet(A)
      /\ Cardinality(A) = SyncOrdinal(t, a) + 1
  <2>1. a \notin SyncBefore(t, a)
    BY DEF SyncBefore
  <2> QED
    BY <2>1, SyncBeforeFinite, FS_AddElement DEF SyncOrdinal
<1>2. A \in SUBSET SyncBefore(t, b)
  BY DEF SyncBefore
<1>3. Cardinality(A) <= Cardinality(SyncBefore(t, b))
  BY <1>2, SyncBeforeFinite, FS_Subset
<1> QED
  BY <1>1, <1>3, SyncBeforeFinite DEF SyncOrdinal

\* A segment URL names at most one sync sample.
LEMMA SampleNumberedUnique ==
    ASSUME NEW t, t.size \in Nat, NEW n,
           NEW a \in SampleNumbered(t, n), NEW b \in SampleNumbered(t, n)
    PROVE  a = b
<1>1. /\ a \in Nat /\ t.sync[a] /\ SyncOrdinal(t, a) = n
      /\ b \in Nat /\ t.sync[b] /\ SyncOrdinal(t, b) = n
  BY DEF SampleNumbered
<1>2. SyncOrdinal(t, a) \in Nat /\ SyncOrdinal(t, b) \in Nat
  BY <1>1, SyncBeforeFinite
<1>3. ~ (a < b)
  BY <1>1, <1>2, SyncOrdinalIncreases
<1>4. ~ (b < a)
  BY <1>1, <1>2, SyncOrdinalIncreases
<1> QED
  BY <1>1, <1>3, <1>4

\* A cut that no cut precedes is the one NextCut chooses.
LEMMA NextCutIs ==
    ASSUME NEW t, t.size \in Nat, NEW a \in Nat, NEW length, NEW c,
           IsCut(t, a, c, length),
           \A d \in a + 1 .. c - 1 : ~ IsCut(t, a, d, length)
    PROVE  NextCut(t, a, length) = c
<1> DEFINE P(x) == /\ IsCut(t, a, x, length)
                   /\ \A d \in a + 1 .. x - 1 : ~ IsCut(t, a, d, length)
<1>1. c \in a + 1 .. t.size
  BY DEF IsCut
<1>2. \A x \in a + 1 .. t.size : P(x) => x = c
  <2> SUFFICES ASSUME NEW x \in a + 1 .. t.size, P(x)
               PROVE  x = c
    OBVIOUS
  <2>1. ~ (x < c)
    <3> SUFFICES ASSUME x < c PROVE FALSE
      OBVIOUS
    <3>1. x \in a + 1 .. c - 1
      BY <1>1
    <3> QED
      BY <3>1
  <2>2. ~ (c < x)
    <3> SUFFICES ASSUME c < x PROVE FALSE
      OBVIOUS
    <3>1. c \in a + 1 .. x - 1
      BY <1>1
    <3> QED
      BY <3>1
  <2> QED
    BY <1>1, <2>1, <2>2
<1>3. NextCut(t, a, length) = CHOOSE x \in a + 1 .. t.size : P(x)
  BY DEF NextCut
<1>4. P(c)
  OBVIOUS
<1> HIDE DEF P
<1> QED
  BY <1>1, <1>2, <1>3, <1>4

-------------------------------------------------------------------------------
(* Least elements, and with them induction over a number in hand: a property *)
(* that fails somewhere fails at a smallest place.                           *)

\* Every non-empty set of naturals has a least element: the initial segments
\* below its elements are finite sets, and strict inclusion of finite sets is
\* well founded.
LEMMA LeastNumber ==
    ASSUME NEW S \in SUBSET Nat, S # {}
    PROVE  \E m \in S : \A k \in S : m <= k
<1> DEFINE Below(m) == 0 .. m - 1
           T == {Below(m) : m \in S}
           R == StrictSubsetOrdering(Nat)
<1>1. T \subseteq FiniteSubsetsOf(Nat)
  <2> SUFFICES ASSUME NEW m \in S PROVE Below(m) \in FiniteSubsetsOf(Nat)
    OBVIOUS
  <2>1. IsFiniteSet(Below(m))
    BY FS_Interval
  <2> QED
    BY <2>1 DEF FiniteSubsetsOf
<1>2. T # {}
  OBVIOUS
<1>3. IsWellFoundedOn(R, FiniteSubsetsOf(Nat))
  BY FS_StrictSubsetOrderingWellFounded
<1>4. \E x \in T : \A y \in T : ~ (<<y, x>> \in R)
  <2> HIDE DEF R, T
  <2> QED
    BY <1>1, <1>2, <1>3, WFMin
<1>5. PICK m \in S : \A k \in S : ~ (<<Below(k), Below(m)>> \in R)
  <2> HIDE DEF R, Below
  <2> QED
    BY <1>4
<1>6. ASSUME NEW k \in S, k < m PROVE FALSE
  <2>1. Below(k) \subseteq Below(m) /\ k \in Below(m) /\ k \notin Below(k)
    BY <1>6
  <2>2. Below(k) \in SUBSET Nat /\ Below(m) \in SUBSET Nat
    OBVIOUS
  <2> HIDE DEF Below
  <2>3. <<Below(k), Below(m)>> \in R
    BY <2>1, <2>2 DEF StrictSubsetOrdering
  <2> QED
    BY <2>3, <1>5
<1>7. m \in Nat /\ \A k \in S : k \in Nat
  OBVIOUS
<1> QED
  BY <1>6, <1>7

\* From every sample but the end sample there is a cut: the end sample is one.
LEMMA NextCutExists ==
    ASSUME NEW t, IsTrak(t), NEW a \in 0 .. t.size - 1, NEW length
    PROVE  LET c == NextCut(t, a, length)
           IN  /\ c \in a + 1 .. t.size
               /\ t.sync[c]
               /\ IsCut(t, a, c, length)
               /\ \A d \in a + 1 .. c - 1 : ~ IsCut(t, a, d, length)
<1> DEFINE S == {c \in a + 1 .. t.size : IsCut(t, a, c, length)}
<1>1. t.size \in Nat /\ t.sync[t.size]
  BY DEF IsTrak
<1>2. t.size \in S
  BY <1>1 DEF IsCut
<1>3. S \in SUBSET Nat
  BY <1>1
<1>4. PICK m \in S : \A k \in S : m <= k
  <2> HIDE DEF S
  <2> QED
    BY <1>2, <1>3, LeastNumber
<1>5. \A d \in a + 1 .. m - 1 : ~ IsCut(t, a, d, length)
  <2> SUFFICES ASSUME NEW d \in a + 1 .. m - 1, IsCut(t, a, d, length) PROVE FALSE
    OBVIOUS
  <2>1. m \in a + 1 .. t.size
    OBVIOUS
  <2>2. d \in S /\ d < m /\ d \in Int
    BY <1>1, <2>1
  <2> QED
    BY <2>1, <2>2, <1>4, <1>1
<1>6. a \in Nat /\ IsCut(t, a, m, length) /\ m \in a + 1 .. t.size
  BY <1>1
<1>7. NextCut(t, a, length) = m
  BY <1>1, <1>5, <1>6, NextCutIs
<1> QED
  BY <1>5, <1>6, <1>7 DEF IsCut

-------------------------------------------------------------------------------
(* The playlist as a chain of entries.                                       *)

Announcement == [video : Nat, from : Nat, to : Nat]

\* es announces the samples of t from s to the end: each entry starts where the
\* one before it ends, ends at the next cut and has the number of its first
\* sample.
Announces(t, length, s, es) ==
    /\ es \in Seq(Announcement)
    /\ es = <<>> <=> s = t.size
    /\ es # <<>> => es[1].from = s /\ es[Len(es)].to = t.size
    /\ \A k \in 1 .. Len(es) :
         /\ es[k].from \in s .. t.size - 1
         /\ es[k].to = NextCut(t, es[k].from, length)
         /\ es[k].video = SyncOrdinal(t, es[k].from)
    /\ \A k \in 1 .. Len(es) - 1 : es[k + 1].from = es[k].to

EntryAt(t, length, s) ==
    [video |-> SyncOrdinal(t, s), from |-> s, to |-> NextCut(t, s, length)]

\* What the recursive function of Entries says of one sample.
Continues(t, length, s, g) ==
    IF s = t.size THEN <<>>
    ELSE <<EntryAt(t, length, s)>> \o g[NextCut(t, s, length)]

IsPlaylistFrom(t, length, first, g) ==
    g = [s \in first .. t.size |-> Continues(t, length, s, g)]

\* Such a function exists on the samples from any one on: it looks only at
\* later samples.
LEMMA PlaylistFrom ==
    ASSUME NEW t, IsTrak(t), NEW length
    PROVE  \A k \in 0 .. t.size : \E g : IsPlaylistFrom(t, length, t.size - k, g)
<1> USE DEF IsPlaylistFrom
<1> DEFINE n == t.size
           Solves(k, g) == g = [s \in n - k .. n |-> Continues(t, length, s, g)]
           bad == {k \in 0 .. n : ~ \E g : Solves(k, g)}
<1>1. n \in Nat
  BY DEF IsTrak
<1>2. SUFFICES ASSUME bad # {} PROVE FALSE
  OBVIOUS
<1>3. PICK m \in bad : \A k \in bad : m <= k
  <2>1. bad \in SUBSET Nat
    BY <1>1
  <2> HIDE DEF bad
  <2> QED
    BY <1>2, <2>1, LeastNumber
<1>4. m \in 0 .. n /\ ~ \E g : Solves(m, g)
  OBVIOUS
<1>5. CASE m = 0
  <2> DEFINE g == [s \in n - 0 .. n |-> <<>>]
  <2>1. \A s \in n - 0 .. n : s = n
    BY <1>1
  <2>2. Solves(0, g)
    BY <2>1 DEF Continues
  <2> QED
    BY <1>4, <1>5, <2>2
<1>6. CASE m # 0
  <2>1. m - 1 \in 0 .. n /\ m - 1 \notin bad
    BY <1>3, <1>4, <1>6, <1>1
  <2>2. PICK g : Solves(m - 1, g)
    BY <2>1
  <2> DEFINE h == [s \in n - m .. n |-> IF s = n - m THEN Continues(t, length, s, g) ELSE g[s]]
  <2>3. ASSUME NEW s \in n - m .. n PROVE h[s] = Continues(t, length, s, h)
    <3>1. CASE s = n
      <4>1. s # n - m /\ s \in n - (m - 1) .. n
        BY <3>1, <1>1, <1>4, <1>6
      <4>2. h[s] = g[s]
        BY <4>1
      <4>3. g[s] = Continues(t, length, s, g)
        BY <2>2, <4>1
      <4> QED
        BY <4>2, <4>3, <3>1 DEF Continues
    <3>2. CASE s # n
      <4> DEFINE c == NextCut(t, s, length)
      <4>1. s \in 0 .. n - 1
        BY <3>2, <1>1, <1>4
      <4>2. c \in s + 1 .. n
        BY <4>1, NextCutExists
      <4> HIDE DEF c
      <4>3. c \in n - m .. n /\ c # n - m
        BY <4>2, <1>1, <1>4
      <4>4. h[c] = g[c]
        BY <4>3
      <4>5. Continues(t, length, s, g) = Continues(t, length, s, h)
        BY <4>4, <3>2 DEF Continues, c
      <4>6. h[s] = Continues(t, length, s, g)
        <5>1. CASE s = n - m
          BY <5>1
        <5>2. CASE s # n - m
          <6>1. s \in n - (m - 1) .. n
            BY <5>2, <1>1, <1>4
          <6> QED
            BY <5>2, <6>1, <2>2
        <5> QED
          BY <5>1, <5>2
      <4> QED
        BY <4>5, <4>6
    <3> QED
      BY <3>1, <3>2
  <2>4. Solves(m, h)
    <3>1. h = [s \in n - m .. n |-> h[s]]
      OBVIOUS
    <3> HIDE DEF h
    <3> QED
      BY <2>3, <3>1
  <2> QED
    BY <2>4, <1>4
<1> QED
  BY <1>5, <1>6

\* One more entry in front of a playlist that starts where it ends.
LEMMA AnnouncesFrom ==
    ASSUME NEW t, IsTrak(t), NEW length, NEW s \in 0 .. t.size - 1, NEW es,
           Announces(t, length, NextCut(t, s, length), es)
    PROVE  Announces(t, length, s, <<EntryAt(t, length, s)>> \o es)
<1> DEFINE c == NextCut(t, s, length)
           e == EntryAt(t, length, s)
           all == <<e>> \o es
<1>1. t.size \in Nat /\ s \in Nat
  BY DEF IsTrak
<1>2. c \in s + 1 .. t.size
  BY NextCutExists
<1>3. e \in Announcement /\ e.from = s /\ e.to = c /\ e.video = SyncOrdinal(t, s)
  BY <1>1, <1>2, SyncBeforeFinite DEF EntryAt, Announcement
<1>c. Announces(t, length, c, es)
  OBVIOUS
<1> HIDE DEF c, e
<1>4. /\ es \in Seq(Announcement)
      /\ es = <<>> <=> c = t.size
      /\ es # <<>> => es[1].from = c /\ es[Len(es)].to = t.size
      /\ \A k \in 1 .. Len(es) :
           /\ es[k].from \in c .. t.size - 1
           /\ es[k].to = NextCut(t, es[k].from, length)
           /\ es[k].video = SyncOrdinal(t, es[k].from)
      /\ \A k \in 1 .. Len(es) - 1 : es[k + 1].from = es[k].to
  BY <1>c DEF Announces
<1>5. /\ all \in Seq(Announcement) /\ Len(all) = Len(es) + 1 /\ Len(es) \in Nat
      /\ all[1] = e
      /\ \A k \in 2 .. Len(all) : all[k] = es[k - 1]
  BY <1>3, <1>4
<1> HIDE DEF all
<1>6. all # <<>> /\ s # t.size
  BY <1>1, <1>5
<1>7. all[1].from = s /\ all[Len(all)].to = t.size
  <2>1. CASE es = <<>>
    BY <2>1, <1>3, <1>4, <1>5
  <2>2. CASE es # <<>>
    <3>1. Len(es) > 0
      BY <2>2, <1>4, <1>5
    <3>2. all[Len(all)] = es[Len(es)]
      BY <3>1, <1>5
    <3> QED
      BY <2>2, <3>2, <1>3, <1>4, <1>5
  <2> QED
    BY <2>1, <2>2
<1>8. ASSUME NEW k \in 1 .. Len(all)
      PROVE  /\ all[k].from \in s .. t.size - 1
             /\ all[k].to = NextCut(t, all[k].from, length)
             /\ all[k].video = SyncOrdinal(t, all[k].from)
  <2>1. CASE k = 1
    BY <2>1, <1>1, <1>3, <1>5 DEF c
  <2>2. CASE k # 1
    <3>1. k - 1 \in 1 .. Len(es) /\ all[k] = es[k - 1]
      BY <2>2, <1>5
    <3> QED
      BY <3>1, <1>1, <1>2, <1>4
  <2> QED
    BY <2>1, <2>2
<1>9. ASSUME NEW k \in 1 .. Len(all) - 1
      PROVE  all[k + 1].from = all[k].to
  <2>1. k \in 1 .. Len(es) /\ all[k + 1] = es[k]
    BY <1>5
  <2>2. CASE k = 1
    BY <2>1, <2>2, <1>3, <1>4, <1>5
  <2>3. CASE k # 1
    <3>1. k - 1 \in 1 .. Len(es) - 1 /\ all[k] = es[k - 1]
      BY <2>1, <2>3, <1>5
    <3>2. es[(k - 1) + 1].from = es[k - 1].to
      BY <3>1, <1>4
    <3> QED
      BY <2>1, <3>1, <3>2
  <2> QED
    BY <2>2, <2>3
<1>10. Announces(t, length, s, all)
  BY <1>5, <1>6, <1>7, <1>8, <1>9 DEF Announces
<1> QED
  BY <1>10 DEF all, e

\* The playlist of Entries announces the track from its first sample on.
LEMMA EntriesAnnounce ==
    ASSUME NEW t, IsTrak(t), NEW length
    PROVE  Announces(t, length, 0, Entries(t, length))
<1> DEFINE n == t.size
           G(g) == g = [s \in 0 .. n |-> Continues(t, length, s, g)]
           from == CHOOSE g : G(g)
           bad == {k \in 0 .. n : ~ Announces(t, length, n - k, from[n - k])}
<1>1. n \in Nat
  BY DEF IsTrak
<1>2. Entries(t, length) = from[0]
  BY DEF Entries, Continues, EntryAt
<1>3. \E g : G(g)
  <2>1. n \in 0 .. n /\ n - n = 0
    BY <1>1
  <2>2. PICK g : IsPlaylistFrom(t, length, n - n, g)
    BY <2>1, PlaylistFrom
  <2>3. G(g)
    BY <2>1, <2>2 DEF IsPlaylistFrom
  <2> QED
    BY <2>3
<1>4. G(from)
  <2> HIDE DEF G
  <2> QED
    BY <1>3
<1>5. \A s \in 0 .. n : from[s] = Continues(t, length, s, from)
  <2> HIDE DEF from
  <2> QED
    BY <1>4
<1> HIDE DEF from
<1>6. SUFFICES ASSUME bad # {} PROVE FALSE
  <2>1. n \in 0 .. n /\ n - n = 0
    BY <1>1
  <2>2. bad = {} => Announces(t, length, n - n, from[n - n])
    BY <2>1
  <2> QED
    BY <1>2, <2>1, <2>2
<1>7. PICK m \in bad : \A k \in bad : m <= k
  <2>1. bad \in SUBSET Nat
    BY <1>1
  <2> HIDE DEF bad
  <2> QED
    BY <1>6, <2>1, LeastNumber
<1>8. m \in 0 .. n /\ ~ Announces(t, length, n - m, from[n - m])
  OBVIOUS
<1>9. CASE m = 0
  <2>1. n - m = n /\ n \in 0 .. n
    BY <1>1, <1>9
  <2>2. from[n] = <<>>
    BY <2>1, <1>5 DEF Continues
  <2>3. Announces(t, length, n, <<>>)
    BY <1>1 DEF Announces
  <2> QED
    BY <1>8, <2>1, <2>2, <2>3
<1>10. CASE m # 0
  <2> DEFINE s == n - m
             c == NextCut(t, s, length)
  <2>1. s \in 0 .. n - 1 /\ s \in 0 .. n /\ s # n
    BY <1>1, <1>8, <1>10
  <2> HIDE DEF s
  <2>2. c \in s + 1 .. n
    BY <2>1, NextCutExists
  <2>3. from[s] = <<EntryAt(t, length, s)>> \o from[c]
    BY <2>1, <1>5 DEF Continues
  <2> HIDE DEF c
  <2>4. n - c \in 0 .. n /\ n - c < m /\ n - (n - c) = c
    BY <1>1, <1>8, <2>1, <2>2 DEF s
  <2>5. n - c \notin bad
    BY <2>4, <1>7, <1>8
  <2>6. Announces(t, length, c, from[c])
    BY <2>4, <2>5
  <2>7. Announces(t, length, s, from[s])
    BY <2>1, <2>3, <2>6, AnnouncesFrom DEF c
  <2> QED
    BY <2>7, <1>8 DEF s
<1> QED
  BY <1>9, <1>10

\* There is only one such playlist.
LEMMA AnnouncedOnce ==
    ASSUME NEW t, IsTrak(t), NEW length, NEW s, NEW es, NEW fs,
           Announces(t, length, s, es), Announces(t, length, s, fs)
    PROVE  Len(es) <= Len(fs) /\ \A k \in 1 .. Len(es) : es[k] = fs[k]
<1> DEFINE bad == {k \in 1 .. Len(es) : ~ (k <= Len(fs) /\ es[k] = fs[k])}
<1>1. /\ t.size \in Nat
      /\ es \in Seq(Announcement) /\ Len(es) \in Nat
      /\ fs \in Seq(Announcement) /\ Len(fs) \in Nat
  BY DEF IsTrak, Announces
<1>2. SUFFICES ASSUME bad # {} PROVE FALSE
  <2>1. CASE Len(es) = 0
    BY <2>1, <1>1
  <2>2. CASE Len(es) # 0
    BY <2>2, <1>1
  <2> QED
    BY <2>1, <2>2
<1>3. PICK m \in bad : \A k \in bad : m <= k
  <2>1. bad \in SUBSET Nat
    BY <1>1
  <2> HIDE DEF bad
  <2> QED
    BY <1>2, <2>1, LeastNumber
<1>4. m \in 1 .. Len(es) /\ ~ (m <= Len(fs) /\ es[m] = fs[m])
  OBVIOUS
<1>5. es # <<>> /\ s # t.size /\ fs # <<>> /\ Len(fs) > 0
  BY <1>1, <1>4 DEF Announces
<1>6. m <= Len(fs) /\ es[m].from = fs[m].from
  <2>1. CASE m = 1
    BY <2>1, <1>1, <1>5 DEF Announces
  <2>2. CASE m # 1
    <3>1. m - 1 \in 1 .. Len(es) - 1 /\ m - 1 \in 1 .. Len(es) /\ m - 1 < m
      BY <2>2, <1>1, <1>4
    <3>2. m - 1 \notin bad
      BY <3>1, <1>3
    <3>3. m - 1 \in 1 .. Len(fs) /\ es[m - 1] = fs[m - 1]
      BY <3>1, <3>2, <1>1
    <3>4. es[m].from = es[m - 1].to
      <4>1. es[(m - 1) + 1].from = es[m - 1].to
        BY <3>1 DEF Announces
      <4> QED
        BY <4>1, <1>4, <1>1
    <3>5. m <= Len(fs)
      <4> SUFFICES ASSUME m - 1 = Len(fs) PROVE FALSE
        BY <3>3, <1>1, <1>4
      <4>1. es[m - 1].to = t.size
        BY <3>3, <1>5 DEF Announces
      <4>2. es[m].from \in s .. t.size - 1
        BY <1>4 DEF Announces
      <4> QED
        BY <4>1, <4>2, <3>4, <1>1
    <3>6. fs[m].from = fs[m - 1].to
      <4>1. m - 1 \in 1 .. Len(fs) - 1
        BY <3>3, <3>5, <1>1, <1>4
      <4>2. fs[(m - 1) + 1].from = fs[m - 1].to
        BY <4>1 DEF Announces
      <4> QED
        BY <4>2, <1>4, <1>1
    <3> QED
      BY <3>3, <3>4, <3>5, <3>6
  <2> QED
    BY <2>1, <2>2
<1>7. m \in 1 .. Len(fs)
  BY <1>1, <1>4, <1>6
<1>8. es[m].to = fs[m].to /\ es[m].video = fs[m].video
  BY <1>4, <1>6, <1>7 DEF Announces
<1>9. es[m] \in Announcement /\ fs[m] \in Announcement
  BY <1>1, <1>4, <1>7
<1>10. es[m] = fs[m]
  BY <1>6, <1>8, <1>9 DEF Announcement
<1> QED
  BY <1>4, <1>6, <1>10

\* What announces the whole track is what Entries computes.
LEMMA EntriesIs ==
    ASSUME NEW t, IsTrak(t), NEW length, NEW es, Announces(t, length, 0, es)
    PROVE  es = Entries(t, length)
<1> DEFINE fs == Entries(t, length)
<1>1. Announces(t, length, 0, fs)
  BY EntriesAnnounce
<1> HIDE DEF fs
<1>2. es \in Seq(Announcement) /\ fs \in Seq(Announcement)
  BY <1>1 DEF Announces
<1>3. Len(es) <= Len(fs) /\ \A k \in 1 .. Len(es) : es[k] = fs[k]
  BY <1>1, AnnouncedOnce
<1>4. Len(fs) <= Len(es) /\ \A k \in 1 .. Len(fs) : fs[k] = es[k]
  BY <1>1, AnnouncedOnce
<1>5. Len(es) \in Nat /\ Len(fs) \in Nat
  BY <1>2
<1>6. Len(es) = Len(fs)
  BY <1>3, <1>4, <1>5
<1>7. es = fs
  BY <1>2, <1>3, <1>6, SeqEqual
<1> QED
  BY <1>7 DEF fs

\* In a track that starts with a sync sample every entry does, so the number in
\* its URL names the sample it starts with.
LEMMA AnnouncedStart ==
    ASSUME NEW t, IsTrak(t), t.sync[0], NEW length, NEW es,
           Announces(t, length, 0, es), NEW k \in 1 .. Len(es)
    PROVE  es[k].from \in SampleNumbered(t, es[k].video)
<1>1. /\ t.size \in Nat /\ es \in Seq(Announcement) /\ Len(es) \in Nat
      /\ es[k].from \in 0 .. t.size - 1
      /\ es[k].video = SyncOrdinal(t, es[k].from)
  BY DEF IsTrak, Announces
<1>2. t.sync[es[k].from]
  <2>1. CASE k = 1
    BY <2>1, <1>1 DEF Announces
  <2>2. CASE k # 1
    <3>1. k - 1 \in 1 .. Len(es) - 1 /\ k - 1 \in 1 .. Len(es) /\ (k - 1) + 1 = k
      BY <2>2, <1>1
    <3>2. /\ es[(k - 1) + 1].from = es[k - 1].to
          /\ es[k - 1].to = NextCut(t, es[k - 1].from, length)
          /\ es[k - 1].from \in 0 .. t.size - 1
      BY <3>1 DEF Announces
    <3>3. t.sync[es[k - 1].to]
      BY <3>2, NextCutExists
    <3> QED
      BY <3>1, <3>2, <3>3
  <2> QED
    BY <2>1, <2>2
<1> QED
  BY <1>1, <1>2 DEF SampleNumbered

-------------------------------------------------------------------------------
(* Numbers and the marks of another track.                                   *)

\* Every number below the count of sync samples is the number of one.
LEMMA NumberedExists ==
    ASSUME NEW t, t.size \in Nat, \A s \in 0 .. t.size - 1 : t.sync[s] \in BOOLEAN,
           NEW n \in Nat, n < SyncOrdinal(t, t.size)
    PROVE  SampleNumbered(t, n) # {}
<1> DEFINE above == {s \in 0 .. t.size : SyncOrdinal(t, s) > n}
<1>1. PICK m \in above : \A s \in above : m <= s
  <2>1. above \in SUBSET Nat /\ t.size \in above
    OBVIOUS
  <2> HIDE DEF above
  <2> QED
    BY <2>1, LeastNumber
<1>2. m \in 0 .. t.size /\ SyncOrdinal(t, m) > n
  OBVIOUS
<1>3. m # 0
  BY <1>2, SyncOrdinalZero
<1>4. PICK p \in Nat : p = m - 1
  BY <1>2, <1>3
<1>5. p \in 0 .. t.size - 1 /\ p \notin above /\ m = p + 1 /\ p \in 0 .. t.size
  BY <1>1, <1>2, <1>4
<1>6. SyncOrdinal(t, p) \in Nat /\ SyncOrdinal(t, p) <= n
  <2>1. SyncOrdinal(t, p) \in Nat
    BY SyncBeforeFinite
  <2>2. ~ (SyncOrdinal(t, p) > n)
    BY <1>5
  <2> QED
    BY <2>1, <2>2
<1>7. SyncOrdinal(t, p + 1) = IF t.sync[p] THEN SyncOrdinal(t, p) + 1 ELSE SyncOrdinal(t, p)
  <2>1. t.sync[p] \in BOOLEAN
    BY <1>5
  <2> QED
    BY ONLY <2>1, SyncOrdinalStep
<1>8. t.sync[p] /\ SyncOrdinal(t, p) = n
  <2>1. SyncOrdinal(t, p + 1) > n
    BY <1>2, <1>5
  <2>2. CASE t.sync[p]
    BY <2>1, <2>2, <1>6, <1>7
  <2>3. CASE ~ t.sync[p]
    BY <2>1, <2>3, <1>6, <1>7
  <2> QED
    BY <2>2, <2>3
<1> QED
  BY <1>5, <1>8 DEF SampleNumbered

\* A number is below the count of sync samples before any later sample.
LEMMA NumberedBelow ==
    ASSUME NEW t, t.size \in Nat, NEW n, NEW a \in SampleNumbered(t, n),
           NEW b \in Nat, a < b
    PROVE  n \in Nat /\ n < SyncOrdinal(t, b)
<1>1. a \in Nat /\ t.sync[a] /\ SyncOrdinal(t, a) = n
  BY DEF SampleNumbered
<1> QED
  BY <1>1, SyncOrdinalIncreases, SyncBeforeFinite

\* Converting times does not change their order.
LEMMA RescaleMonotone ==
    ASSUME NEW x \in Nat, NEW y \in Nat, x <= y, NEW to \in Nat, NEW from \in Nat \ {0}
    PROVE  /\ Rescale(x, to, from) \in Nat
           /\ Rescale(x, to, from) <= Rescale(y, to, from)
<1> DEFINE a == x * to
           b == y * to
<1>1. a \in Nat /\ b \in Nat /\ a <= b
  OBVIOUS
<1> HIDE DEF a, b
<1>2. a \div from \in Nat /\ b \div from \in Nat
  BY <1>1
<1>3. a \div from <= b \div from
  BY <1>1
<1> QED
  BY <1>2, <1>3 DEF Rescale, a, b

LEMMA FirstNotBeforeOne ==
    ASSUME NEW t, t.size \in Nat, t.pts \in [0 .. t.size -> Nat], NEW time \in Nat,
           NEW a \in FirstNotBefore(t, time), NEW b \in FirstNotBefore(t, time)
    PROVE  a = b
<1>1. /\ a \in 0 .. t.size - 1 /\ b \in 0 .. t.size - 1
      /\ t.pts[a] >= time /\ t.pts[b] >= time
      /\ t.pts[a] \in Nat /\ t.pts[b] \in Nat
  BY SMTT(30) DEF FirstNotBefore
<1>2. ~ (a < b)
  <2> SUFFICES ASSUME a < b PROVE FALSE
    OBVIOUS
  <2>1. a \in 0 .. b - 1
    BY <1>1
  <2>2. t.pts[a] < time
    BY <2>1 DEF FirstNotBefore
  <2> QED
    BY <2>2, <1>1
<1>3. ~ (b < a)
  <2> SUFFICES ASSUME b < a PROVE FALSE
    OBVIOUS
  <2>1. b \in 0 .. a - 1
    BY <1>1
  <2>2. t.pts[b] < time
    BY <2>1 DEF FirstNotBefore
  <2> QED
    BY <2>2, <1>1
<1> QED
  BY <1>1, <1>2, <1>3

\* A sample not before a time has the first such sample at or before it.
LEMMA FirstNotBeforeExists ==
    ASSUME NEW t, t.size \in Nat, t.pts \in [0 .. t.size -> Nat], NEW time \in Nat,
           NEW j \in 0 .. t.size - 1, t.pts[j] >= time
    PROVE  \E a \in FirstNotBefore(t, time) : a <= j
<1> DEFINE S == {a \in 0 .. t.size - 1 : t.pts[a] >= time}
<1>1. PICK m \in S : \A a \in S : m <= a
  <2>1. S \in SUBSET Nat /\ j \in S
    OBVIOUS
  <2> HIDE DEF S
  <2> QED
    BY <2>1, LeastNumber
<1>2. m \in 0 .. t.size - 1 /\ t.pts[m] >= time /\ m <= j
  BY <1>1
<1>3. ASSUME NEW b \in 0 .. m - 1 PROVE t.pts[b] < time
  <2>1. b \in 0 .. t.size - 1 /\ b < m
    BY <1>2
  <2>2. b \notin S
    BY <2>1, <1>1, <1>2
  <2>3. ~ (t.pts[b] >= time) /\ t.pts[b] \in Nat
    BY <2>1, <2>2
  <2> QED
    BY <2>3
<1> QED
  BY <1>2, <1>3 DEF FirstNotBefore

-------------------------------------------------------------------------------
(* The marks moov_build_index copies to the audio track. *)

\* The audio time of a video sample, and the audio sample that takes its mark.
AudioTimeOf(v, a, m) == Rescale(v.pts[m], a.timescale, v.timescale)

MarkOf(v, a, m) == FirstNotBefore(a, AudioTimeOf(v, a, m))

LEMMA AudioTimeOfType ==
    ASSUME NEW v, IsTrak(v), NEW a, IsTrak(a), NEW m \in 0 .. v.size, NEW n \in 0 .. v.size, m <= n
    PROVE  /\ AudioTimeOf(v, a, m) \in Nat
           /\ AudioTimeOf(v, a, m) <= AudioTimeOf(v, a, n)
<1>1. /\ v.pts[m] \in Nat /\ v.pts[n] \in Nat /\ v.pts[m] <= v.pts[n]
      /\ a.timescale \in Nat /\ v.timescale \in Nat \ {0}
  BY DEF IsTrak
<1> QED
  BY <1>1, RescaleMonotone DEF AudioTimeOf

\* An audio sample is marked exactly when it takes the mark of a video sample.
LEMMA MarkedIs ==
    ASSUME NEW v, IsTrak(v), NEW a, IsTrak(a), a = WithCopiedSync(v, a),
           NEW j \in 0 .. a.size - 1
    PROVE  a.sync[j] <=> \E m \in SyncBefore(v, v.size) : j \in MarkOf(v, a, m)
<1>1. a.size \in Nat /\ "sync" \in DOMAIN a
  BY DEF IsTrak
<1>2. a.sync = [k \in 0 .. a.size |-> k = a.size \/ k \in CopiedSync(v, a)]
  BY <1>1 DEF WithCopiedSync
<1>3. j \in 0 .. a.size /\ j # a.size
  BY <1>1
<1>4. a.sync[j] <=> j \in CopiedSync(v, a)
  BY <1>2, <1>3
<1>5. j \in CopiedSync(v, a) <=> \E m \in SyncBefore(v, v.size) : j \in MarkOf(v, a, m)
  BY DEF CopiedSync, MarkOf, AudioTimeOf
<1> QED
  BY <1>4, <1>5

\* Not more audio samples are marked than video samples.
LEMMA CopiedFewer ==
    ASSUME NEW v, IsTrak(v), NEW a, IsTrak(a), a = WithCopiedSync(v, a)
    PROVE  SyncOrdinal(a, a.size) <= SyncOrdinal(v, v.size)
<1> DEFINE A == SyncBefore(a, a.size)
           V == SyncBefore(v, v.size)
           f == [j \in A |-> CHOOSE m \in V : j \in MarkOf(v, a, m)]
<1>1. a.size \in Nat /\ v.size \in Nat /\ a.pts \in [0 .. a.size -> Nat]
  BY DEF IsTrak
<1>2. \A j \in A : \E m \in V : j \in MarkOf(v, a, m)
  BY MarkedIs DEF SyncBefore
<1>3. ASSUME NEW j \in A PROVE f[j] \in V /\ j \in MarkOf(v, a, f[j])
  <2> HIDE DEF A, V
  <2> QED
    BY <1>2
<1>4. f \in [A -> V]
  BY <1>3
<1>5. \A x, y \in A : f[x] = f[y] => x = y
  <2> SUFFICES ASSUME NEW x \in A, NEW y \in A, f[x] = f[y] PROVE x = y
    OBVIOUS
  <2>1. PICK m : m = f[x]
    OBVIOUS
  <2>2. m \in V /\ x \in MarkOf(v, a, m) /\ y \in MarkOf(v, a, m)
    <3> HIDE DEF f
    <3> QED
      BY <1>3, <2>1
  <2>3. m \in 0 .. v.size
    BY <2>2, <1>1 DEF SyncBefore
  <2>4. AudioTimeOf(v, a, m) \in Nat
    <3>1. m <= m
      BY <2>3, <1>1
    <3> QED
      BY ONLY <2>3, <3>1, AudioTimeOfType, IsTrak(v), IsTrak(a)
  <2> QED
    BY <1>1, <2>2, <2>4, FirstNotBeforeOne DEF MarkOf
<1>6. f \in Injection(A, V)
  <2>1. DOMAIN f = A
    OBVIOUS
  <2> HIDE DEF f, A, V
  <2> QED
    BY <1>4, <1>5, <2>1 DEF Injection, IsInjective
<1>7. IsFiniteSet(V)
  BY <1>1, SyncBeforeFinite
<1> HIDE DEF f, A, V
<1>8. Cardinality(A) <= Cardinality(V)
  BY <1>6, <1>7, FS_Injection
<1> QED
  BY <1>8 DEF A, V, SyncOrdinal

\* When no audio sample takes two marks, the marked audio samples have the
\* numbers of the video samples they are marked for.
LEMMA CopiedNumbers ==
    ASSUME NEW v, IsTrak(v), NEW a, IsTrak(a), a = WithCopiedSync(v, a), MarksApart(v, a),
           NEW m \in SyncBefore(v, v.size), NEW j \in MarkOf(v, a, m)
    PROVE  SyncOrdinal(a, j) = SyncOrdinal(v, m)
<1> DEFINE A == SyncBefore(a, j)
           V == SyncBefore(v, m)
           g == [n \in V |-> CHOOSE x \in MarkOf(v, a, n) : TRUE]
<1>1. /\ a.size \in Nat /\ v.size \in Nat /\ a.pts \in [0 .. a.size -> Nat]
      /\ m \in 0 .. v.size - 1 /\ m \in Nat
      /\ j \in 0 .. a.size - 1 /\ j \in Nat
  BY DEF IsTrak, SyncBefore, MarkOf, FirstNotBefore
<1>2. \A x, y \in SyncBefore(v, v.size) : x # y => MarkOf(v, a, x) \cap MarkOf(v, a, y) = {}
  BY DEF MarksApart, MarkOf, AudioTimeOf
<1>3. ASSUME NEW n \in 0 .. v.size - 1
      PROVE  /\ AudioTimeOf(v, a, n) \in Nat
             /\ n <= m => AudioTimeOf(v, a, n) <= AudioTimeOf(v, a, m)
             /\ m <= n => AudioTimeOf(v, a, m) <= AudioTimeOf(v, a, n)
  <2>1. m \in 0 .. v.size /\ n \in 0 .. v.size /\ n <= n
    BY <1>1
  <2>2. AudioTimeOf(v, a, n) \in Nat
    BY ONLY <2>1, AudioTimeOfType, IsTrak(v), IsTrak(a)
  <2>3. n <= m => AudioTimeOf(v, a, n) <= AudioTimeOf(v, a, m)
    BY ONLY <2>1, AudioTimeOfType, IsTrak(v), IsTrak(a)
  <2>4. m <= n => AudioTimeOf(v, a, m) <= AudioTimeOf(v, a, n)
    BY ONLY <2>1, AudioTimeOfType, IsTrak(v), IsTrak(a)
  <2> QED
    BY <2>2, <2>3, <2>4
<1>4. a.pts[j] \in Nat /\ a.pts[j] >= AudioTimeOf(v, a, m) /\ AudioTimeOf(v, a, m) \in Nat
  BY <1>1, <1>3 DEF MarkOf, FirstNotBefore
<1>5. ASSUME NEW n \in V
      PROVE  /\ n \in SyncBefore(v, v.size) /\ n # m
             /\ g[n] \in MarkOf(v, a, n)
             /\ g[n] \in A
  <2>1. n \in 0 .. v.size - 1 /\ n < m /\ n \in SyncBefore(v, v.size)
    BY <1>1 DEF SyncBefore
  <2>2. AudioTimeOf(v, a, n) \in Nat /\ AudioTimeOf(v, a, n) <= AudioTimeOf(v, a, m)
    BY <1>1, <1>3, <2>1
  <2>3. a.pts[j] >= AudioTimeOf(v, a, n)
    BY <1>4, <2>2
  <2>4. PICK x \in MarkOf(v, a, n) : x <= j
    BY <1>1, <2>2, <2>3, FirstNotBeforeExists DEF MarkOf
  <2>5. g[n] \in MarkOf(v, a, n)
    BY <2>4
  <2>6. PICK y : y = g[n]
    OBVIOUS
  <2>7. y = x
    <3>1. y \in MarkOf(v, a, n)
      BY <2>5, <2>6
    <3> HIDE DEF g
    <3> QED
      BY <1>1, <2>2, <2>4, <3>1, FirstNotBeforeOne DEF MarkOf
  <2>8. x # j
    BY <1>2, <2>1, <2>4, <1>1
  <2>9. x \in 0 .. a.size - 1 /\ x < j
    BY <1>1, <2>4, <2>8 DEF MarkOf, FirstNotBefore
  <2>10. a.sync[x]
    BY <2>1, <2>4, <2>9, MarkedIs
  <2>11. x \in A
    BY <1>1, <2>9, <2>10 DEF SyncBefore
  <2>12. n # m
    BY <2>1, <1>1
  <2> QED
    BY <2>1, <2>5, <2>6, <2>7, <2>11, <2>12
<1>6. g \in [V -> A]
  BY <1>5
<1>7. \A x, y \in V : g[x] = g[y] => x = y
  <2> HIDE DEF g, V, A
  <2> QED
    BY <1>2, <1>5
<1>8. \A x \in A : \E n \in V : g[n] = x
  <2> SUFFICES ASSUME NEW x \in A PROVE \E n \in V : g[n] = x
    OBVIOUS
  <2>1. x \in 0 .. a.size - 1 /\ x < j /\ a.sync[x] /\ x \in Nat
    BY <1>1 DEF SyncBefore
  <2>2. PICK n \in SyncBefore(v, v.size) : x \in MarkOf(v, a, n)
    BY <2>1, MarkedIs
  <2>3. n \in 0 .. v.size - 1 /\ v.sync[n]
    BY DEF SyncBefore
  <2>4. n < m
    <3> SUFFICES ASSUME m <= n PROVE FALSE
      BY <1>1, <2>3
    <3>1. AudioTimeOf(v, a, m) <= AudioTimeOf(v, a, n) /\ AudioTimeOf(v, a, n) \in Nat
      BY <1>3, <2>3
    <3>2. a.pts[x] >= AudioTimeOf(v, a, n) /\ a.pts[x] \in Nat
      BY <1>1, <2>1, <2>2 DEF MarkOf, FirstNotBefore
    <3>3. x \in 0 .. j - 1
      BY <1>1, <2>1
    <3>4. a.pts[x] < AudioTimeOf(v, a, m)
      BY <3>3 DEF MarkOf, FirstNotBefore
    <3> QED
      BY <1>4, <3>1, <3>2, <3>4
  <2>5. n \in V
    BY <1>1, <2>3, <2>4 DEF SyncBefore
  <2>6. g[n] \in MarkOf(v, a, n)
    BY <1>5, <2>5
  <2>7. PICK y : y = g[n]
    OBVIOUS
  <2>8. y \in MarkOf(v, a, n) /\ AudioTimeOf(v, a, n) \in Nat
    BY <1>3, <2>3, <2>6, <2>7
  <2>9. y = x
    <3> HIDE DEF g
    <3> QED
      BY <1>1, <2>2, <2>8, FirstNotBeforeOne DEF MarkOf
  <2> QED
    BY <2>5, <2>7, <2>9
<1>9. IsFiniteSet(V)
  BY <1>1, SyncBeforeFinite
<1>10. g \in Bijection(V, A)
  <2>1. DOMAIN g = V
    OBVIOUS
  <2> HIDE DEF g, V, A
  <2> QED
    BY <1>6, <1>7, <1>8, <2>1 DEF Bijection, Injection, Surjection, IsInjective
<1> HIDE DEF g, V, A
<1>11. Cardinality(A) = Cardinality(V)
  BY <1>9, <1>10, FS_Bijection DEF ExistsBijection
<1> QED
  BY <1>11 DEF A, V, SyncOrdinal

\* Samples with one number: the audio sample takes the mark of the video sample.
LEMMA CoveredFrom ==
    ASSUME NEW v, IsTrak(v), NEW a, IsTrak(a), a = WithCopiedSync(v, a), MarksApart(v, a),
           NEW n, NEW b \in SampleNumbered(v, n), NEW c \in SampleNumbered(a, n)
    PROVE  c \in MarkOf(v, a, b)
<1>1. /\ v.size \in Nat /\ a.size \in Nat
      /\ c \in 0 .. a.size - 1 /\ a.sync[c] /\ SyncOrdinal(a, c) = n
  BY DEF IsTrak, SampleNumbered
<1>2. PICK m \in SyncBefore(v, v.size) : c \in MarkOf(v, a, m)
  BY <1>1, MarkedIs
<1>3. SyncOrdinal(v, m) = n
  BY <1>1, <1>2, CopiedNumbers
<1>4. m \in SampleNumbered(v, n)
  BY <1>3 DEF SyncBefore, SampleNumbered
<1>5. m = b
  BY <1>1, <1>4, SampleNumberedUnique
<1> QED
  BY <1>2, <1>5

\* An audio mark of no lower number than a video sample is not before its time.
LEMMA CoveredTo ==
    ASSUME NEW v, IsTrak(v), NEW a, IsTrak(a), a = WithCopiedSync(v, a), MarksApart(v, a),
           NEW b \in 0 .. v.size, NEW c \in 0 .. a.size - 1, a.sync[c],
           SyncOrdinal(a, c) >= SyncOrdinal(v, b)
    PROVE  a.pts[c] >= AudioTimeOf(v, a, b)
<1>1. v.size \in Nat /\ a.size \in Nat /\ a.pts \in [0 .. a.size -> Nat]
  BY DEF IsTrak
<1>2. PICK m \in SyncBefore(v, v.size) : c \in MarkOf(v, a, m)
  BY MarkedIs
<1>3. SyncOrdinal(a, c) = SyncOrdinal(v, m)
  BY <1>2, CopiedNumbers
<1>4. m \in 0 .. v.size /\ m \in Nat /\ b \in Nat /\ v.sync[m]
  BY <1>1 DEF SyncBefore
<1>5. b <= m
  <2> SUFFICES ASSUME m < b PROVE FALSE
    BY <1>4
  <2>1. SyncOrdinal(v, m) < SyncOrdinal(v, b)
    BY <1>4, SyncOrdinalIncreases
  <2>2. SyncOrdinal(v, m) \in Nat /\ SyncOrdinal(v, b) \in Nat
    BY <1>4, SyncBeforeFinite
  <2> QED
    BY <1>3, <2>1, <2>2
<1>6. AudioTimeOf(v, a, b) \in Nat /\ AudioTimeOf(v, a, b) <= AudioTimeOf(v, a, m)
  BY ONLY <1>4, <1>5, AudioTimeOfType, IsTrak(v), IsTrak(a), b \in 0 .. v.size
<1>7. AudioTimeOf(v, a, m) \in Nat
  <2>1. m <= m
    BY <1>4
  <2> QED
    BY ONLY <1>4, <2>1, AudioTimeOfType, IsTrak(v), IsTrak(a)
<1>8. a.pts[c] >= AudioTimeOf(v, a, m) /\ a.pts[c] \in Nat
  BY <1>1, <1>2 DEF MarkOf, FirstNotBefore
<1> QED
  BY <1>6, <1>7, <1>8

===============================================================================
