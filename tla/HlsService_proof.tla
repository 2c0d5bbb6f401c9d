--------------------------- MODULE HlsService_proof ---------------------------
(***************************************************************************)
(* HlsService, for every set of workers and players, every file and every  *)
(* length. When the file starts with a video track, a segment is of that   *)
(* track and starts where the playlist of its player announced it; it ends *)
(* there too if the player names its length, and is handed to the muxer to *)
(* its last sample if the sound keeps up with the video. What such players *)
(* receive implements Playback, whatever other requests and restarts fall  *)
(* in between.                                                             *)
(***************************************************************************)
EXTENDS HlsService, Segmentation_proof

-------------------------------------------------------------------------------
(* Times of two clocks, in a third. *)

LEMMA ProductMonotone ==
    ASSUME NEW x \in Nat, NEW y \in Nat, NEW z \in Nat
    PROVE  /\ x <= y => x * z <= y * z
           /\ x < y /\ z > 0 => x * z < y * z
<1>1. ASSUME NEW d \in Nat, y = x + d PROVE y * z = x * z + d * z /\ d * z \in Nat
  BY <1>1
<1>2. ASSUME x <= y PROVE x * z <= y * z
  <2>1. y - x \in Nat /\ y = x + (y - x)
    BY <1>2
  <2>2. y * z = x * z + (y - x) * z /\ (y - x) * z \in Nat
    BY <2>1, <1>1
  <2> QED
    BY <2>2
<1>3. ASSUME x < y, z > 0 PROVE x * z < y * z
  <2>1. y - (x + 1) \in Nat
    BY <1>3
  <2>2. PICK e \in Nat : e = y - (x + 1)
    BY <2>1
  <2>3. y = x + (e + 1) /\ e + 1 \in Nat
    BY <2>2
  <2>4. y * z = x * z + (e + 1) * z
    BY <2>3, <1>1
  <2>5. (e + 1) * z = e * z + z /\ e * z \in Nat
    OBVIOUS
  <2> QED
    BY <2>4, <2>5, <1>3
<1> QED
  BY <1>2, <1>3

LEMMA DivisionBounds ==
    ASSUME NEW x \in Nat, NEW p \in Nat \ {0}
    PROVE  /\ x \div p \in Nat
           /\ (x \div p) * p <= x
           /\ x < (x \div p + 1) * p
OBVIOUS

\* A time that is not later stays so in any clock.
LEMMA RescaleAcross ==
    ASSUME NEW x \in Nat, NEW y \in Nat, NEW p \in Nat \ {0}, NEW q \in Nat \ {0}, NEW K \in Nat,
           x * q <= y * p
    PROVE  Rescale(x, K, p) <= Rescale(y, K, q)
<1>1. PICK m \in Nat, n \in Nat : m = Rescale(x, K, p) /\ n = Rescale(y, K, q)
  <2>1. x * K \in Nat /\ y * K \in Nat
    OBVIOUS
  <2> QED
    BY <2>1, DivisionBounds DEF Rescale
<1>2. m * p <= x * K /\ y * K < (n + 1) * q
  <2>1. x * K \in Nat /\ y * K \in Nat
    OBVIOUS
  <2>2. PICK u \in Nat, v \in Nat : u = x * K /\ v = y * K
    BY <2>1
  <2>3. m = u \div p /\ n = v \div q
    BY <1>1, <2>2 DEF Rescale
  <2> QED
    BY <2>2, <2>3, DivisionBounds
<1>3. SUFFICES ASSUME n + 1 <= m PROVE FALSE
  BY <1>1
<1>4. (n + 1) * p <= x * K
  <2>1. (n + 1) * p <= m * p
    BY <1>3, ProductMonotone
  <2>2. (n + 1) * p \in Nat /\ m * p \in Nat /\ x * K \in Nat
    OBVIOUS
  <2> QED
    BY <2>1, <2>2, <1>2
<1>5. ((n + 1) * p) * q <= (x * K) * q
  <2>1. (n + 1) * p \in Nat /\ x * K \in Nat
    OBVIOUS
  <2> QED
    BY <2>1, <1>4, ProductMonotone
<1>6. (x * q) * K <= (y * p) * K
  <2>1. x * q \in Nat /\ y * p \in Nat
    OBVIOUS
  <2> QED
    BY <2>1, ProductMonotone
<1>7. (y * K) * p < ((n + 1) * q) * p
  <2>1. y * K \in Nat /\ (n + 1) * q \in Nat /\ p \in Nat /\ p > 0
    OBVIOUS
  <2> QED
    BY <2>1, <1>2, ProductMonotone
<1>8. /\ (x * K) * q = (x * q) * K
      /\ (y * p) * K = (y * K) * p
      /\ ((n + 1) * q) * p = ((n + 1) * p) * q
  OBVIOUS
<1>9. /\ ((n + 1) * p) * q \in Int /\ (x * K) * q \in Int
      /\ (y * p) * K \in Int
  OBVIOUS
<1> QED
  BY <1>5, <1>6, <1>7, <1>8, <1>9

-------------------------------------------------------------------------------
(* The fragments of a segment. *)

FragmentRec == [track : Nat, first : Nat, last : Nat]

\* A fragment of the movie that starts with the sync sample numbered n.
IsFragment(f, n) ==
    /\ f \in FragmentRec /\ f.track \in TrackIds
    /\ f.first \in SampleNumbered(Trak(f.track), n)
    /\ f.last \in f.first + 1 .. Trak(f.track).size

LEMMA MovieFacts ==
    ASSUME movie \in Movies
    PROVE  /\ Len(movie) \in Nat /\ 0 \in TrackIds /\ Trak(0) = movie[1]
           /\ \A k \in TrackIds :
                /\ k \in Nat /\ IsTrak(Trak(k))
                /\ Trak(k).size \in Nat /\ Trak(k).size > 0
                /\ Trak(k).kind \in Kinds
<1>1. \A k \in TrackIds : k \in Nat /\ k + 1 \in 1 .. Len(movie)
  BY MoviesAssumption DEF TrackIds
<1>2. 0 \in TrackIds /\ Trak(0) = movie[1]
  BY MoviesAssumption DEF TrackIds, Trak
<1> QED
  BY <1>1, <1>2, MoviesAssumption DEF Trak, IsTrak

LEMMA NumberedFacts ==
    ASSUME NEW t, t.size \in Nat, NEW n, NEW a \in SampleNumbered(t, n)
    PROVE  a \in 0 .. t.size - 1 /\ a \in Nat /\ t.sync[a] /\ SyncOrdinal(t, a) = n /\ n \in Nat
BY SyncBeforeFinite DEF SampleNumbered

LEMMA FirstFragmentIs ==
    ASSUME movie \in Movies, NEW n, NEW seconds, NEW audio, NEW f \in FirstFragment(n, seconds, audio)
    PROVE  /\ IsFragment(f, n)
           /\ f.track \in Least(Candidates(n, audio))
           /\ f.last = NextCut(Trak(f.track), f.first, seconds)
<1>1. PICK k \in Least(Candidates(n, audio)) : \E a \in SampleNumbered(Trak(k), n) :
         f = [track |-> k, first |-> a, last |-> NextCut(Trak(k), a, seconds)]
  BY DEF FirstFragment
<1>2. PICK a \in SampleNumbered(Trak(k), n) :
         f = [track |-> k, first |-> a, last |-> NextCut(Trak(k), a, seconds)]
  BY <1>1
<1>3. k \in TrackIds
  BY DEF Least, Candidates
<1>4. PICK t : t = Trak(k)
  OBVIOUS
<1>5. k \in Nat /\ IsTrak(t) /\ t.size \in Nat
  BY <1>3, <1>4, MovieFacts
<1>6. a \in 0 .. t.size - 1 /\ a \in Nat
  BY <1>4, <1>5, NumberedFacts
<1>7. NextCut(t, a, seconds) \in a + 1 .. t.size
  BY ONLY <1>5, <1>6, NextCutExists
<1>8. NextCut(t, a, seconds) \in Nat
  BY <1>5, <1>6, <1>7
<1> QED
  BY <1>2, <1>3, <1>4, <1>5, <1>6, <1>7, <1>8 DEF IsFragment, FragmentRec

\* The second fragment spans as many sync samples as the first, unless its track
\* ends before.
LEMMA SecondFragmentIs ==
    ASSUME movie \in Movies, NEW n, NEW seconds, NEW audio, NEW f, IsFragment(f, n),
           NEW g \in SecondFragment(f, n, seconds, audio)
    PROVE  /\ IsFragment(g, n)
           /\ g.track \in Least(Candidates(n, audio) \ {f.track})
           /\ Trak(g.track).sync[g.last]
           /\ \/ SyncOrdinal(Trak(g.track), g.last) >= SyncOrdinal(Trak(f.track), f.last)
              \/ g.last = Trak(g.track).size
<1>1. PICK k \in Least(Candidates(n, audio) \ {f.track}) : \E a \in SampleNumbered(Trak(k), n) :
         g = [track |-> k, first |-> a, last |-> LaterCut(Trak(k), a, f, n, seconds)]
  BY DEF SecondFragment
<1>2. PICK a \in SampleNumbered(Trak(k), n) :
         g = [track |-> k, first |-> a, last |-> LaterCut(Trak(k), a, f, n, seconds)]
  BY <1>1
<1>3. k \in TrackIds
  BY DEF Least, Candidates
<1>4. PICK t, u : t = Trak(k) /\ u = Trak(f.track)
  OBVIOUS
<1>5. k \in Nat /\ IsTrak(t) /\ t.size \in Nat /\ t.sync[t.size]
  BY <1>3, <1>4, MovieFacts DEF IsTrak
<1>6. a \in 0 .. t.size - 1 /\ a \in Nat /\ t.sync[a] /\ SyncOrdinal(t, a) = n /\ n \in Nat
  BY <1>2, <1>4, <1>5, NumberedFacts
<1>7. u.size \in Nat /\ f.first \in SampleNumbered(u, n) /\ f.last \in Nat /\ f.first < f.last
  <2>1. u.size \in Nat /\ f.first \in SampleNumbered(u, n) /\ f.last \in f.first + 1 .. u.size
    BY <1>4, MovieFacts DEF IsFragment
  <2>2. f.first \in Nat
    BY <2>1, NumberedFacts
  <2> QED
    BY <2>1, <2>2
<1>8. SyncOrdinal(u, f.last) \in Nat /\ n < SyncOrdinal(u, f.last)
  BY <1>7, SyncBeforeFinite, NumberedBelow
<1>9. Passed(f, n) = SyncOrdinal(u, f.last) - n - 1 /\ Passed(f, n) \in Nat
  BY <1>4, <1>6, <1>8 DEF Passed
<1> DEFINE b == LaterCut(t, a, f, n, seconds)
<1>10. CASE Passed(f, n) = 0
  <2>1. b = NextCut(t, a, seconds)
    BY <1>10 DEF LaterCut
  <2>2. NextCut(t, a, seconds) \in a + 1 .. t.size /\ t.sync[NextCut(t, a, seconds)]
    BY ONLY <1>5, <1>6, NextCutExists
  <2>3. b \in Nat /\ a < b
    BY <2>1, <2>2, <1>5, <1>6
  <2>4. n < SyncOrdinal(t, b) /\ SyncOrdinal(t, b) \in Nat
    <3>1. PICK c : c = b
      OBVIOUS
    <3>2. c \in Nat /\ a < c /\ a \in SampleNumbered(t, n)
      BY <2>3, <3>1, <1>2, <1>4
    <3>3. n < SyncOrdinal(t, c) /\ SyncOrdinal(t, c) \in Nat
      BY ONLY <3>2, <1>5, NumberedBelow, SyncBeforeFinite
    <3> QED
      BY <3>1, <3>3
  <2>5. b \in a + 1 .. t.size /\ t.sync[b] /\ SyncOrdinal(t, b) >= SyncOrdinal(u, f.last)
    BY <2>1, <2>2, <2>4, <1>6, <1>8, <1>9, <1>10
  <2> HIDE DEF b
  <2> QED
    BY <2>5, <2>3, <1>2, <1>3, <1>4, <1>5, <1>6 DEF IsFragment, FragmentRec, b
<1>11. CASE Passed(f, n) # 0
  <2>1. n + Passed(f, n) + 1 = SyncOrdinal(u, f.last)
    BY <1>6, <1>8, <1>9
  <2>2. PICK m : m = SyncOrdinal(u, f.last)
    OBVIOUS
  <2>3. b = SyncOrEnd(t, m)
    BY <1>11, <2>1, <2>2 DEF LaterCut
  <2>4. /\ b \in SampleNumbered(t, m) \cup {t.size}
        /\ b = t.size => SampleNumbered(t, m) = {}
    <3>1. \E s \in SampleNumbered(t, m) \cup {t.size} : s = t.size => SampleNumbered(t, m) = {}
      <4>1. CASE SampleNumbered(t, m) = {}
        BY <4>1
      <4>2. CASE SampleNumbered(t, m) # {}
        <5>1. PICK s \in SampleNumbered(t, m) : TRUE
          BY <4>2
        <5>2. s # t.size
          BY <5>1, <1>5, NumberedFacts
        <5> QED
          BY <5>2
      <4> QED
        BY <4>1, <4>2
    <3> HIDE DEF b
    <3> QED
      BY <2>3, <3>1 DEF SyncOrEnd
  <2> HIDE DEF b
  <2>5. CASE b = t.size
    <3>1. b \in a + 1 .. t.size /\ b \in Nat /\ t.sync[b]
      BY <2>5, <1>5, <1>6
    <3> QED
      BY <3>1, <2>5, <1>2, <1>3, <1>4, <1>5, <1>6 DEF IsFragment, FragmentRec, b
  <2>6. CASE b # t.size
    <3>1. b \in SampleNumbered(t, m)
      BY <2>4, <2>6
    <3>2. b \in 0 .. t.size - 1 /\ b \in Nat /\ t.sync[b] /\ SyncOrdinal(t, b) = m
      BY <3>1, <1>5, NumberedFacts
    <3>3. ~ (b < a)
      <4> SUFFICES ASSUME b < a PROVE FALSE
        OBVIOUS
      <4>1. SyncOrdinal(t, b) < SyncOrdinal(t, a)
        BY <3>2, <1>6, SyncOrdinalIncreases
      <4> QED
        BY <4>1, <3>2, <1>6, <1>8, <2>2
    <3>4. b # a
      BY <3>2, <1>6, <1>8, <2>2
    <3>5. b \in a + 1 .. t.size
      BY <3>2, <3>3, <3>4, <1>5, <1>6
    <3>6. SyncOrdinal(t, b) >= SyncOrdinal(u, f.last)
      BY <3>2, <2>2, <1>8
    <3> QED
      BY <3>2, <3>5, <3>6, <1>2, <1>3, <1>4, <1>5, <1>6 DEF IsFragment, FragmentRec, b
  <2> QED
    BY <2>5, <2>6
<1> QED
  BY <1>10, <1>11

LEMMA FragmentIs ==
    ASSUME movie \in Movies, NEW n, NEW f, IsFragment(f, n)
    PROVE  /\ f.track \in TrackIds /\ IsTrak(Trak(f.track)) /\ Trak(f.track).size \in Nat
           /\ f.first \in Nat /\ f.last \in Nat /\ f.first < f.last
           /\ f.first \in 0 .. Trak(f.track).size - 1
           /\ f.last \in 1 .. Trak(f.track).size
<1>1. /\ f.track \in TrackIds /\ IsTrak(Trak(f.track)) /\ Trak(f.track).size \in Nat
      /\ f.first \in SampleNumbered(Trak(f.track), n)
      /\ f.last \in f.first + 1 .. Trak(f.track).size
  BY MovieFacts DEF IsFragment
<1>2. f.first \in 0 .. Trak(f.track).size - 1 /\ f.first \in Nat
  BY <1>1, NumberedFacts
<1> QED
  BY <1>1, <1>2

LEMMA MuxTimeType ==
    ASSUME movie \in Movies, NEW k \in TrackIds, NEW i \in 0 .. Trak(k).size, NEW j \in 0 .. Trak(k).size,
           i <= j
    PROVE  /\ MuxTime(k, i) \in Nat
           /\ MuxTime(k, i) <= MuxTime(k, j)
<1> DEFINE t == Trak(k)
<1>2. /\ t.pts[i] \in Nat /\ t.pts[j] \in Nat /\ t.pts[i] <= t.pts[j]
      /\ t.timescale \in Nat \ {0}
  BY MovieFacts DEF IsTrak
<1>3. PICK x \in Nat, y \in Nat, p \in Nat \ {0} : x = t.pts[i] /\ y = t.pts[j] /\ p = t.timescale
  BY <1>2
<1>4. PICK K \in Nat : K = 90000
  OBVIOUS
<1>5. MuxTime(k, i) = Rescale(x, K, p) /\ MuxTime(k, j) = Rescale(y, K, p)
  BY <1>3, <1>4 DEF MuxTime
<1>6. x <= y
  BY <1>2, <1>3
<1>7. Rescale(x, K, p) \in Nat /\ Rescale(x, K, p) <= Rescale(y, K, p)
  BY ONLY <1>6, RescaleMonotone
<1> QED
  BY <1>5, <1>7

\* What is handed to the muxer of the first fragment are its samples up to one,
\* and all of them if the last is not behind the last of the second fragment.
LEMMA SentUpToIs ==
    ASSUME movie \in Movies, NEW n, NEW f, IsFragment(f, n), NEW g, IsFragment(g, n)
    PROVE  /\ SentUpTo(f, g) \in f.first .. f.last
           /\ MuxTime(f.track, f.last - 1) <= MuxTime(g.track, g.last - 1) => SentUpTo(f, g) = f.last
<1> DEFINE X == MuxTime(g.track, g.last - 1)
           T(j) == MuxTime(f.track, j)
           S == {j \in f.first .. f.last : j = f.last \/ T(j) > X}
           P(j) == /\ j = f.last \/ T(j) > X
                   /\ \A i \in f.first .. j - 1 : T(i) <= X
<1>1. /\ f.track \in TrackIds /\ f.first \in Nat /\ f.last \in Nat /\ f.first < f.last
      /\ f.last <= Trak(f.track).size /\ Trak(f.track).size \in Nat
      /\ g.track \in TrackIds /\ g.last \in Nat /\ 0 < g.last
      /\ g.last <= Trak(g.track).size /\ Trak(g.track).size \in Nat
  BY FragmentIs
<1>2. ASSUME NEW i \in f.first .. f.last, NEW j \in f.first .. f.last, i <= j
      PROVE  T(i) \in Nat /\ T(i) <= T(j)
  <2>1. i \in 0 .. Trak(f.track).size /\ j \in 0 .. Trak(f.track).size
    BY <1>1
  <2> QED
    BY <1>1, <1>2, <2>1, MuxTimeType
<1>3. X \in Nat
  <2>1. g.last - 1 \in 0 .. Trak(g.track).size /\ g.last - 1 <= g.last - 1
    BY <1>1
  <2> QED
    BY <1>1, <2>1, MuxTimeType
<1> HIDE DEF T, X
<1>4. PICK m \in S : \A i \in S : m <= i
  <2>1. S \in SUBSET Nat /\ f.last \in S
    BY <1>1
  <2> HIDE DEF S
  <2> QED
    BY <2>1, LeastNumber
<1>5. m \in f.first .. f.last /\ P(m)
  <2>1. ASSUME NEW i \in f.first .. m - 1 PROVE T(i) <= X
    <3>1. i \in f.first .. f.last /\ i < m /\ m \in f.first .. f.last /\ i <= i
      BY <1>1, <1>4
    <3>2. i \notin S
      BY <3>1, <1>4, <1>1
    <3>3. ~ (T(i) > X) /\ T(i) \in Nat
      BY <3>1, <3>2, <1>2
    <3> QED
      BY <3>3, <1>3
  <2> QED
    BY <2>1, <1>4
<1>6. SentUpTo(f, g) = CHOOSE j \in f.first .. f.last : P(j)
  BY DEF SentUpTo, T, X
<1> DEFINE e == SentUpTo(f, g)
<1>7. e \in f.first .. f.last /\ P(e)
  <2> HIDE DEF P, e
  <2>1. e = CHOOSE j \in f.first .. f.last : P(j)
    BY <1>6 DEF e
  <2> QED
    BY <2>1, <1>5
<1> HIDE DEF e
<1>8. ASSUME T(f.last - 1) <= X PROVE e = f.last
  <2> SUFFICES ASSUME e # f.last PROVE FALSE
    OBVIOUS
  <2>1. e \in f.first .. f.last /\ f.last - 1 \in f.first .. f.last /\ e <= f.last - 1
    BY <1>1, <1>7
  <2>2. T(e) > X /\ T(e) \in Nat /\ T(e) <= T(f.last - 1)
    BY <1>2, <1>7, <2>1
  <2>3. T(f.last - 1) \in Nat
    BY <1>2, <2>1, <1>1
  <2> QED
    BY <2>2, <2>3, <1>3, <1>8
<1> QED
  BY <1>7, <1>8 DEF e, T, X

-------------------------------------------------------------------------------
(* Sound that keeps up with the video. *)

\* What KeepingUp asks of sound t beside video v.
KeepsUp(v, t) ==
    /\ t = WithCopiedSync(v, t) /\ MarksApart(v, t)
    /\ t.pts[t.size] >= Rescale(v.pts[v.size], t.timescale, v.timescale)
    /\ \A i \in 0 .. t.size - 1, j \in 0 .. v.size - 1 :
         (t.pts[i + 1] - t.pts[i] + 1) * v.timescale <= (v.pts[j + 1] - v.pts[j]) * t.timescale

\* Up to a sample d of the sound that is not before the video's sample b, the
\* sound has a sample not before the one before b.
LEMMA NotBefore ==
    ASSUME NEW v, IsTrak(v), NEW t, IsTrak(t), KeepsUp(v, t),
           NEW b \in 1 .. v.size, NEW d \in 1 .. t.size, t.pts[d] >= AudioTimeOf(v, t, b)
    PROVE  Rescale(v.pts[b - 1], 90000, v.timescale) <= Rescale(t.pts[d - 1], 90000, t.timescale)
<1>1. /\ v.size \in Nat /\ t.size \in Nat
      /\ v.timescale \in Nat \ {0} /\ t.timescale \in Nat \ {0}
      /\ v.pts[b] \in Nat /\ v.pts[b - 1] \in Nat /\ v.pts[b - 1] <= v.pts[b]
      /\ t.pts[d] \in Nat /\ t.pts[d - 1] \in Nat /\ t.pts[d - 1] <= t.pts[d]
  <2>1. /\ v.size \in Nat /\ t.size \in Nat
        /\ v.timescale \in Nat \ {0} /\ t.timescale \in Nat \ {0}
    BY DEF IsTrak
  <2>2. /\ b \in 0 .. v.size /\ b - 1 \in 0 .. v.size /\ b - 1 <= b
        /\ d \in 0 .. t.size /\ d - 1 \in 0 .. t.size /\ d - 1 <= d
    BY <2>1
  <2>3. v.pts[b] \in Nat /\ v.pts[b - 1] \in Nat /\ v.pts[b - 1] <= v.pts[b]
    BY ONLY <2>2, IsTrak(v) DEF IsTrak
  <2>4. t.pts[d] \in Nat /\ t.pts[d - 1] \in Nat /\ t.pts[d - 1] <= t.pts[d]
    BY ONLY <2>2, IsTrak(t) DEF IsTrak
  <2> QED
    BY <2>1, <2>3, <2>4
<1>2. PICK p \in Nat \ {0}, q \in Nat \ {0}, B \in Nat, b0 \in Nat, D \in Nat, d0 \in Nat :
         /\ p = v.timescale /\ q = t.timescale
         /\ B = v.pts[b] /\ b0 = v.pts[b - 1] /\ D = t.pts[d] /\ d0 = t.pts[d - 1]
  BY <1>1
<1>3. (D - d0 + 1) * p <= (B - b0) * q
  <2>1. d - 1 \in 0 .. t.size - 1 /\ b - 1 \in 0 .. v.size - 1 /\ (d - 1) + 1 = d /\ (b - 1) + 1 = b
    BY <1>1
  <2>2. (t.pts[(d - 1) + 1] - t.pts[d - 1] + 1) * v.timescale
          <= (v.pts[(b - 1) + 1] - v.pts[b - 1]) * t.timescale
    BY <2>1 DEF KeepsUp
  <2> QED
    BY <1>2, <2>1, <2>2
<1>4. (B * q) < (D + 1) * p
  <2>1. D >= (B * q) \div p
    BY <1>2 DEF AudioTimeOf, Rescale
  <2>2. B * q \in Nat
    OBVIOUS
  <2>3. PICK x \in Nat : x = B * q
    BY <2>2
  <2>4. x < (x \div p + 1) * p /\ x \div p \in Nat
    BY DivisionBounds
  <2>5. (x \div p + 1) * p <= (D + 1) * p
    <3>1. x \div p + 1 <= D + 1
      BY <2>1, <2>3, <2>4
    <3>2. x \div p + 1 \in Nat /\ D + 1 \in Nat /\ p \in Nat
      BY <2>4
    <3> HIDE DEF Rescale
    <3> QED
      BY ONLY <3>1, <3>2, ProductMonotone
  <2>6. (x \div p + 1) * p \in Int /\ (D + 1) * p \in Int
    BY <2>4
  <2> QED
    BY <2>3, <2>4, <2>5, <2>6
<1>5. /\ (D - d0 + 1) * p = (D + 1) * p - d0 * p
      /\ (B - b0) * q = B * q - b0 * q
      /\ (D + 1) * p \in Int /\ d0 * p \in Int /\ B * q \in Int /\ b0 * q \in Int
  OBVIOUS
<1>6. b0 * q <= d0 * p
  BY <1>3, <1>4, <1>5
<1>7. Rescale(b0, 90000, p) <= Rescale(d0, 90000, q)
  BY <1>6, RescaleAcross
<1> QED
  BY <1>2, <1>7

\* The second fragment, of such sound, is not used up before the first.
LEMMA KeepsUpIs ==
    ASSUME movie \in Movies, NEW n, NEW f, IsFragment(f, n), NEW g, IsFragment(g, n),
           KeepsUp(Trak(f.track), Trak(g.track)),
           Trak(g.track).sync[g.last],
           \/ SyncOrdinal(Trak(g.track), g.last) >= SyncOrdinal(Trak(f.track), f.last)
           \/ g.last = Trak(g.track).size
    PROVE  MuxTime(f.track, f.last - 1) <= MuxTime(g.track, g.last - 1)
<1>1. PICK v, t, b, d : v = Trak(f.track) /\ t = Trak(g.track) /\ b = f.last /\ d = g.last
  OBVIOUS
<1>2. /\ IsTrak(v) /\ v.size \in Nat /\ b \in 1 .. v.size /\ b \in 0 .. v.size
      /\ IsTrak(t) /\ t.size \in Nat /\ d \in 1 .. t.size
      /\ KeepsUp(v, t) /\ t.sync[d]
      /\ SyncOrdinal(t, d) >= SyncOrdinal(v, b) \/ d = t.size
  <2>1. b \in 1 .. v.size /\ v.size \in Nat => b \in 0 .. v.size
    OBVIOUS
  <2> QED
    BY <1>1, <2>1, FragmentIs
<1>3. t.pts[d] >= AudioTimeOf(v, t, b)
  <2>1. CASE d # t.size
    <3>1. d \in 0 .. t.size - 1 /\ t = WithCopiedSync(v, t) /\ MarksApart(v, t)
      BY <1>2, <2>1 DEF KeepsUp
    <3> QED
      BY ONLY <3>1, <2>1, <1>2, CoveredTo
  <2>2. CASE d = t.size
    <3>1. v.size \in 0 .. v.size /\ b <= v.size
      BY <1>2
    <3>2. AudioTimeOf(v, t, b) \in Nat /\ AudioTimeOf(v, t, b) <= AudioTimeOf(v, t, v.size)
      BY ONLY <3>1, <1>2, AudioTimeOfType
    <3>3. AudioTimeOf(v, t, v.size) \in Nat
      <4>1. v.size <= v.size
        BY <1>2
      <4> QED
        BY ONLY <3>1, <4>1, <1>2, AudioTimeOfType
    <3>4. t.pts[d] >= AudioTimeOf(v, t, v.size)
      BY <1>2, <2>2 DEF KeepsUp, AudioTimeOf
    <3>5. t.pts[d] \in Nat
      BY <1>2 DEF IsTrak
    <3> QED
      BY <3>2, <3>3, <3>4, <3>5
  <2> QED
    BY <2>1, <2>2
<1>4. Rescale(v.pts[b - 1], 90000, v.timescale) <= Rescale(t.pts[d - 1], 90000, t.timescale)
  BY ONLY <1>2, <1>3, NotBefore
<1> QED
  BY <1>1, <1>4 DEF MuxTime

-------------------------------------------------------------------------------
(* The segment. *)

SampleRange == [track : Nat, first : Nat, last : Nat, end : Nat]

\* No second fragment, or one that is not used up before the first.
SentWhole(a) == a \notin TrackIds \/ Trak(a).kind = "vide" \/ a \in KeepingUp[movie]

\* A segment is the record of its first fragment, and of how far it is sent.
LEMMA SegmentOf ==
    ASSUME movie \in Movies, NEW n, NEW length, NEW audio, NEW r \in Segment(n, length, audio)
    PROVE  \E f \in FirstFragment(n, length % UIntRange, audio) :
             /\ r = [track |-> f.track, first |-> f.first, last |-> f.last, end |-> r.end]
             /\ \/ r.end = f.last
                \/ /\ WithAudio(n, audio)
                   /\ \E g \in SecondFragment(f, n, length % UIntRange, audio) : r.end = SentUpTo(f, g)
<1> DEFINE L == length % UIntRange
<1>1. PICK fs \in Fragments(n, L, audio) :
         r = [track |-> fs[1].track, first |-> fs[1].first, last |-> fs[1].last,
              end |-> IF Len(fs) = 2 THEN SentUpTo(fs[1], fs[2]) ELSE fs[1].last]
  BY DEF Segment
<1> HIDE DEF L
<1>2. PICK f \in FirstFragment(n, L, audio) :
         fs \in IF WithAudio(n, audio) THEN {<<f, g>> : g \in SecondFragment(f, n, L, audio)} ELSE {<<f>>}
  BY <1>1 DEF Fragments
<1>3. CASE WithAudio(n, audio)
  <2>1. PICK g \in SecondFragment(f, n, L, audio) : fs = <<f, g>>
    BY <1>2, <1>3
  <2>2. r = [track |-> f.track, first |-> f.first, last |-> f.last, end |-> SentUpTo(f, g)]
    <3>1. fs[1] = f /\ fs[2] = g /\ Len(fs) = 2
      BY <2>1
    <3> QED
      BY <1>1, <3>1
  <2> QED
    BY <1>3, <2>2 DEF L
<1>4. CASE ~ WithAudio(n, audio)
  <2>1. fs = <<f>>
    BY <1>2, <1>4
  <2>2. fs[1] = f /\ Len(fs) # 2
    BY <2>1
  <2>3. r = [track |-> f.track, first |-> f.first, last |-> f.last, end |-> f.last]
    BY <1>1, <2>2
  <2> QED
    BY <2>3 DEF L
<1> QED
  BY <1>3, <1>4

LEMMA SegmentType ==
    ASSUME movie \in Movies, NEW n, NEW length, NEW audio, NEW r \in Segment(n, length, audio)
    PROVE  /\ r \in SampleRange
           /\ r.track \in TrackIds
           /\ r.first < r.last /\ r.last <= Trak(r.track).size
           /\ r.first <= r.end /\ r.end <= r.last
<1>1. PICK f \in FirstFragment(n, length % UIntRange, audio) :
         /\ r = [track |-> f.track, first |-> f.first, last |-> f.last, end |-> r.end]
         /\ \/ r.end = f.last
            \/ \E g \in SecondFragment(f, n, length % UIntRange, audio) : r.end = SentUpTo(f, g)
  BY SegmentOf
<1>2. IsFragment(f, n)
  BY FirstFragmentIs
<1>3. /\ f.track \in TrackIds /\ f.track \in Nat
      /\ f.first \in Nat /\ f.last \in Nat /\ f.first < f.last /\ f.last <= Trak(f.track).size
  BY <1>2, FragmentIs, MovieFacts
<1>4. r.end \in f.first .. f.last
  <2>1. CASE r.end = f.last
    BY <2>1, <1>3
  <2>2. CASE \E g \in SecondFragment(f, n, length % UIntRange, audio) : r.end = SentUpTo(f, g)
    <3>1. PICK g \in SecondFragment(f, n, length % UIntRange, audio) : r.end = SentUpTo(f, g)
      BY <2>2
    <3>2. IsFragment(g, n)
      BY <1>2, SecondFragmentIs
    <3> QED
      BY <1>2, <3>1, <3>2, SentUpToIs
  <2> QED
    BY <1>1, <2>1, <2>2
<1>5. r.end \in Nat /\ f.first <= r.end /\ r.end <= f.last
  BY <1>3, <1>4
<1>6. r.track = f.track /\ r.first = f.first /\ r.last = f.last
  BY <1>1
<1>7. r \in SampleRange
  <2>1. PICK e \in Nat : e = r.end
    BY <1>5
  <2>2. r = [track |-> f.track, first |-> f.first, last |-> f.last, end |-> e]
    BY <1>1, <2>1
  <2> QED
    BY <2>2, <1>3 DEF SampleRange
<1> QED
  BY <1>3, <1>5, <1>6, <1>7

\* When the first track is video and has the sync sample asked for, the segment
\* is of that track, cut as NextCut has it, and sent to its end if the sound keeps
\* up.
LEMMA SegmentIs ==
    ASSUME movie \in Movies, movie[1].kind = "vide", NEW n, NEW length, NEW audio,
           NEW a \in SampleNumbered(movie[1], n), NEW r \in Segment(n, length, audio)
    PROVE  /\ r.track = 0 /\ r.first = a
           /\ r.last = NextCut(movie[1], a, length % UIntRange)
           /\ SentWhole(audio) => r.end = r.last
<1> DEFINE L == length % UIntRange
<1>1. PICK f \in FirstFragment(n, L, audio) :
         /\ r = [track |-> f.track, first |-> f.first, last |-> f.last, end |-> r.end]
         /\ \/ r.end = f.last
            \/ /\ WithAudio(n, audio)
               /\ \E g \in SecondFragment(f, n, L, audio) : r.end = SentUpTo(f, g)
  BY SegmentOf
<1> HIDE DEF L
<1>2. /\ IsFragment(f, n) /\ f.track \in Least(Candidates(n, audio))
      /\ f.last = NextCut(Trak(f.track), f.first, L)
  BY FirstFragmentIs
<1>3. /\ 0 \in TrackIds /\ Trak(0) = movie[1] /\ Trak(0).size \in Nat
      /\ \A k \in TrackIds : k \in Nat
  BY MovieFacts
<1>4. 0 \in Candidates(n, audio)
  BY <1>3 DEF Candidates
<1>5. f.track = 0
  BY <1>2, <1>3, <1>4 DEF Least, Candidates
<1>6. f.first = a
  <2>1. f.first \in SampleNumbered(Trak(0), n) /\ a \in SampleNumbered(Trak(0), n)
    BY <1>2, <1>3, <1>5 DEF IsFragment
  <2> QED
    BY <2>1, <1>3, SampleNumberedUnique
<1>7. r.track = f.track /\ r.first = f.first /\ r.last = f.last
  BY <1>1
<1>8. ASSUME SentWhole(audio) PROVE r.end = f.last
  <2> SUFFICES ASSUME WithAudio(n, audio), NEW g \in SecondFragment(f, n, L, audio),
                      r.end = SentUpTo(f, g)
               PROVE  r.end = f.last
    BY <1>1
  <2>1. audio \in TrackIds /\ Trak(audio).kind = "soun" /\ audio \in Candidates(n, audio)
    BY DEF WithAudio, Candidates
  <2>2. audio \in KeepingUp[movie]
    BY <1>8, <2>1 DEF SentWhole
  <2>3. /\ audio \in 1 .. Len(movie) - 1
        /\ KeepsUp(movie[1], movie[audio + 1])
        /\ \A k \in 2 .. audio : movie[k].kind = "soun"
    BY <2>2, Zenon DEF KeepingUp, KeepsUp
  <2>4. /\ IsFragment(g, n) /\ Trak(g.track).sync[g.last]
        /\ g.track \in Least(Candidates(n, audio) \ {0})
        /\ \/ SyncOrdinal(Trak(g.track), g.last) >= SyncOrdinal(Trak(f.track), f.last)
           \/ g.last = Trak(g.track).size
    BY <1>2, <1>5, SecondFragmentIs
  <2>5. g.track = audio
    <3>1. audio \in Nat /\ audio # 0 /\ Len(movie) \in Nat
      BY <2>3, MovieFacts
    <3>2. g.track \in Candidates(n, audio) /\ g.track # 0 /\ g.track <= audio /\ g.track \in Nat
      <4>1. audio \in Candidates(n, audio) \ {0}
        BY <2>1, <3>1
      <4> QED
        BY <4>1, <2>4, <1>3 DEF Least, Candidates
    <3>3. CASE g.track < audio
      <4>1. g.track + 1 \in 2 .. audio
        BY <3>1, <3>2, <3>3
      <4>2. Trak(g.track).kind = "soun"
        BY <4>1, <2>3 DEF Trak
      <4>3. g.track = audio
        BY <4>2, <3>2 DEF Candidates
      <4> QED
        BY <4>3
    <3> QED
      BY <3>1, <3>2, <3>3
  <2>6. KeepsUp(Trak(f.track), Trak(g.track))
    BY <1>3, <1>5, <2>3, <2>5 DEF Trak
  <2>7. MuxTime(f.track, f.last - 1) <= MuxTime(g.track, g.last - 1)
    BY <1>2, <2>4, <2>6, KeepsUpIs
  <2> QED
    BY <1>2, <2>4, <2>7, SentUpToIs
<1> QED
  BY <1>2, <1>3, <1>5, <1>6, <1>7, <1>8 DEF L

-------------------------------------------------------------------------------
(* The inductive invariant. *)

Types ==
    /\ movie \in Movies
    /\ conf \in [Workers -> Nat]
    /\ list \in [Sessions -> Seq(Announcement)]
    /\ delivered \in [Sessions -> Seq(SampleRange)]

\* A playlist was computed from the file with some length; that of a session
\* which names its length, with that one.
ListKnown ==
    \A s \in Sessions : list[s] = NoList \/ \E length \in Nat : list[s] = Entries(movie[1], length)

ListOfArg == \A s \in Explicit : list[s] = NoList \/ list[s] = Entries(movie[1], Arg[s])

\* Nobody receives a segment that was not announced.
NotAhead == \A s \in Sessions : Len(delivered[s]) <= Len(list[s])

\* Segments are not empty, and what is sent of one is some of it from its start.
EndsInside ==
    \A s \in Sessions : \A k \in 1 .. Len(delivered[s]) :
        LET d == delivered[s][k] IN d.first < d.last /\ d.first <= d.end /\ d.end <= d.last

IInv == Types /\ ListKnown /\ ListOfArg /\ NotAhead /\ EndsInside
        /\ AnsweredAsAnnounced /\ StartsAsAnnounced

LEMMA FileIs == movie \in Movies => IsTrak(movie[1]) /\ movie[1].size \in Nat /\ movie[1].size > 0
BY MovieFacts

\* Playlists of a file that has a sample are not empty.
LEMMA EntriesIsList ==
    ASSUME movie \in Movies, NEW length \in Nat
    PROVE  /\ Announces(movie[1], length, 0, Entries(movie[1], length))
           /\ Entries(movie[1], length) \in Seq(Announcement)
           /\ Entries(movie[1], length) # NoList
<1>1. IsTrak(movie[1]) /\ movie[1].size > 0 /\ movie[1].size \in Nat
  BY FileIs
<1>2. Announces(movie[1], length, 0, Entries(movie[1], length))
  <2>1. PICK t : t = movie[1]
    OBVIOUS
  <2>2. IsTrak(t)
    BY <1>1, <2>1
  <2>3. Announces(t, length, 0, Entries(t, length))
    BY ONLY <2>2, EntriesAnnounce
  <2> QED
    BY <2>1, <2>3
<1> QED
  BY <1>1, <1>2 DEF Announces, NoList

LEMMA LengthType ==
    ASSUME Types, NEW w \in Workers, NEW arg \in Nat \cup {NoArg}
    PROVE  /\ LengthAfter(w, arg) \in Nat
           /\ SetOptions(w, arg) => conf' \in [Workers -> Nat]
BY DEF Types, LengthAfter, SetOptions

LEMMA ArgType ==
    /\ \A s \in Sessions : Arg[s] \in Nat \cup {NoArg}
    /\ \A s \in Explicit : s \in Sessions /\ Arg[s] \in Nat /\ Arg[s] # NoArg /\ Arg[s] % UIntRange = Arg[s]
<1>1. \A s \in Sessions : Arg[s] \in Nat \cup {NoArg}
  BY LengthsAssumption
<1>2. ASSUME NEW s \in Explicit
      PROVE  s \in Sessions /\ Arg[s] \in Nat /\ Arg[s] # NoArg /\ Arg[s] % UIntRange = Arg[s]
  <2>1. s \in Sessions /\ Arg[s] \in 0 .. UIntRange - 1 /\ UIntRange \in Nat /\ UIntRange > 0
    BY LengthsAssumption DEF Explicit
  <2>2. Arg[s] \in Nat /\ Arg[s] # NoArg
    BY <2>1, LengthsAssumption
  <2>3. Arg[s] % UIntRange = Arg[s]
    BY <2>1
  <2> QED
    BY <2>1, <2>2, <2>3
<1> QED
  BY <1>1, <1>2

LEMMA InitIInv == Init => IInv
<1> SUFFICES ASSUME Init PROVE IInv
  OBVIOUS
<1> USE DEF Init, NoList
<1>1. Types
  BY LengthsAssumption DEF Types
<1>2. ListKnown /\ ListOfArg /\ NotAhead /\ EndsInside
  BY DEF ListKnown, ListOfArg, NotAhead, EndsInside, Explicit
<1>3. AnsweredAsAnnounced /\ StartsAsAnnounced
  BY DEF AnsweredAsAnnounced, StartsAsAnnounced, Explicit
<1> QED
  BY <1>1, <1>2, <1>3 DEF IInv

\* Where in its playlist a segment is that the playlist's numbers name.
LEMMA ServedAs ==
    ASSUME NEW t, IsTrak(t), NEW length, NEW es, Announces(t, length, 0, es),
           NEW k \in 1 .. Len(es), t.sync[0]
    PROVE  /\ es[k].from \in SampleNumbered(t, es[k].video)
           /\ es[k].to = NextCut(t, es[k].from, length)
<1>1. es[k].to = NextCut(t, es[k].from, length)
  BY DEF Announces
<1>2. es[k].from \in SampleNumbered(t, es[k].video)
  BY AnnouncedStart
<1> QED
  BY <1>1, <1>2

\* What GetSegment adds to what the session has.
LEMMA SegmentAdds ==
    ASSUME IInv, NEW s \in Sessions, NEW w \in Workers, GetSegment(s, w)
    PROVE  \E r \in SampleRange :
             /\ delivered' = [delivered EXCEPT ![s] = Append(@, r)]
             /\ r.first < r.last /\ r.first <= r.end /\ r.end <= r.last
             /\ VideoFirst =>
                  /\ r.track = 0 /\ r.first = list[s][Len(delivered[s]) + 1].from
                  /\ r.last <= movie[1].size
                  /\ s \in Explicit => r.last = list[s][Len(delivered[s]) + 1].to
                  /\ WholeSession(s) => r.end = r.last
<1> DEFINE k == Len(delivered[s]) + 1
           L == LengthAfter(w, Arg[s])
           n == list[s][k].video
           audio == AudioTrack(s)
<1>1. Types /\ movie \in Movies /\ IsTrak(movie[1])
  BY FileIs DEF IInv, Types
<1>2. PICK r \in Segment(n, L, audio) : delivered' = [delivered EXCEPT ![s] = Append(@, r)]
  BY DEF GetSegment, Wanted
<1> HIDE DEF n, L, audio
<1>3. /\ r \in SampleRange /\ r.track \in TrackIds
      /\ r.first < r.last /\ r.last <= Trak(r.track).size
      /\ r.first <= r.end /\ r.end <= r.last
  BY <1>1, <1>2, SegmentType
<1>4. k \in 1 .. Len(list[s]) /\ list[s] # NoList
  <2>1. delivered[s] \in Seq(SampleRange) /\ list[s] \in Seq(Announcement)
    BY <1>1 DEF Types
  <2>2. Len(delivered[s]) < Len(list[s])
    BY DEF GetSegment, WantsSegment
  <2>3. Len(delivered[s]) \in Nat /\ Len(list[s]) \in Nat
    BY <2>1
  <2> QED
    BY <2>2, <2>3 DEF NoList
<1>5. ASSUME VideoFirst
      PROVE  /\ r.track = 0 /\ r.first = list[s][k].from
             /\ r.last = NextCut(movie[1], list[s][k].from, L % UIntRange)
             /\ SentWhole(audio) => r.end = r.last
  <2>1. PICK length \in Nat : list[s] = Entries(movie[1], length)
    BY <1>4 DEF IInv, ListKnown
  <2>2. Announces(movie[1], length, 0, list[s])
    BY <2>1, <1>1, EntriesIsList
  <2>3. PICK t, es, kk : t = movie[1] /\ es = list[s] /\ kk = k
    OBVIOUS
  <2>4. IsTrak(t) /\ Announces(t, length, 0, es) /\ kk \in 1 .. Len(es) /\ t.sync[0]
    BY <1>1, <1>4, <1>5, <2>2, <2>3 DEF VideoFirst
  <2>5. es[kk].from \in SampleNumbered(t, es[kk].video)
    BY ONLY <2>4, ServedAs
  <2>6. list[s][k].from \in SampleNumbered(movie[1], n)
    BY <2>3, <2>5 DEF n
  <2> QED
    BY <1>1, <1>2, <1>5, <2>6, SegmentIs DEF VideoFirst
<1>6. ASSUME VideoFirst, s \in Explicit PROVE r.last = list[s][k].to
  <2>1. Arg[s] \in Nat /\ L % UIntRange = Arg[s]
    BY <1>6, ArgType DEF LengthAfter, L
  <2>2. list[s] = Entries(movie[1], Arg[s])
    BY <1>4, <1>6 DEF IInv, ListOfArg
  <2>3. Announces(movie[1], Arg[s], 0, list[s])
    BY <2>1, <2>2, <1>1, EntriesIsList
  <2>4. PICK t, es, kk, length : t = movie[1] /\ es = list[s] /\ kk = k /\ length = Arg[s]
    OBVIOUS
  <2>5. IsTrak(t) /\ Announces(t, length, 0, es) /\ kk \in 1 .. Len(es) /\ t.sync[0]
    BY <1>1, <1>4, <1>6, <2>3, <2>4 DEF VideoFirst
  <2>6. es[kk].to = NextCut(t, es[kk].from, length)
    BY ONLY <2>5, ServedAs
  <2> QED
    BY <1>5, <1>6, <2>1, <2>4, <2>6
<1>7. VideoFirst => r.last <= movie[1].size
  BY <1>1, <1>3, <1>5, MovieFacts
<1>8. WholeSession(s) => SentWhole(audio)
  BY DEF WholeSession, SentWhole, audio
<1> QED
  BY <1>2, <1>3, <1>5, <1>6, <1>7, <1>8

\* What is neither the playlists nor the segments of a session does not matter.
LEMMA OnlyConf ==
    ASSUME IInv, UNCHANGED <<movie, list, delivered>>, conf' \in [Workers -> Nat]
    PROVE  IInv'
<1>1. Types'
  BY DEF IInv, Types
<1>2. ListKnown' /\ ListOfArg' /\ NotAhead' /\ EndsInside'
  BY DEF IInv, ListKnown, ListOfArg, NotAhead, EndsInside, Explicit
<1>3. AnsweredAsAnnounced' /\ StartsAsAnnounced'
  BY DEF IInv, AnsweredAsAnnounced, StartsAsAnnounced, Explicit, VideoFirst, WholeSession, Trak, TrackIds
<1> QED
  BY <1>1, <1>2, <1>3 DEF IInv

LEMMA PlaylistStep ==
    ASSUME IInv, NEW s \in Sessions, NEW w \in Workers, GetPlaylist(s, w)
    PROVE  IInv'
<1> DEFINE L == LengthAfter(w, Arg[s])
           new == Entries(movie[1], L)
<1>1. /\ list[s] = NoList
      /\ list' = [list EXCEPT ![s] = new]
      /\ UNCHANGED <<movie, delivered>>
      /\ SetOptions(w, Arg[s])
  BY DEF GetPlaylist
<1>2. L \in Nat /\ conf' \in [Workers -> Nat] /\ Types
  BY <1>1, ArgType, LengthType DEF IInv
<1>3. new \in Seq(Announcement) /\ list' \in [Sessions -> Seq(Announcement)]
  BY <1>1, <1>2, EntriesIsList DEF Types
<1>4. Types'
  BY <1>1, <1>2, <1>3 DEF Types
<1>5. \A r \in Sessions : list'[r] = IF r = s THEN new ELSE list[r]
  BY <1>1, <1>2 DEF Types
<1>6. delivered[s] = <<>> /\ Len(delivered[s]) = 0
  <2>1. delivered[s] \in Seq(SampleRange)
    BY <1>2 DEF Types
  <2>2. Len(delivered[s]) <= Len(NoList)
    BY <1>1 DEF IInv, NotAhead
  <2> QED
    BY <2>1, <2>2 DEF NoList
<1>7. ListKnown'
  BY <1>1, <1>2, <1>5 DEF IInv, ListKnown
<1>8. ListOfArg'
  <2> SUFFICES ASSUME NEW r \in Explicit PROVE list'[r] = NoList \/ list'[r] = Entries(movie[1], Arg[r])
    BY <1>1 DEF ListOfArg, Explicit
  <2>1. CASE r = s
    <3>1. L = Arg[s]
      BY <2>1, ArgType DEF LengthAfter
    <3> QED
      BY <2>1, <3>1, <1>5
  <2>2. CASE r # s
    BY <2>2, <1>5, ArgType DEF IInv, ListOfArg
  <2> QED
    BY <2>1, <2>2
<1>9. NotAhead'
  <2> SUFFICES ASSUME NEW r \in Sessions PROVE Len(delivered[r]) <= Len(list'[r])
    BY <1>1 DEF NotAhead
  <2>1. CASE r = s
    <3>1. Len(new) \in Nat
      BY <1>3
    <3> HIDE DEF new
    <3> QED
      BY <2>1, <3>1, <1>5, <1>6
  <2>2. CASE r # s
    BY <2>2, <1>5 DEF IInv, NotAhead
  <2> QED
    BY <2>1, <2>2
<1>10. \A r \in Sessions : \A k \in 1 .. Len(delivered[r]) : list'[r] = list[r]
  BY <1>5, <1>6
<1> HIDE DEF new, L
<1>11. AnsweredAsAnnounced' /\ StartsAsAnnounced'
  <2>1. VideoFirst' = VideoFirst /\ Explicit' = Explicit /\ Explicit \subseteq Sessions
        /\ \A q : WholeSession(q)' = WholeSession(q)
    BY <1>1, ArgType DEF VideoFirst, Explicit, WholeSession, Trak, TrackIds
  <2>2. StartsAsAnnounced'
    <3> SUFFICES ASSUME VideoFirst, NEW q \in Sessions, NEW k \in 1 .. Len(delivered[q])
                 PROVE  delivered[q][k].track = 0 /\ delivered[q][k].first = list'[q][k].from
      BY <1>1, <2>1 DEF StartsAsAnnounced
    <3> QED
      BY <1>10 DEF IInv, StartsAsAnnounced
  <2>3. AnsweredAsAnnounced'
    <3> SUFFICES ASSUME VideoFirst, NEW q \in Explicit, NEW k \in 1 .. Len(delivered[q])
                 PROVE  LET d == delivered[q][k]
                        IN  /\ d.track = 0 /\ d.first = list'[q][k].from /\ d.last = list'[q][k].to
                            /\ WholeSession(q) => d.end = d.last
      BY <1>1, <2>1 DEF AnsweredAsAnnounced
    <3>1. list'[q] = list[q]
      BY <1>10, <2>1
    <3> QED
      BY <3>1 DEF IInv, AnsweredAsAnnounced
  <2> QED
    BY <2>2, <2>3
<1>12. EndsInside'
  BY <1>1 DEF IInv, EndsInside
<1> QED
  BY <1>4, <1>7, <1>8, <1>9, <1>11, <1>12 DEF IInv

LEMMA SegmentStep ==
    ASSUME IInv, NEW s \in Sessions, NEW w \in Workers, GetSegment(s, w)
    PROVE  IInv'
<1> DEFINE n == Len(delivered[s])
<1>1. UNCHANGED <<movie, list>> /\ SetOptions(w, Arg[s]) /\ Len(delivered[s]) < Len(list[s])
  BY DEF GetSegment, WantsSegment
<1>2. PICK r \in SampleRange :
        /\ delivered' = [delivered EXCEPT ![s] = Append(@, r)]
        /\ r.first < r.last /\ r.first <= r.end /\ r.end <= r.last
        /\ VideoFirst =>
             /\ r.track = 0 /\ r.first = list[s][n + 1].from
             /\ s \in Explicit => r.last = list[s][n + 1].to
             /\ WholeSession(s) => r.end = r.last
  BY SegmentAdds
<1>3. Types /\ conf' \in [Workers -> Nat]
  BY <1>1, ArgType, LengthType DEF IInv
<1>4. delivered[s] \in Seq(SampleRange) /\ n \in Nat /\ Len(list[s]) \in Nat
  BY <1>3 DEF Types
<1>5. /\ delivered'[s] \in Seq(SampleRange)
      /\ Len(delivered'[s]) = n + 1
      /\ delivered'[s][n + 1] = r
      /\ \A k \in 1 .. n : delivered'[s][k] = delivered[s][k]
  <2>1. delivered'[s] = Append(delivered[s], r)
    BY <1>2, <1>3 DEF Types
  <2> QED
    BY <2>1, <1>4
<1>6. \A q \in Sessions : q # s => delivered'[q] = delivered[q]
  BY <1>2, <1>3 DEF Types
<1>7. Types'
  BY <1>1, <1>2, <1>3, <1>5 DEF Types
<1>8. ListKnown' /\ ListOfArg'
  BY <1>1 DEF IInv, ListKnown, ListOfArg, Explicit
<1>9. NotAhead'
  BY <1>1, <1>4, <1>5, <1>6 DEF IInv, NotAhead
<1>10. VideoFirst' = VideoFirst /\ Explicit' = Explicit /\ Explicit \subseteq Sessions
       /\ \A q : WholeSession(q)' = WholeSession(q)
  BY <1>1, ArgType DEF VideoFirst, Explicit, WholeSession, Trak, TrackIds
<1>11. ASSUME NEW q \in Sessions, NEW k \in 1 .. Len(delivered'[q])
       PROVE  \/ k \in 1 .. Len(delivered[q]) /\ delivered'[q][k] = delivered[q][k]
              \/ q = s /\ k = n + 1 /\ delivered'[q][k] = r
  <2>1. CASE q # s
    BY <2>1, <1>6
  <2>2. CASE q = s
    BY <2>2, <1>4, <1>5
  <2> QED
    BY <2>1, <2>2
<1>12. AnsweredAsAnnounced'
  <2> SUFFICES ASSUME VideoFirst, NEW q \in Explicit, NEW k \in 1 .. Len(delivered'[q])
               PROVE  LET d == delivered'[q][k]
                      IN  /\ d.track = 0 /\ d.first = list[q][k].from /\ d.last = list[q][k].to
                          /\ WholeSession(q) => d.end = d.last
    BY <1>1, <1>10 DEF AnsweredAsAnnounced
  <2>1. q \in Sessions
    BY <1>10
  <2>2. CASE k \in 1 .. Len(delivered[q]) /\ delivered'[q][k] = delivered[q][k]
    BY <2>2 DEF IInv, AnsweredAsAnnounced
  <2>3. CASE q = s /\ k = n + 1 /\ delivered'[q][k] = r
    BY <2>3, <1>2
  <2> QED
    BY <2>1, <2>2, <2>3, <1>11
<1>13. StartsAsAnnounced'
  <2> SUFFICES ASSUME VideoFirst, NEW q \in Sessions, NEW k \in 1 .. Len(delivered'[q])
               PROVE  delivered'[q][k].track = 0 /\ delivered'[q][k].first = list[q][k].from
    BY <1>1, <1>10 DEF StartsAsAnnounced
  <2>2. CASE k \in 1 .. Len(delivered[q]) /\ delivered'[q][k] = delivered[q][k]
    BY <2>2 DEF IInv, StartsAsAnnounced
  <2>3. CASE q = s /\ k = n + 1 /\ delivered'[q][k] = r
    BY <2>3, <1>2
  <2> QED
    BY <2>2, <2>3, <1>11
<1>14. EndsInside'
  <2> SUFFICES ASSUME NEW q \in Sessions, NEW k \in 1 .. Len(delivered'[q])
               PROVE  LET d == delivered'[q][k] IN d.first < d.last /\ d.first <= d.end /\ d.end <= d.last
    BY DEF EndsInside
  <2>2. CASE k \in 1 .. Len(delivered[q]) /\ delivered'[q][k] = delivered[q][k]
    BY <2>2 DEF IInv, EndsInside
  <2>3. CASE q = s /\ k = n + 1 /\ delivered'[q][k] = r
    BY <2>3, <1>2
  <2> QED
    BY <2>2, <2>3, <1>11
<1> QED
  BY <1>7, <1>8, <1>9, <1>12, <1>13, <1>14 DEF IInv

LEMMA NextIInv == IInv /\ [Next]_vars => IInv'
<1> SUFFICES ASSUME IInv, [Next]_vars PROVE IInv'
  OBVIOUS
<1>1. ASSUME NEW w \in Workers, NEW s \in Sessions, GetPlaylist(s, w) PROVE IInv'
  BY <1>1, PlaylistStep
<1>2. ASSUME NEW w \in Workers, NEW s \in Sessions, GetSegment(s, w) PROVE IInv'
  BY <1>2, SegmentStep
<1>3. ASSUME NEW w \in Workers, NEW s \in Sessions, SegmentFails(s, w) PROVE IInv'
  <2>1. conf' \in [Workers -> Nat] /\ UNCHANGED <<movie, list, delivered>>
    BY <1>3, ArgType, LengthType DEF SegmentFails, IInv
  <2> QED
    BY <2>1, OnlyConf
<1>4. ASSUME NEW w \in Workers, OtherRequest(w) PROVE IInv'
  <2>1. PICK arg \in OtherArgs : SetOptions(w, arg)
    BY <1>4 DEF OtherRequest
  <2>2. arg \in Nat
    BY LengthsAssumption
  <2>3. conf' \in [Workers -> Nat] /\ UNCHANGED <<movie, list, delivered>>
    BY <1>4, <2>1, <2>2, LengthType DEF OtherRequest, IInv
  <2> QED
    BY <2>3, OnlyConf
<1>5. ASSUME NEW w \in Workers, Restart(w) PROVE IInv'
  <2>1. conf' \in [Workers -> Nat] /\ UNCHANGED <<movie, list, delivered>>
    BY <1>5, LengthsAssumption DEF Restart, IInv, Types
  <2> QED
    BY <2>1, OnlyConf
<1>6. CASE UNCHANGED vars
  BY <1>6, OnlyConf DEF vars, IInv, Types
<1> QED
  BY <1>1, <1>2, <1>3, <1>4, <1>5, <1>6 DEF Next

THEOREM InvariantHolds == Spec => []IInv
<1> QED
  BY InitIInv, NextIInv, PTL DEF Spec

-------------------------------------------------------------------------------
\* When the first track is video, a player that names its length gets segments of
\* it with the bounds its playlist announced, handed to the muxer to their last
\* samples if the sound keeps up, whichever workers answer and whatever they were
\* asked before.
THEOREM SegmentsAsAnnounced == Spec => []AnsweredAsAnnounced
<1>1. IInv => AnsweredAsAnnounced
  BY DEF IInv
<1> QED
  BY <1>1, InvariantHolds, PTL

\* When the first track is video, any player gets segments of it that start where
\* its playlist announced them.
THEOREM SegmentsStartAsAnnounced == Spec => []StartsAsAnnounced
<1>1. IInv => StartsAsAnnounced
  BY DEF IInv
<1> QED
  BY <1>1, InvariantHolds, PTL

-------------------------------------------------------------------------------
(* The service implements Playback. *)

At == [s \in Explicit |-> IF ~ VideoFirst \/ delivered[s] = <<>> THEN 0
                          ELSE delivered[s][Len(delivered[s])].last]
Out == [s \in Explicit |-> IF VideoFirst THEN Pieces(s) ELSE <<>>]
Whole == [s \in Explicit |-> WholeSession(s)]

\* The entry a session asks for next starts where its last segment was to end.
LEMMA NextFrom ==
    ASSUME IInv, VideoFirst, NEW s \in Explicit, Len(delivered[s]) < Len(list[s])
    PROVE  list[s][Len(delivered[s]) + 1].from = At[s]
<1> DEFINE n == Len(delivered[s])
<1>1. /\ Types /\ movie \in Movies /\ s \in Sessions
      /\ delivered[s] \in Seq(SampleRange) /\ list[s] \in Seq(Announcement)
      /\ n \in Nat /\ Len(list[s]) \in Nat
  BY ArgType DEF IInv, Types
<1>2. list[s] # NoList
  BY <1>1 DEF NoList
<1>3. list[s] = Entries(movie[1], Arg[s]) /\ Arg[s] \in Nat
  BY <1>2, ArgType DEF IInv, ListOfArg
<1>4. Announces(movie[1], Arg[s], 0, list[s])
  BY <1>1, <1>3, EntriesIsList
<1>5. CASE n = 0
  <2>1. delivered[s] = <<>> /\ At[s] = 0
    BY <1>1, <1>5 DEF At
  <2>2. list[s][1].from = 0
    BY <1>2, <1>4 DEF Announces, NoList
  <2> QED
    BY <1>5, <2>1, <2>2
<1>6. CASE n # 0
  <2>1. n \in 1 .. n /\ n \in 1 .. Len(list[s]) - 1 /\ delivered[s] # <<>>
    BY <1>1, <1>6
  <2>2. At[s] = delivered[s][n].last
    BY <2>1 DEF At
  <2>3. delivered[s][n].last = list[s][n].to
    BY <2>1 DEF IInv, AnsweredAsAnnounced
  <2>4. list[s][n + 1].from = list[s][n].to
    BY <2>1, <1>4 DEF Announces
  <2> QED
    BY <2>2, <2>3, <2>4
<1> QED
  BY <1>5, <1>6

\* Only a segment changes what anyone has received.
LEMMA OnlySegmentsPlay ==
    ASSUME [Next]_vars
    PROVE  \/ UNCHANGED <<movie, delivered>>
           \/ \E w \in Workers : \E s \in Sessions : GetSegment(s, w)
BY DEF Next, vars, GetPlaylist, SegmentFails, OtherRequest, Restart

LEMMA StaysTrue ==
    ASSUME UNCHANGED movie
    PROVE  /\ VideoFirst' = VideoFirst /\ Explicit' = Explicit /\ UNCHANGED Whole
           /\ Explicit \subseteq Sessions
<1>1. VideoFirst' = VideoFirst /\ Explicit' = Explicit /\ Explicit \subseteq Sessions
  BY DEF VideoFirst, Explicit
<1>2. \A q : WholeSession(q)' = WholeSession(q)
  BY DEF WholeSession, Trak, TrackIds
<1> QED
  BY <1>1, <1>2 DEF Whole

\* A table over 1 .. n is a sequence of length n.
LEMMA TableIsSequence ==
    ASSUME NEW S, NEW n \in Nat, NEW f \in [1 .. n -> S]
    PROVE  f \in Seq(S) /\ Len(f) = n
  <1>1. f \in Seq(S)
    BY SeqDef
  <1> QED
    BY <1>1, LenProperties

\* A segment adds a piece from where the one before was to end.
LEMMA SegmentPlays ==
    ASSUME IInv, NEW s \in Sessions, NEW w \in Workers, GetSegment(s, w)
    PROVE  /\ UNCHANGED <<movie, Whole>>
           /\ \/ UNCHANGED <<At, Out>>
              \/ /\ s \in Explicit
                 /\ \E n \in At[s] + 1 .. movie[1].size : \E e \in At[s] .. n :
                      /\ Whole[s] => e = n
                      /\ At' = [At EXCEPT ![s] = n]
                      /\ Out' = [Out EXCEPT ![s] = Append(@, [from |-> At[s], to |-> e])]
<1>1. UNCHANGED <<movie, list>> /\ Len(delivered[s]) < Len(list[s])
  BY DEF GetSegment, WantsSegment
<1>2. PICK r \in SampleRange :
        /\ delivered' = [delivered EXCEPT ![s] = Append(@, r)]
        /\ r.first < r.last /\ r.first <= r.end /\ r.end <= r.last
        /\ VideoFirst =>
             /\ r.track = 0 /\ r.first = list[s][Len(delivered[s]) + 1].from
             /\ r.last <= movie[1].size
             /\ WholeSession(s) => r.end = r.last
  BY SegmentAdds
<1>3. /\ Types /\ movie[1].size \in Nat
      /\ delivered[s] \in Seq(SampleRange) /\ delivered'[s] = Append(delivered[s], r)
      /\ \A q \in Sessions : q # s => delivered'[q] = delivered[q]
  BY <1>2, FileIs DEF IInv, Types
<1>4. /\ Len(delivered[s]) \in Nat /\ Len(delivered'[s]) = Len(delivered[s]) + 1
      /\ delivered'[s][Len(delivered[s]) + 1] = r /\ delivered'[s] # <<>>
      /\ \A k \in 1 .. Len(delivered[s]) : delivered'[s][k] = delivered[s][k]
  BY <1>3
<1>5. VideoFirst' = VideoFirst /\ Explicit' = Explicit /\ UNCHANGED Whole /\ Explicit \subseteq Sessions
  BY <1>1, StaysTrue
<1>6. \A q \in Explicit : q # s => Pieces(q)' = Pieces(q)
  BY <1>3, <1>5 DEF Pieces
<1>7. CASE ~ VideoFirst
  BY <1>1, <1>5, <1>7 DEF At, Out
<1>8. CASE s \notin Explicit
  BY <1>1, <1>3, <1>5, <1>6, <1>8 DEF At, Out
<1>9. CASE VideoFirst /\ s \in Explicit
  <2>1. r.first = At[s]
    BY <1>1, <1>2, <1>9, NextFrom
  <2>2. r.last \in At[s] + 1 .. movie[1].size /\ r.end \in At[s] .. r.last
    BY <2>1, <1>2, <1>3, <1>9 DEF SampleRange
  <2>3. Whole[s] => r.end = r.last
    BY <1>2, <1>9 DEF Whole
  <2>4. At' = [At EXCEPT ![s] = r.last]
    <3>1. \A q \in Explicit : At'[q] = IF q = s THEN r.last ELSE At[q]
      <4> SUFFICES ASSUME NEW q \in Explicit PROVE At'[q] = IF q = s THEN r.last ELSE At[q]
        OBVIOUS
      <4>1. CASE q = s
        BY <4>1, <1>4, <1>5, <1>9 DEF At
      <4>2. CASE q # s
        <5>1. delivered'[q] = delivered[q]
          BY <4>2, <1>3, <1>5
        <5> QED
          BY <4>2, <5>1, <1>5 DEF At
      <4> QED
        BY <4>1, <4>2
    <3>2. At = [q \in Explicit |-> At[q]] /\ At' = [q \in Explicit |-> At'[q]]
      BY <1>5 DEF At
    <3> QED
      BY <3>1, <3>2
  <2>5. Pieces(s)' = Append(Pieces(s), [from |-> r.first, to |-> r.end])
    <3> DEFINE P == Pieces(s)
               x == [from |-> r.first, to |-> r.end]
               Piece == [from : Nat, to : Nat]
               n == Len(delivered[s])
    <3>1. x \in Piece /\ n \in Nat
      BY <1>4 DEF SampleRange
    <3>2. P \in [1 .. n -> Piece]
      <4>1. \A k \in 1 .. n : delivered[s][k] \in SampleRange
        BY <1>3
      <4> QED
        BY <4>1 DEF Pieces, SampleRange
    <3>3. P \in Seq(Piece) /\ Len(P) = n
      BY <3>1, <3>2, TableIsSequence
    <3>4. Pieces(s)' = [k \in 1 .. n + 1 |-> IF k <= n THEN P[k] ELSE x]
      <4>1. \A k \in 1 .. n + 1 : k <= n => k \in 1 .. n
        BY <3>1
      <4>2. \A k \in 1 .. n + 1 : ~ (k <= n) => k = n + 1
        BY <3>1
      <4>3. \A k \in 1 .. n : P[k] = [from |-> delivered[s][k].first, to |-> delivered[s][k].end]
        BY DEF Pieces
      <4>4. Pieces(s)' = [k \in 1 .. n + 1 |->
                            [from |-> delivered'[s][k].first, to |-> delivered'[s][k].end]]
        BY <1>4 DEF Pieces
      <4> HIDE DEF P, n
      <4> QED
        BY <4>1, <4>2, <4>3, <4>4, <1>4 DEF n
    <3> HIDE DEF P, x, n, Piece
    <3>5. Append(P, x) \in Seq(Piece) /\ Len(Append(P, x)) = n + 1
          /\ \A k \in 1 .. n + 1 : Append(P, x)[k] = IF k <= n THEN P[k] ELSE x
      BY <3>1, <3>3, AppendProperties
    <3>6. Append(P, x) = [k \in 1 .. n + 1 |-> IF k <= n THEN P[k] ELSE x]
      <4>1. DOMAIN Append(P, x) = 1 .. n + 1 /\ Append(P, x) = [k \in DOMAIN Append(P, x) |-> Append(P, x)[k]]
        BY <3>5, LenProperties, SeqDef
      <4> QED
        BY <3>5, <4>1
    <3> QED
      BY <3>4, <3>6 DEF P, x
  <2>6. Out' = [Out EXCEPT ![s] = Append(@, [from |-> At[s], to |-> r.end])]
    <3>1. \A q \in Explicit : Pieces(q)' = IF q = s THEN Append(Pieces(q), [from |-> At[s], to |-> r.end])
                                                    ELSE Pieces(q)
      BY <1>6, <2>1, <2>5
    <3>2. /\ Out = [q \in Explicit |-> Pieces(q)]
          /\ Out' = [q \in Explicit |-> Pieces(q)']
      BY <1>5, <1>9 DEF Out
    <3> QED
      BY <1>9, <3>1, <3>2
  <2> QED
    BY <1>1, <1>5, <1>9, <2>2, <2>3, <2>4, <2>6
<1> QED
  BY <1>7, <1>8, <1>9

LEMMA InitPlays == Init => PB!Init
<1> SUFFICES ASSUME Init PROVE PB!Init
  OBVIOUS
<1>1. movie \in Movies /\ \A s \in Explicit : delivered[s] = <<>>
  BY DEF Init, Explicit
<1>2. \A s \in Explicit : Pieces(s) = <<>>
  BY <1>1 DEF Pieces
<1>3. \A s \in Explicit : WholeSession(s) \in BOOLEAN
  BY DEF WholeSession
<1>4. movie[1].size \in {m[1].size : m \in Movies}
  BY <1>1
<1>5. Whole \in [Explicit -> BOOLEAN]
  BY <1>3 DEF Whole
<1>6. At = [s \in Explicit |-> 0] /\ Out = [s \in Explicit |-> <<>>]
  BY <1>1, <1>2 DEF At, Out
<1> QED
  BY <1>4, <1>5, <1>6 DEF PB!Init, At, Out, Whole

LEMMA NextPlays == IInv /\ [Next]_vars => [PB!Next]_PB!vars
<1> SUFFICES ASSUME IInv, [Next]_vars PROVE [PB!Next]_PB!vars
  OBVIOUS
<1>1. CASE UNCHANGED <<movie, delivered>>
  <2>1. UNCHANGED <<movie, At, Out, Whole>>
    BY <1>1, StaysTrue DEF At, Out, Pieces
  <2> QED
    BY <2>1 DEF PB!vars, At, Out, Whole
<1>2. CASE \E w \in Workers : \E s \in Sessions : GetSegment(s, w)
  <2>1. PICK w \in Workers, s \in Sessions : GetSegment(s, w)
    BY <1>2
  <2>2. /\ UNCHANGED <<movie, Whole>>
        /\ \/ UNCHANGED <<At, Out>>
           \/ /\ s \in Explicit
              /\ \E n \in At[s] + 1 .. movie[1].size : \E e \in At[s] .. n :
                   /\ Whole[s] => e = n
                   /\ At' = [At EXCEPT ![s] = n]
                   /\ Out' = [Out EXCEPT ![s] = Append(@, [from |-> At[s], to |-> e])]
    BY <2>1, SegmentPlays
  <2>3. CASE UNCHANGED <<At, Out>>
    BY <2>2, <2>3 DEF PB!vars, At, Out, Whole
  <2>4. CASE ~ UNCHANGED <<At, Out>>
    BY <2>2, <2>4 DEF PB!Next, PB!Play, PB!vars, At, Out, Whole
  <2> QED
    BY <2>3, <2>4
<1> QED
  BY <1>1, <1>2, OnlySegmentsPlay

\* When the first track is video, the segments of a player that names its length
\* are pieces of it in order, each from where the one before was to end, and
\* whole ones if the sound keeps up, as far as the player has fetched them.
THEOREM ServicePlays == Spec => PlaysInOrder
<1> QED
  BY NextPlays, InitPlays, InvariantHolds, PTL DEF Spec, PlaysInOrder

===============================================================================
