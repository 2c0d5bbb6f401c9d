---------------------------- MODULE Playlist_proof ----------------------------
(***************************************************************************)
(* Playlist, for every set of tracks and lengths: the playlist covers the  *)
(* track, output_ts serves every entry as announced, no URL repeats and    *)
(* #EXT-X-TARGETDURATION holds when key frames are close enough.           *)
(***************************************************************************)
EXTENDS Playlist, Segmentation_proof

-------------------------------------------------------------------------------
(* The inductive invariant. *)

\* Where the pointers stand, and what the two counters count.
Pointers ==
    /\ prev <= cur
    /\ cur = 0 => entries = <<>>
    /\ cur > 0 => prev < cur
    /\ i = SyncOrdinal(trak, cur)
    /\ prev_i = SyncOrdinal(trak, prev)
    /\ trak.sync[0] => trak.sync[prev]

\* Between prev and cur the loop has passed over no sample that ends a segment.
NoCutPassed == \A c \in prev + 1 .. cur - 1 : ~ IsCut(trak, prev, c, length)

\* The sync sample met last: it is prev, or it is less than length after prev.
LastSync(p) ==
    /\ p \in prev .. cur - 1
    /\ trak.sync[p]
    /\ \A c \in p + 1 .. cur - 1 : ~ trak.sync[c]
    /\ p = prev \/ ~ LongEnough(trak, prev, p, length)

LastSyncKnown == trak.sync[0] /\ cur > 0 => \E p \in Nat : LastSync(p)

\* Each entry ends at the first cut behind its start, and has the number of its
\* start, whether or not that is a sync sample.
EntriesCut ==
    \A k \in 1 .. Len(entries) :
        /\ entries[k].to = NextCut(trak, entries[k].from, length)
        /\ entries[k].video = SyncOrdinal(trak, entries[k].from)

\* Entries are in the order of the track, all of them before prev.
EntriesOrdered ==
    /\ \A k \in 1 .. Len(entries) : entries[k].to <= prev
    /\ \A k, m \in 1 .. Len(entries) : k < m => entries[k].to <= entries[m].from

IInv ==
    /\ TypeOK
    /\ EntriesTile
    /\ EntriesServed
    /\ TargetDuration
    /\ Pointers
    /\ NoCutPassed
    /\ LastSyncKnown
    /\ EntriesCut
    /\ EntriesOrdered

-------------------------------------------------------------------------------
LEMMA InitIInv == Init => IInv
<1> SUFFICES ASSUME Init PROVE IInv
  OBVIOUS
<1> USE DEF Init
<1>1. trak \in Traks /\ IsTrak(trak) /\ trak.size \in Nat /\ trak.sync \in [0 .. trak.size -> BOOLEAN]
  BY TraksAssumption DEF IsTrak
<1>2. length \in Nat
  BY LengthsAssumption
<1>3. TypeOK
  BY <1>1, <1>2 DEF TypeOK, last, Entry
<1>4. EntriesTile /\ EntriesServed /\ TargetDuration /\ EntriesOrdered
  BY <1>1 DEF EntriesTile, EntriesServed, TargetDuration, EntriesOrdered
<1>e. EntriesCut
  BY DEF EntriesCut
<1>5. Pointers
  BY <1>1, SyncOrdinalZero DEF Pointers
<1>6. NoCutPassed /\ LastSyncKnown
  BY DEF NoCutPassed, LastSyncKnown
<1> QED
  BY <1>3, <1>4, <1>e, <1>5, <1>6 DEF IInv

LEMMA ThreeMore ==
    ASSUME NEW a \in Nat, NEW b \in Nat
    PROVE  (a + 3) * b = a * b + 3 * b
OBVIOUS

\* The next sync sample is not more than 3 seconds after the one met last, so
\* an entry that ends there is not longer than length + 3.
LEMMA EntryNotTooLong ==
    ASSUME TypeOK, cur <= trak.size, trak.sync[cur], SyncGapsAtMost(trak, 3),
           NEW p \in Nat, LastSync(p)
    PROVE  trak.pts[cur] - trak.pts[prev] <= (length + 3) * trak.timescale
<1> DEFINE ts == trak.timescale
           x == trak.pts[cur] - trak.pts[p]
           y == trak.pts[p] - trak.pts[prev]
<1>1. /\ trak.size \in Nat /\ ts \in Nat /\ ts > 0 /\ length \in Nat
      /\ cur \in 0 .. trak.size /\ prev \in 0 .. trak.size /\ p \in 0 .. trak.size
      /\ p < cur
      /\ trak.pts \in [0 .. trak.size -> Nat]
  BY DEF TypeOK, IsTrak, last, LastSync
<1>2. trak.pts[cur] \in Nat /\ trak.pts[prev] \in Nat /\ trak.pts[p] \in Nat
  BY <1>1
<1>3. x <= 3 * ts
  BY <1>1 DEF SyncGapsAtMost, LastSync
<1>4. y <= length * ts
  <2>1. CASE p = prev
    <3>1. length * ts >= 0
      BY <1>1
    <3> QED
      BY <2>1, <3>1, <1>2
  <2>2. CASE ~ LongEnough(trak, prev, p, length)
    <3>1. length * ts \in Nat
      BY <1>1
    <3>2. ~ (2000 * y + ts >= 2000 * (length * ts))
      BY <2>2 DEF LongEnough
    <3> HIDE DEF y
    <3>3. y \in Int
      BY <1>2 DEF y
    <3> QED
      BY <3>1, <3>2, <3>3, <1>1
  <2> QED
    BY <2>1, <2>2 DEF LastSync
<1>5. (length + 3) * ts = length * ts + 3 * ts
  BY <1>1, ThreeMore
<1>6. trak.pts[cur] - trak.pts[prev] = x + y
  BY <1>2
<1>7. x \in Int /\ y \in Int /\ length * ts \in Int /\ 3 * ts \in Int
  <2>1. length \in Int /\ ts \in Int
    BY <1>1
  <2>2. length * ts \in Int /\ 3 * ts \in Int
    BY ONLY <2>1
  <2> QED
    BY <1>2, <2>2
<1> HIDE DEF x, y
<1> QED
  BY <1>3, <1>4, <1>5, <1>6, <1>7

LEMMA NextIInv == IInv /\ [Next]_vars => IInv'
<1> SUFFICES ASSUME IInv, [Next]_vars
             PROVE  IInv'
  OBVIOUS
<1> USE DEF IInv
<1>t. /\ trak.size \in Nat
      /\ trak.sync \in [0 .. trak.size -> BOOLEAN]
      /\ trak.sync[trak.size]
      /\ last = trak.size + 1
      /\ cur \in Nat /\ prev \in Nat /\ i \in Nat /\ prev_i \in Nat
      /\ entries \in Seq(Entry)
  BY DEF TypeOK, IsTrak, last
<1>1. CASE SkipNonSync
  <2> USE <1>1 DEF SkipNonSync
  <2>1. cur \in 0 .. trak.size /\ trak.sync[cur] \in BOOLEAN
    BY <1>t DEF TypeOK
  <2>2. TypeOK'
    BY <1>t DEF TypeOK, last
  <2>3. EntriesTile' /\ EntriesServed' /\ TargetDuration' /\ EntriesCut' /\ EntriesOrdered'
    BY DEF EntriesTile, EntriesServed, TargetDuration, EntriesCut, EntriesOrdered
  <2>4. Pointers'
    <3>1. i' = SyncOrdinal(trak, cur')
      BY <1>t, <2>1, SyncOrdinalStep DEF Pointers
    <3> QED
      BY <1>t, <2>1, <3>1 DEF Pointers
  <2>5. NoCutPassed'
    BY <1>t, <2>1 DEF NoCutPassed, IsCut
  <2>6. LastSyncKnown'
    <3> SUFFICES ASSUME trak.sync[0] PROVE \E p \in Nat : LastSync(p)'
      BY DEF LastSyncKnown
    <3>1. cur > 0
      BY <1>t, <2>1
    <3>2. PICK p \in Nat : LastSync(p)
      BY <3>1 DEF LastSyncKnown
    <3>3. LastSync(p)'
      BY <1>t, <2>1, <3>2 DEF LastSync
    <3> QED
      BY <3>3
  <2> QED
    BY <2>2, <2>3, <2>4, <2>5, <2>6
<1>2. CASE PassSync
  <2> USE <1>2 DEF PassSync
  <2>1. cur \in 0 .. trak.size /\ trak.sync[cur] \in BOOLEAN
    BY <1>t DEF TypeOK
  <2>2. TypeOK'
    BY <1>t DEF TypeOK, last
  <2>3. EntriesTile' /\ EntriesServed' /\ TargetDuration' /\ EntriesCut' /\ EntriesOrdered'
    BY DEF EntriesTile, EntriesServed, TargetDuration, EntriesCut, EntriesOrdered
  <2>4. Pointers'
    <3>1. i' = SyncOrdinal(trak, cur')
      BY <1>t, <2>1, SyncOrdinalStep DEF Pointers
    <3> QED
      BY <1>t, <2>1, <3>1 DEF Pointers
  <2>5. NoCutPassed'
    BY <1>t, <2>1 DEF NoCutPassed, IsCut, EndsSegment
  <2>6. LastSyncKnown'
    <3>1. PICK p \in Nat : p = cur
      BY <1>t
    <3>2. p = prev \/ ~ LongEnough(trak, prev, p, length)
      BY <3>1 DEF EndsSegment
    <3>3. LastSync(p)'
      BY <1>t, <2>1, <3>1, <3>2 DEF LastSync, Pointers
    <3> QED
      BY <3>3 DEF LastSyncKnown
  <2> QED
    BY <2>2, <2>3, <2>4, <2>5, <2>6
<1>3. CASE WriteEntry
  <2> USE <1>3 DEF WriteEntry, WriteEntryNumbering
  <2> DEFINE e == [video |-> prev_i, from |-> prev, to |-> cur]
             n == Len(entries)
  <2>1. /\ cur \in 0 .. trak.size /\ trak.sync[cur] \in BOOLEAN
        /\ cur > 0 /\ prev < cur /\ prev \in 0 .. trak.size - 1
    BY <1>t DEF TypeOK, Pointers, EndsSegment
  <2>2. /\ n \in Nat
        /\ Len(entries') = n + 1
        /\ entries'[n + 1] = e
        /\ \A k \in 1 .. n : entries'[k] = entries[k] /\ entries[k] \in Entry
        /\ entries' \in Seq(Entry)
    <3>1. e \in Entry
      BY <1>t DEF Entry
    <3> HIDE DEF e
    <3>2. entries' = Append(entries, e)
      BY DEF e
    <3> QED
      BY <1>t, <3>1, <3>2
  <2>3. TypeOK'
    BY <1>t, <2>1, <2>2 DEF TypeOK, last
  <2>4. IsCut(trak, prev, cur, length)
    <3>1. cur \in prev + 1 .. trak.size
      BY <1>t, <2>1
    <3>2. cur + 1 = last => cur = trak.size
      BY <1>t, <2>1
    <3> QED
      BY <3>1, <3>2 DEF IsCut, EndsSegment
  <2>5. EntriesTile'
    <3>1. n = 0 <=> entries = <<>>
      BY <1>t
    <3>2. prev = IF n = 0 THEN 0 ELSE entries[n].to
      BY <3>1 DEF EntriesTile
    <3>3. ASSUME NEW k \in 1 .. n + 1
          PROVE  /\ entries'[k].from = IF k = 1 THEN 0 ELSE entries'[k - 1].to
                 /\ entries'[k].from < entries'[k].to
      <4>1. CASE k = n + 1
        BY <2>1, <2>2, <3>2, <4>1
      <4>2. CASE k \in 1 .. n
        BY <2>2, <4>2 DEF EntriesTile
      <4> QED
        BY <2>2, <4>1, <4>2
    <3>4. entries' # <<>>
      BY <2>2
    <3> QED
      BY <2>2, <3>3, <3>4 DEF EntriesTile
  <2>6. EntriesServed'
    <3> SUFFICES ASSUME trak.sync[0], NEW k \in 1 .. n + 1
                 PROVE  /\ entries'[k].from \in SampleNumbered(trak, entries'[k].video)
                        /\ entries'[k].to = NextCut(trak, entries'[k].from, length)
      BY <2>2 DEF EntriesServed
    <3>1. CASE k = n + 1
      <4>1. prev \in SampleNumbered(trak, prev_i)
        BY <2>1 DEF SampleNumbered, Pointers
      <4>2. NextCut(trak, prev, length) = cur
        BY <1>t, <2>4, NextCutIs DEF NoCutPassed
      <4> QED
        BY <2>2, <3>1, <4>1, <4>2
    <3>2. CASE k \in 1 .. n
      BY <2>2, <3>2 DEF EntriesServed
    <3> QED
      BY <2>2, <3>1, <3>2
  <2>12. EntriesCut'
    <3> SUFFICES ASSUME NEW k \in 1 .. n + 1
                 PROVE  /\ entries'[k].to = NextCut(trak, entries'[k].from, length)
                        /\ entries'[k].video = SyncOrdinal(trak, entries'[k].from)
      BY <2>2 DEF EntriesCut
    <3>1. CASE k = n + 1
      <4>1. NextCut(trak, prev, length) = cur
        BY <1>t, <2>4, NextCutIs DEF NoCutPassed
      <4> QED
        BY <2>2, <3>1, <4>1 DEF Pointers
    <3>2. CASE k \in 1 .. n
      BY <2>2, <3>2 DEF EntriesCut
    <3> QED
      BY <2>2, <3>1, <3>2
  <2>7. TargetDuration'
    <3> SUFFICES ASSUME SyncGapsAtMost(trak, 3), NEW k \in 1 .. n + 1
                 PROVE  trak.pts[entries'[k].to] - trak.pts[entries'[k].from]
                            <= (length + 3) * trak.timescale
      BY <2>2 DEF TargetDuration
    <3>1. CASE k = n + 1
      <4>1. PICK p \in Nat : LastSync(p)
        BY <2>1 DEF LastSyncKnown, SyncGapsAtMost
      <4> QED
        BY <1>t, <2>1, <2>2, <3>1, <4>1, EntryNotTooLong
    <3>2. CASE k \in 1 .. n
      BY <2>2, <3>2 DEF TargetDuration
    <3> QED
      BY <2>2, <3>1, <3>2
  <2>8. Pointers'
    <3>1. i' = SyncOrdinal(trak, cur')
      BY <1>t, <2>1, SyncOrdinalStep DEF Pointers
    <3> QED
      BY <1>t, <2>1, <2>2, <3>1 DEF Pointers
  <2>9. NoCutPassed'
    BY <1>t DEF NoCutPassed
  <2>10. LastSyncKnown'
    <3>1. PICK p \in Nat : p = cur
      BY <1>t
    <3>2. LastSync(p)'
      BY <1>t, <2>1, <3>1 DEF LastSync
    <3> QED
      BY <3>2 DEF LastSyncKnown
  <2>11. EntriesOrdered'
    <3>1. ASSUME NEW k \in 1 .. n + 1
          PROVE  entries'[k].to <= cur
      <4>1. CASE k = n + 1
        BY <2>1, <2>2, <4>1
      <4>2. CASE k \in 1 .. n
        <5>1. entries'[k] = entries[k] /\ entries[k].to \in Nat /\ entries[k].to <= prev
          BY <2>2, <4>2 DEF EntriesOrdered, Entry
        <5> QED
          BY <1>t, <2>1, <5>1
      <4> QED
        BY <2>2, <4>1, <4>2
    <3>2. ASSUME NEW k \in 1 .. n + 1, NEW m \in 1 .. n + 1, k < m
          PROVE  entries'[k].to <= entries'[m].from
      <4>1. k \in 1 .. n
        BY <2>2, <3>2
      <4>2. CASE m = n + 1
        BY <2>2, <4>1, <4>2 DEF EntriesOrdered
      <4>3. CASE m \in 1 .. n
        BY <2>2, <3>2, <4>1, <4>3 DEF EntriesOrdered
      <4> QED
        BY <2>2, <4>2, <4>3
    <3> QED
      BY <2>2, <3>1, <3>2 DEF EntriesOrdered
  <2> QED
    BY <2>3, <2>5, <2>6, <2>7, <2>8, <2>9, <2>10, <2>11, <2>12
<1>4. CASE Finish
  <2> USE <1>4 DEF Finish
  <2>1. prev = trak.size
    <3>1. CASE prev < trak.size
      <4>1. trak.size \in prev + 1 .. cur - 1
        BY <1>t, <3>1
      <4>2. IsCut(trak, prev, trak.size, length)
        BY <1>t, <4>1 DEF IsCut
      <4> QED
        BY <4>1, <4>2 DEF NoCutPassed
    <3> QED
      BY <1>t, <3>1 DEF TypeOK
  <2>2. TypeOK'
    BY DEF TypeOK, last
  <2>3. EntriesTile'
    BY <2>1 DEF EntriesTile
  <2>4. EntriesServed' /\ TargetDuration' /\ EntriesCut' /\ EntriesOrdered' /\ Pointers' /\ NoCutPassed'
    BY DEF EntriesServed, TargetDuration, EntriesCut, EntriesOrdered, Pointers, NoCutPassed
  <2>5. LastSyncKnown'
    BY DEF LastSyncKnown, LastSync
  <2> QED
    BY <2>2, <2>3, <2>4, <2>5
<1>5. CASE UNCHANGED vars
  <2> USE <1>5 DEF vars
  <2>1. TypeOK'
    BY DEF TypeOK, last
  <2>2. EntriesTile' /\ EntriesServed' /\ TargetDuration' /\ EntriesCut' /\ EntriesOrdered' /\ Pointers' /\ NoCutPassed'
    BY DEF EntriesTile, EntriesServed, TargetDuration, EntriesCut, EntriesOrdered, Pointers, NoCutPassed
  <2>3. LastSyncKnown'
    BY DEF LastSyncKnown, LastSync
  <2> QED
    BY <2>1, <2>2, <2>3
<1> QED
  BY <1>1, <1>2, <1>3, <1>4, <1>5 DEF Next

THEOREM InvariantHolds == Spec => []IInv
<1> QED
  BY InitIInv, NextIInv, PTL DEF Spec

-------------------------------------------------------------------------------
\* The pointers stay in the index and the counters are naturals.
THEOREM TypeCorrect == Spec => []TypeOK
<1>1. IInv => TypeOK
  BY DEF IInv
<1> QED
  BY <1>1, InvariantHolds, PTL

\* The playlist of any file cuts all of its first track into segments.
THEOREM PlaylistTiles == Spec => []EntriesTile
<1>1. IInv => EntriesTile
  BY DEF IInv
<1> QED
  BY <1>1, InvariantHolds, PTL

\* Every URL of a playlist is answered with the samples it announced, as long
\* as the request is served with the same length.
THEOREM PlaylistServed == Spec => []EntriesServed
<1>1. IInv => EntriesServed
  BY DEF IInv
<1> QED
  BY <1>1, InvariantHolds, PTL

\* #EXT-X-TARGETDURATION holds for key frames at most 3 seconds apart.
THEOREM TargetDurationHolds == Spec => []TargetDuration
<1>1. IInv => TargetDuration
  BY DEF IInv
<1> QED
  BY <1>1, InvariantHolds, PTL

\* No URL appears twice in a playlist.
THEOREM UrlsDistinct == Spec => []EntriesDistinct
<1>1. IInv => EntriesDistinct
  <2> SUFFICES ASSUME IInv, trak.sync[0],
                      NEW k \in 1 .. Len(entries), NEW m \in 1 .. Len(entries),
                      entries[k].video = entries[m].video
               PROVE  k = m
    BY DEF EntriesDistinct
  <2>1. /\ trak.size \in Nat
        /\ entries[k] \in Entry /\ entries[m] \in Entry
        /\ Len(entries) \in Nat
    BY DEF IInv, TypeOK, IsTrak
  <2>2. /\ entries[k].from \in SampleNumbered(trak, entries[k].video)
        /\ entries[m].from \in SampleNumbered(trak, entries[m].video)
    BY DEF IInv, EntriesServed
  <2>3. entries[k].from = entries[m].from
    BY <2>1, <2>2, SampleNumberedUnique
  <2>4. entries[k].from < entries[k].to /\ entries[m].from < entries[m].to
    BY DEF IInv, EntriesTile
  <2>5. ~ (k < m) /\ ~ (m < k)
    BY <2>1, <2>3, <2>4 DEF IInv, EntriesOrdered, Entry
  <2> QED
    BY <2>1, <2>5
<1> QED
  BY <1>1, InvariantHolds, PTL

\* The finished loop has announced the whole track.
LEMMA DoneAnnounces ==
    ASSUME IInv, pc = "done"
    PROVE  Announces(trak, length, 0, entries)
<1>1. /\ trak.size \in Nat /\ entries \in Seq(Entry) /\ Len(entries) \in Nat
      /\ prev = trak.size
  BY DEF IInv, TypeOK, IsTrak, EntriesTile
<1>2. entries \in Seq(Announcement)
  BY <1>1 DEF Entry, Announcement
<1>3. entries = <<>> <=> trak.size = 0
  <2>1. entries = <<>> => trak.size = 0
    BY <1>1 DEF IInv, EntriesTile
  <2>2. ASSUME entries # <<>>, trak.size = 0 PROVE FALSE
    <3>1. 1 \in 1 .. Len(entries) /\ entries[1] \in Entry
      BY <2>2, <1>1
    <3>2. entries[1].from < entries[1].to /\ entries[1].to <= 0
      BY <3>1, <2>2, <1>1 DEF IInv, EntriesTile, EntriesOrdered
    <3> QED
      BY <3>1, <3>2 DEF Entry
  <2> QED
    BY <2>1, <2>2
<1>4. entries # <<>> => entries[1].from = 0 /\ entries[Len(entries)].to = trak.size
  BY <1>1 DEF IInv, EntriesTile
<1>5. ASSUME NEW k \in 1 .. Len(entries)
      PROVE  /\ entries[k].from \in 0 .. trak.size - 1
             /\ entries[k].to = NextCut(trak, entries[k].from, length)
             /\ entries[k].video = SyncOrdinal(trak, entries[k].from)
  <2>0. entries[k] \in Entry
    BY <1>1
  <2>1. entries[k].from \in Nat /\ entries[k].to \in Nat
    BY <2>0 DEF Entry
  <2>2. entries[k].from < entries[k].to /\ entries[k].to <= trak.size
    BY <1>1 DEF IInv, EntriesTile, EntriesOrdered
  <2> QED
    BY <2>1, <2>2, <1>1 DEF IInv, EntriesCut
<1>6. ASSUME NEW k \in 1 .. Len(entries) - 1
      PROVE  entries[k + 1].from = entries[k].to
  <2>1. k + 1 \in 1 .. Len(entries) /\ k + 1 # 1 /\ (k + 1) - 1 = k
    BY <1>1
  <2>2. entries[k + 1].from = entries[(k + 1) - 1].to
    BY <2>1 DEF IInv, EntriesTile
  <2> QED
    BY <2>1, <2>2
<1> QED
  BY <1>2, <1>3, <1>4, <1>5, <1>6 DEF Announces

\* The loop writes the playlist that the recursive definition of Segmentation
\* gives, for any file: the service model may use the definition for the loop.
THEOREM LoopWritesEntries == Spec => []MatchesEntries
<1>1. IInv => MatchesEntries
  <2> SUFFICES ASSUME IInv, pc = "done" PROVE entries = Entries(trak, length)
    BY DEF MatchesEntries
  <2>1. IsTrak(trak) /\ Announces(trak, length, 0, entries)
    BY DoneAnnounces DEF IInv, TypeOK
  <2>2. PICK t, l, es : t = trak /\ l = length /\ es = entries
    OBVIOUS
  <2>3. IsTrak(t) /\ Announces(t, l, 0, es)
    BY <2>1, <2>2
  <2>4. es = Entries(t, l)
    BY ONLY <2>3, EntriesIs
  <2> QED
    BY <2>2, <2>4
<1> QED
  BY <1>1, InvariantHolds, PTL

===============================================================================
