------------------------------- MODULE Playlist -------------------------------
(***************************************************************************)
(* The loop of mp4_create_m3u8 (output_m3u8.h) that walks the sample index *)
(* of the first track and writes one #EXTINF/URL pair per segment.         *)
(*                                                                         *)
(* A request runs to completion in its worker, so the loop sees one track  *)
(* and one value of conf->length. An entry keeps what the two lines it     *)
(* writes say: the number of the segment's first sync sample in the URL,   *)
(* and the two samples whose distance in time is the duration.             *)
(***************************************************************************)
EXTENDS Segmentation

CONSTANTS
    Traks,      \* the indexes a file may have
    Lengths     \* the values conf->length may have when the loop starts

ASSUME TraksAssumption == \A t \in Traks : IsTrak(t)
ASSUME LengthsAssumption == Lengths \subseteq Nat

VARIABLES
    trak,       \* moov->traks_[0]
    length,     \* conf->length
    cur, prev,  \* the code's sample pointers, as sample numbers
    i, prev_i,  \* sync samples met before cur, and before prev
    entries,    \* the text written so far
    pc          \* "loop", "done"

vars == <<trak, length, cur, prev, i, prev_i, entries, pc>>

last == trak.size + 1

Init ==
    /\ trak \in Traks
    /\ length \in Lengths
    /\ cur = 0 /\ prev = 0
    /\ i = 0 /\ prev_i = 0
    /\ entries = <<>>
    /\ pc = "loop"

\* Faulty: forgets the tail that is shorter than length.
EndsSegmentNoTail == prev # cur /\ LongEnough(trak, prev, cur, length)

\* A segment ends at cur: the guard that makes the loop write an entry.
EndsSegment ==
    /\ prev # cur
    /\ LongEnough(trak, prev, cur, length) \/ cur + 1 = last

SkipNonSync ==
    /\ pc = "loop" /\ cur # last
    /\ ~ trak.sync[cur]
    /\ cur' = cur + 1
    /\ UNCHANGED <<trak, length, prev, i, prev_i, entries, pc>>

\* Faulty: counts only the sync samples that end a segment.
PassSyncNoCount ==
    /\ pc = "loop" /\ cur # last
    /\ trak.sync[cur]
    /\ ~ EndsSegment
    /\ cur' = cur + 1
    /\ UNCHANGED <<trak, length, prev, i, prev_i, entries, pc>>

PassSync ==
    /\ pc = "loop" /\ cur # last
    /\ trak.sync[cur]
    /\ ~ EndsSegment
    /\ cur' = cur + 1
    /\ i' = i + 1
    /\ UNCHANGED <<trak, length, prev, prev_i, entries, pc>>

\* What WriteEntry and its faulty variants share: n is the new prev_i.
WriteEntryNumbering(n) ==
    /\ pc = "loop" /\ cur # last
    /\ trak.sync[cur]
    /\ EndsSegment
    /\ entries' = Append(entries, [video |-> prev_i, from |-> prev, to |-> cur])
    /\ prev' = cur
    /\ prev_i' = n
    /\ cur' = cur + 1
    /\ i' = i + 1
    /\ UNCHANGED <<trak, length, pc>>

\* Faulty: takes i after it is incremented, or not at all.
WriteEntryLate == WriteEntryNumbering(i + 1)
WriteEntryKeeps == WriteEntryNumbering(prev_i)

WriteEntry == WriteEntryNumbering(i)

\* #EXT-X-ENDLIST
Finish ==
    /\ pc = "loop" /\ cur = last
    /\ pc' = "done"
    /\ UNCHANGED <<trak, length, cur, prev, i, prev_i, entries>>

Next == SkipNonSync \/ PassSync \/ WriteEntry \/ Finish

Spec == Init /\ [][Next]_vars

-------------------------------------------------------------------------------
Entry == [video : Nat, from : Nat, to : Nat]

TypeOK ==
    /\ IsTrak(trak)
    /\ length \in Nat
    /\ cur \in 0 .. last
    /\ prev \in 0 .. trak.size
    /\ i \in Nat
    /\ prev_i \in Nat
    /\ entries \in Seq(Entry)
    /\ pc \in {"loop", "done"}

\* The entries written so far cut the samples before prev into non-empty
\* pieces, without a gap or an overlap, and the finished playlist reaches the
\* end of the track, wherever its sync samples are.
EntriesTile ==
    /\ \A k \in 1 .. Len(entries) :
         /\ entries[k].from = IF k = 1 THEN 0 ELSE entries[k - 1].to
         /\ entries[k].from < entries[k].to
    /\ prev = IF entries = <<>> THEN 0 ELSE entries[Len(entries)].to
    /\ pc = "done" => prev = trak.size

\* A file that starts with a sync sample gets a playlist every entry of which
\* output_ts can serve, as it was announced: the URL's number is the number of
\* the sync sample the entry starts with, and the entry ends where get_next,
\* started there with the same length, stops.
EntriesServed ==
    trak.sync[0] =>
        \A k \in 1 .. Len(entries) :
            LET e == entries[k]
            IN  /\ e.from \in SampleNumbered(trak, e.video)
                /\ e.to = NextCut(trak, e.from, length)

\* No two entries have the same URL, for such a file.
EntriesDistinct ==
    trak.sync[0] =>
        \A k, m \in 1 .. Len(entries) :
            entries[k].video = entries[m].video => k = m

\* #EXT-X-TARGETDURATION is length + 3. It bounds every entry of a file whose
\* sync samples, the end sample included, are at most 3 seconds apart.
SyncGapsAtMost(t, seconds) ==
    /\ t.sync[0]
    /\ \A a, b \in 0 .. t.size :
         /\ a < b /\ t.sync[a] /\ t.sync[b]
         /\ \A c \in a + 1 .. b - 1 : ~ t.sync[c]
         => t.pts[b] - t.pts[a] <= seconds * t.timescale

TargetDuration ==
    SyncGapsAtMost(trak, 3) =>
        \A k \in 1 .. Len(entries) :
            trak.pts[entries[k].to] - trak.pts[entries[k].from]
                <= (length + 3) * trak.timescale

\* The loop, for any file, computes the playlist that the definition of the
\* service model gives.
MatchesEntries == pc = "done" => entries = Entries(trak, length)

===============================================================================
