----------------------------- MODULE SampleIndex -----------------------------
(***************************************************************************)
(* moov_build_index (mp4_reader.h): the tables of each track become one    *)
(* array of samples, and the sync marks of the video track are copied to   *)
(* an audio track that has none of its own.                                *)
(*                                                                         *)
(* The tables of a track are a record: stco (chunk positions), stsc        *)
(* ([chunk, samples], chunks from 0 as stsc_read leaves them), sample_size *)
(* and sizes (stsz), stts ([count, duration]), ctts ([count, offset]; a    *)
(* track without the table has <<>>), stss (numbers from 1; implicit if    *)
(* there is no table), kind and timescale.                                 *)
(*                                                                         *)
(* One action is the inner loop for one entry of a table, so the counters  *)
(* s, acc, last are the code's; acc stands for its pts, sample_offset and  *)
(* pos in turn. The arrays are functions over 0..size; chunks_ comes from  *)
(* malloc and holds any of Garbage until it is written. After a write      *)
(* outside an array (outside) nothing is said of what the program does.    *)
(***************************************************************************)
EXTENDS Segmentation, FiniteSetsExt, TimeTables

CONSTANTS
    Movies,     \* records: mvex, timescale, traks (a sequence of tables)
    Garbage     \* what malloc may leave in the size_ of a chunk

\* What the parser can leave: without the table stss has no entries.
IsTables(t) ==
    /\ t.kind \in {"vide", "soun"} /\ t.timescale \in Nat \ {0}
    /\ t.stco \in Seq(Nat)
    /\ t.stsc \in Seq([chunk : Nat, samples : Nat])
    /\ t.sample_size \in Nat /\ t.sizes \in Seq(Nat)
    /\ t.stts \in Seq([count : Nat, duration : Nat])
    /\ t.ctts \in Seq([count : Nat, offset : Int])
    /\ t.implicit \in BOOLEAN /\ t.stss \in Seq(Nat)
    /\ t.implicit => t.stss = <<>>

ASSUME IndexAssumption ==
    /\ Garbage \subseteq Nat
    /\ \A m \in Movies :
         /\ m.mvex \in BOOLEAN /\ m.timescale \in Nat \ {0}
         /\ Len(m.traks) \in Nat
         /\ \A k \in 1 .. Len(m.traks) : IsTables(m.traks[k])

VARIABLES
    movie, track,           \* the track whose turn it is, from 1
    chunks, samples,        \* its arrays
    entry, chunk, s, acc, last,
    outside,
    index,                  \* the samples of the tracks done
    pc  \* "trak", "stsc", "stts", "ctts", "pos", "copy", "indexed", "failed"

vars == <<movie, track, chunks, samples, entry, chunk, s, acc, last, outside, index, pc>>

tab == movie.traks[track]
Tracks == 1 .. Len(movie.traks)
Chunks == Len(tab.stco)
Numbers(a) == 0 .. a.size       \* the samples of an array, the end included

Init ==
    /\ movie \in Movies
    /\ track = 1 /\ index = <<>>
    /\ chunks = <<>> /\ samples = [size |-> 0]
    /\ entry = 0 /\ chunk = 0 /\ s = 0 /\ acc = 0 /\ last = 0
    /\ outside = FALSE
    /\ pc = "trak"

-------------------------------------------------------------------------------
(* trak_build_index *)

NoChunks ==
    /\ pc = "trak" /\ track \in Tracks
    /\ tab.stco = <<>>
    /\ pc' = "failed"
    /\ UNCHANGED <<movie, track, chunks, samples, entry, chunk, s, acc, last, outside, index>>

BeginTrak ==
    /\ pc = "trak" /\ track \in Tracks
    /\ tab.stco # <<>>
    /\ \E left \in [0 .. Chunks - 1 -> Garbage] :
         chunks' = [c \in 0 .. Chunks - 1 |->
                      [pos |-> tab.stco[c + 1], size |-> left[c], sample |-> 0]]
    /\ entry' = Len(tab.stsc) /\ last' = Chunks
    /\ pc' = "stsc"
    /\ UNCHANGED <<movie, track, samples, chunk, s, acc, outside, index>>

\* Faulty: the last chunk of an entry's run keeps what it had.
MapChunksShort ==
    /\ pc = "stsc" /\ entry > 0
    /\ LET e == tab.stsc[entry]
       IN  /\ chunks' = [c \in DOMAIN chunks |->
                           IF c \in e.chunk .. last - 2 THEN [chunks[c] EXCEPT !.size = e.samples]
                                                        ELSE chunks[c]]
           /\ last' = e.chunk
           /\ outside' = (last > Chunks /\ e.chunk < last)
    /\ entry' = entry - 1
    /\ UNCHANGED <<movie, track, samples, chunk, s, acc, index, pc>>

\* One entry of stsc, from the last to the first: the chunks up to the entry
\* behind it have its number of samples.
MapChunks ==
    /\ pc = "stsc" /\ entry > 0
    /\ LET e == tab.stsc[entry]
       IN  /\ chunks' = [c \in DOMAIN chunks |->
                           IF c \in e.chunk .. last - 1 THEN [chunks[c] EXCEPT !.size = e.samples]
                                                        ELSE chunks[c]]
           /\ last' = e.chunk
           /\ outside' = (last > Chunks /\ e.chunk < last)
    /\ entry' = entry - 1
    /\ UNCHANGED <<movie, track, samples, chunk, s, acc, index, pc>>

\* The samples of the chunks before c.
SamplesBefore(c) == SumOf([d \in DOMAIN chunks |-> chunks[d].size], c)

SamplesSize == IF tab.sample_size = 0 THEN Len(tab.sizes) ELSE SamplesBefore(Chunks)
SampleBytes(k) == IF tab.sample_size = 0 THEN tab.sizes[k + 1] ELSE tab.sample_size

\* samples_ comes from calloc, with one sample more for the end.
AllocSamples ==
    /\ pc = "stsc" /\ entry = 0
    /\ chunks' = [c \in DOMAIN chunks |-> [chunks[c] EXCEPT !.sample = SamplesBefore(c)]]
    /\ LET n == SamplesSize
           zero == [k \in 0 .. n |-> 0]
       IN  samples' = [kind |-> tab.kind, timescale |-> tab.timescale, size |-> n,
                       bytes |-> [k \in 0 .. n |-> IF k < n THEN SampleBytes(k) ELSE 0],
                       pts |-> zero, cto |-> zero, pos |-> zero,
                       sync |-> [k \in 0 .. n |-> FALSE]]
    /\ entry' = 1 /\ s' = 0 /\ acc' = 0
    /\ pc' = "stts"
    /\ UNCHANGED <<movie, track, chunk, last, outside, index>>

\* A field of the samples from a to b - 1 gets the value v(k).
Fill(f, a, b, v(_)) == [k \in DOMAIN f |-> IF k \in a .. b - 1 THEN v(k) ELSE f[k]]

TimeEntry ==
    /\ pc = "stts" /\ entry <= Len(tab.stts)
    /\ LET e == tab.stts[entry]
       IN  /\ samples' = [samples EXCEPT !.pts =
                            Fill(@, s, s + e.count, LAMBDA k : acc + (k - s) * e.duration)]
           /\ s' = s + e.count
           /\ acc' = acc + e.count * e.duration
    /\ outside' = (s' > samples.size + 1)
    /\ entry' = entry + 1
    /\ UNCHANGED <<movie, track, chunks, chunk, last, index, pc>>

EndTimes ==
    /\ pc = "stts" /\ entry > Len(tab.stts)
    /\ samples' = [samples EXCEPT !.pts = Fill(@, s, s + 1, LAMBDA k : acc)]
    /\ outside' = (s > samples.size)
    /\ entry' = 1 /\ s' = 0 /\ acc' = 0
    /\ pc' = "ctts"
    /\ UNCHANGED <<movie, track, chunks, chunk, last, index>>

\* Faulty: entries that count more samples than there are run on.
OffsetStopWide(e) == s + e.count

\* An entry of ctts stops at the last sample, whatever it counts.
OffsetStop(e) == Min({s + e.count, samples.size})

OffsetEntry ==
    /\ pc = "ctts" /\ entry <= Len(tab.ctts)
    /\ LET e == tab.ctts[entry]
       IN  /\ samples' = [samples EXCEPT !.cto =
                            Fill(@, s, OffsetStop(e), LAMBDA k : e.offset)]
           /\ s' = OffsetStop(e)
           /\ acc' = e.offset
    /\ outside' = (s' > samples.size + 1)
    /\ entry' = entry + 1
    /\ UNCHANGED <<movie, track, chunks, chunk, last, index, pc>>

EndOffsets ==
    /\ pc = "ctts" /\ entry > Len(tab.ctts)
    /\ samples' = [samples EXCEPT !.cto = Fill(@, s, s + 1, LAMBDA k : acc)]
    /\ outside' = (s > samples.size)
    /\ chunk' = 0 /\ entry' = 0 /\ s' = 0
    /\ acc' = chunks[0].pos
    /\ pc' = "pos"
    /\ UNCHANGED <<movie, track, chunks, last, index>>

\* entry counts the samples of the chunk here.
PlaceSample ==
    /\ pc = "pos" /\ chunk < Chunks
    /\ entry < chunks[chunk].size /\ s < samples.size
    /\ samples' = [samples EXCEPT !.pos[s] = acc]
    /\ acc' = acc + samples.bytes[s]
    /\ s' = s + 1 /\ entry' = entry + 1
    /\ UNCHANGED <<movie, track, chunks, chunk, last, outside, index, pc>>

\* The chunk is full, or its samples outnumber those there are.
NextChunk ==
    /\ pc = "pos" /\ chunk < Chunks
    /\ entry = chunks[chunk].size \/ s = samples.size
    /\ chunk' = chunk + 1 /\ entry' = 0
    /\ acc' = IF chunk + 1 < Chunks THEN chunks[chunk + 1].pos ELSE acc
    /\ UNCHANGED <<movie, track, chunks, samples, s, last, outside, index, pc>>

\* The marks of stss, if there is one, and that of the end.
Marked ==
    [k \in Numbers(samples) |->
       k = samples.size \/ \E n \in 1 .. Len(tab.stss) : tab.stss[n] = k + 1]

EndTrak ==
    /\ pc = "pos" /\ chunk = Chunks
    /\ index' = Append(index, [samples EXCEPT !.pos[s] = acc, !.sync = Marked])
    /\ outside' = (\E n \in 1 .. Len(tab.stss) : tab.stss[n] \notin 1 .. samples.size + 1)
    /\ track' = track + 1
    /\ entry' = 0 /\ s' = 0 /\ acc' = 0
    /\ pc' = "trak"
    /\ UNCHANGED <<movie, chunks, samples, chunk, last>>

-------------------------------------------------------------------------------
(* moov_build_index, after the loop over the tracks. *)

TraksIndexed ==
    /\ pc = "trak" /\ track \notin Tracks
    /\ track' = 1
    /\ pc' = "copy"
    /\ UNCHANGED <<movie, chunks, samples, entry, chunk, s, acc, last, outside, index>>

\* video_trak, the last video track; 0 if there is none.
video == Max({0} \cup {k \in Tracks : movie.traks[k].kind = "vide"})

Copies(k) == movie.traks[k].kind = "soun" /\ ~ movie.mvex /\ movie.traks[k].implicit

NextTrak ==
    /\ track' = track + 1
    /\ entry' = 0 /\ s' = 0 /\ acc' = 0
    /\ UNCHANGED <<movie, chunks, samples, chunk, last, outside, index, pc>>

SkipTrak ==
    /\ pc = "copy" /\ track \in Tracks
    /\ ~ Copies(track)
    /\ NextTrak

\* Faulty: compares times of different clocks.
AudioAtRaw ==
    LET audio == index[track]
    IN  Min({audio.size} \cup
            {a \in entry .. audio.size - 1 : audio.pts[a] >= index[video].pts[s]})

\* The first audio sample, from the one marked last on, that is not before the
\* video sample s; entry is the code's audio_first.
AudioAt ==
    LET time == Rescale(index[video].pts[s], tab.timescale, movie.traks[video].timescale)
        audio == index[track]
    IN  Min({audio.size} \cup {a \in entry .. audio.size - 1 : audio.pts[a] >= time})

CopyMark ==
    /\ pc = "copy" /\ track \in Tracks
    /\ Copies(track) /\ video # 0 /\ s < index[video].size
    /\ IF index[video].sync[s]
       THEN /\ entry' = AudioAt
            /\ index' = [index EXCEPT ![track].sync =
                           [a \in DOMAIN @ |-> @[a] \/ a = AudioAt]]
       ELSE UNCHANGED <<entry, index>>
    /\ s' = s + 1
    /\ UNCHANGED <<movie, track, chunks, samples, chunk, acc, last, outside, pc>>

\* Without a video track: a mark every two seconds. acc is the time from which
\* the next is due.
EvenMark ==
    /\ pc = "copy" /\ track \in Tracks
    /\ Copies(track) /\ video = 0 /\ s < index[track].size
    /\ IF index[track].pts[s] >= acc
       THEN /\ index' = [index EXCEPT ![track].sync[s] = TRUE]
            /\ acc' = acc + 2 * tab.timescale
       ELSE UNCHANGED <<index, acc>>
    /\ s' = s + 1
    /\ UNCHANGED <<movie, track, chunks, samples, entry, chunk, last, outside, pc>>

TrakMarked ==
    /\ pc = "copy" /\ track \in Tracks
    /\ Copies(track) /\ s = index[IF video = 0 THEN track ELSE video].size
    /\ NextTrak

MoovIndexed ==
    /\ pc = "copy" /\ track \notin Tracks
    /\ pc' = "indexed"
    /\ UNCHANGED <<movie, track, chunks, samples, entry, chunk, s, acc, last, outside, index>>

Next ==
    /\ ~ outside
    /\ \/ NoChunks \/ BeginTrak \/ MapChunks \/ AllocSamples
       \/ TimeEntry \/ EndTimes \/ OffsetEntry \/ EndOffsets
       \/ PlaceSample \/ NextChunk \/ EndTrak
       \/ TraksIndexed \/ SkipTrak \/ CopyMark \/ EvenMark \/ TrakMarked \/ MoovIndexed

Spec == Init /\ [][Next]_vars

-------------------------------------------------------------------------------
(* What the tables of a track say of its samples, without the loops. *)

Total(table) == Counted(table, Len(table))

\* The entry that counts sample k.
EntryOf(table, k) ==
    CHOOSE e \in 1 .. Len(table) : Counted(table, e - 1) <= k /\ k < Counted(table, e)

TimeOf(t, k) == SumOf([j \in 0 .. k - 1 |-> t.stts[EntryOf(t.stts, j)].duration], k)

OffsetOf(t, k) == IF t.ctts = <<>> THEN 0 ELSE t.ctts[EntryOf(t.ctts, k)].offset

ChunkSize(t, c) == t.stsc[Max({e \in 1 .. Len(t.stsc) : t.stsc[e].chunk <= c})].samples
ChunkStart(t, c) == SumOf([d \in 0 .. c - 1 |-> ChunkSize(t, d)], c)
ChunkOf(t, k) ==
    CHOOSE c \in 0 .. Len(t.stco) - 1 : ChunkStart(t, c) <= k /\ k < ChunkStart(t, c + 1)

BytesOf(t, k) == IF t.sample_size = 0 THEN t.sizes[k + 1] ELSE t.sample_size

\* Where chunk c has the sample k, or ends if k is behind it.
Place(t, c, k) ==
    LET first == ChunkStart(t, c)
    IN  t.stco[c + 1] + SumOf([j \in 0 .. k - first - 1 |-> BytesOf(t, first + j)], k - first)

\* The runs of stsc begin with the first chunk and follow each other.
ChunksMapped(t) ==
    /\ t.stco # <<>> /\ t.stsc # <<>>
    /\ t.stsc[1].chunk = 0
    /\ \A e \in 1 .. Len(t.stsc) : t.stsc[e].chunk < Len(t.stco)
    /\ \A e \in 2 .. Len(t.stsc) : t.stsc[e - 1].chunk < t.stsc[e].chunk

SizeOf(t) == IF t.sample_size = 0 THEN Len(t.sizes) ELSE ChunkStart(t, Len(t.stco))

\* The tables count the same samples.
Agree(t) ==
    /\ ChunksMapped(t)
    /\ ChunkStart(t, Len(t.stco)) = SizeOf(t)
    /\ Total(t.stts) = SizeOf(t)
    /\ t.ctts = <<>> \/ Total(t.ctts) = SizeOf(t)
    /\ \A n \in 1 .. Len(t.stss) : t.stss[n] \in 1 .. SizeOf(t)

\* An audio track without sync marks, in a movie that is not in fragments.
Bare(k) == movie.traks[k].kind = "soun" /\ movie.traks[k].implicit /\ ~ movie.mvex

AgreeingTracks == {k \in 1 .. Len(index) : Agree(movie.traks[k])}

\* Of tables that agree the loops make the samples the tables speak of, with
\* the end time behind the last and the end of the last chunk, and a track the
\* other modules can work on (IsTrak: its times in order, its end marked).
IndexTrue ==
    pc = "indexed" =>
        \A k \in AgreeingTracks :
            LET t == movie.traks[k]
                a == index[k]
            IN  /\ a.size = SizeOf(t) /\ IsTrak(a)
                /\ \A j \in 0 .. a.size - 1 :
                     /\ a.bytes[j] = BytesOf(t, j)
                     /\ a.pos[j] = Place(t, ChunkOf(t, j), j)
                     /\ a.cto[j] = OffsetOf(t, j)
                /\ \A j \in 0 .. a.size : a.pts[j] = TimeOf(t, j)
                /\ a.pos[a.size] = Place(t, Len(t.stco) - 1, a.size)
                /\ ~ Bare(k) =>
                     \A j \in 0 .. a.size - 1 :
                         a.sync[j] <=> \E n \in 1 .. Len(t.stss) : t.stss[n] = j + 1

\* stco, stsz and ctts may count different numbers of samples, and chunks
\* before the first entry of stsc hold anything: no loop leaves its array while
\* stts and stss do not count more samples than there are and the entries of
\* stsc are in order.
InBounds ==
    outside =>
        LET t == movie.traks[IF pc = "trak" THEN track - 1 ELSE track]
        IN  \/ \E e \in 1 .. Len(t.stsc) :
                 t.stsc[e].chunk > (IF e < Len(t.stsc) THEN t.stsc[e + 1].chunk ELSE Len(t.stco))
            \/ pc \in {"stts", "ctts"} /\ Total(t.stts) > samples.size
            \/ pc = "trak" /\ \E n \in 1 .. Len(t.stss) : t.stss[n] \notin 1 .. samples.size + 1

\* No sync sample within the gap from a to b.
Gap(t, a, b) == a < b /\ t.sync[a] /\ t.sync[b] /\ \A c \in a + 1 .. b - 1 : ~ t.sync[c]

\* What the audio track without an stss table gets: with a video track the mark
\* of the first sample not before each of its sync samples (what Fragment
\* starts from); else marks so close, where no sample is longer than a second,
\* that the playlist's #EXT-X-TARGETDURATION holds (see TargetDuration), the
\* first of them on the first sample.
AudioMarked ==
    pc = "indexed" /\ AgreeingTracks = Tracks =>
        \A k \in Tracks :
            LET a == index[k]
            IN  Bare(k) =>
                  IF video # 0 THEN a.sync = WithCopiedSync(index[video], a).sync
                  ELSE /\ a.sync[0]
                       /\ (\A j \in 1 .. a.size : a.pts[j] - a.pts[j - 1] <= a.timescale) =>
                            \A b, c \in 0 .. a.size :
                                Gap(a, b, c) => a.pts[c] - a.pts[b] <= 3 * a.timescale

\* Tables that the lookups can use: no sample without a duration, the numbers of
\* the sync samples in their order.
Dense(t) == \A e \in 1 .. Len(t.stts) : t.stts[e].duration > 0
Ascending(t) == t.stss # <<>> /\ \A n \in 2 .. Len(t.stss) : t.stss[n - 1] < t.stss[n]

FirstFrom(a, time) == Min({j \in 0 .. a.size : a.pts[j] >= time})

\* stts_get_time, stts_get_sample and stbl_get_nearest_keyframe on the tables of
\* the array a.
LookupsTrue(t, a) ==
    /\ \A j \in 0 .. a.size - 1 : SttsTime(t.stts, j) = a.pts[j]
    /\ Dense(t) =>
         \A time \in 0 .. a.pts[a.size] : SttsSample(t.stts, time) = FirstFrom(a, time)
    /\ Ascending(t) =>
         \A j \in 0 .. a.size - 1 :
             t.stss[1] <= j + 1 =>
                 StblKeyframe(t, j + 1) = Max({n \in 1 .. j + 1 : a.sync[n - 1]})

\* The time of the movie at which a cut is made in track i.
CutAt(cut, i) == Scaled(index[i].pts[cut[i]], movie.timescale, index[i].timescale)

\* The last key frame of track v that no sample from the moment on is before.
KeyBefore(v, moment) ==
    LET a == index[v]
        time == Scaled(moment, a.timescale, movie.timescale)
    IN  Max({j \in 0 .. a.size - 1 : a.sync[j] /\ \A i \in 0 .. j - 1 : a.pts[i] < time})

\* The sample at which track k follows a cut of track v.
Following(k, v, cut) ==
    FirstFrom(index[k], Scaled(CutAt(cut, v), index[k].timescale, movie.timescale))

\* The last sample of each track.
Lasts == [i \in 1 .. 2 |-> index[i].size - 1]

\* A movie of a track v with key frames and a track k without, v not the longer one.
CutTogether(v, k) ==
    /\ Len(index) = 2 /\ movie.traks[k].implicit /\ ~ movie.traks[v].implicit
    /\ Dense(movie.traks[v]) /\ Dense(movie.traks[k])
    /\ Ascending(movie.traks[v]) /\ movie.traks[v].stss[1] = 1
    /\ index[k].size > 0
    /\ CutAt(Lasts, v) <= CutAt(Lasts, k)

CutsTrue(v, k) ==
    \A start, end \in 0 .. CutAt(Lasts, v) :
        LET cut == Split(movie.traks, movie.timescale, start, end,
                         [i \in 1 .. 2 |-> index[i].size])
        IN  /\ start # 0 =>
                 cut.start[v] = KeyBefore(v, start) /\ cut.start[k] = Following(k, v, cut.start)
            /\ end # 0 =>
                 /\ cut.end[v] = KeyBefore(v, end)
                 /\ cut.end[k] = IF CutAt(cut.end, v) # 0 THEN Following(k, v, cut.end)
                                                          ELSE index[k].size
            /\ end # 0 /\ CutAt(cut.end, v) # 0 /\ CutAt(cut.end, k) # 0 /\ cut.ok =>
                 \A i \in 1 .. 2 : cut.start[i] < cut.end[i]

\* The lookups that go to the tables say what the index says; a cut through the
\* movie is made, in a track without sync samples of its own, at the first
\* sample not before the key frame at which it is made in the track with them
\* (if that track is not the longer one: past its end there is nothing to read),
\* and holds something of both. But an end moved to the time 0 is none for the
\* other track, and none for the test that an end is behind the start.
LookupsAgree ==
    pc = "indexed" =>
        /\ \A k \in AgreeingTracks : LookupsTrue(movie.traks[k], index[k])
        /\ \A k, v \in AgreeingTracks : CutTogether(v, k) => CutsTrue(v, k)

\* mp4_io.h, stbl_get_nearest_keyframe: "If the sync atom is not present, all
\* samples are implicit sync samples."
ImplicitSync ==
    pc = "indexed" =>
        \A k \in Tracks :
            movie.traks[k].kind = "vide" /\ movie.traks[k].implicit =>
                \A j \in Numbers(index[k]) : index[k].sync[j]

===============================================================================
