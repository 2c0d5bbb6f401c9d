------------------------------ MODULE TimeTables ------------------------------
(***************************************************************************)
(* The lookups that go to the tables of a track, without the index: time   *)
(* of a sample, sample of a time, key frame before a sample (mp4_io.h),    *)
(* and the alignment of a cut in all tracks of a movie (moov.h).           *)
(*                                                                         *)
(* stts is a sequence of entries [count, duration]; stss the sequence of   *)
(* the numbers, from 1, of the sync samples; implicit says that there is   *)
(* no stss table. Samples are numbered from 0.                             *)
(***************************************************************************)
EXTENDS Integers, Sequences

\* The sum of the first n values of f, from f[0] on.
SumOf(f, n) ==
    LET sum[k \in 0 .. n] == IF k = 0 THEN 0 ELSE sum[k - 1] + f[k - 1] IN sum[n]

\* The samples that the first e entries of stts or ctts count, and their time.
Counted(table, e) == SumOf([i \in 0 .. Len(table) - 1 |-> table[i + 1].count], e)
Spanned(stts, e) ==
    SumOf([i \in 0 .. Len(stts) - 1 |-> stts[i + 1].count * stts[i + 1].duration], e)

\* The entry at which the loop of stts_get_sample stops.
TimeStop(stts, time) ==
    CHOOSE e \in 1 .. Len(stts) + 1 :
        /\ e <= Len(stts) => Spanned(stts, e) >= time
        /\ \A h \in 1 .. e - 1 : Spanned(stts, h) < time

\* stts_get_sample; defined if the entry in which it stops has a duration.
SttsSample(stts, time) ==
    LET e == TimeStop(stts, time)
        d == stts[e].duration
    IN  IF e > Len(stts) THEN Counted(stts, Len(stts))
        ELSE Counted(stts, e - 1) + (time - Spanned(stts, e - 1) + d - 1) \div d

\* The entry at which the loop of stts_get_time stops. The loop has no test for
\* the end of the table: it is defined for samples the table counts.
SampleStop(stts, sample) ==
    CHOOSE e \in 1 .. Len(stts) :
        Counted(stts, e) > sample /\ \A h \in 1 .. e - 1 : Counted(stts, h) <= sample

\* stts_get_time
SttsTime(stts, sample) ==
    LET e == SampleStop(stts, sample)
    IN  Spanned(stts, e - 1) + (sample - Counted(stts, e - 1)) * stts[e].duration

\* The entry at which the scan of the sync samples stops.
ScanStop(stss, number) ==
    CHOOSE i \in 1 .. Len(stss) + 1 :
        /\ i <= Len(stss) => stss[i] >= number
        /\ \A h \in 1 .. i - 1 : stss[h] < number

\* stss_get_nearest_keyframe; defined from the first sync sample on, before it
\* the entry in front of the table is read.
NearestKeyframe(stss, number) ==
    LET i == ScanStop(stss, number)
    IN  IF i <= Len(stss) /\ stss[i] = number THEN number ELSE stss[i - 1]

\* stbl_get_nearest_keyframe
StblKeyframe(t, number) == IF t.implicit THEN number ELSE NearestKeyframe(t.stss, number)

\* moov_time_to_trak_time, trak_time_to_moov_time
Scaled(time, to, from) == (time * to) \div from

\* One track's turn in get_aligned_start_and_end: the sample at which a cut is
\* made in it, and the time, in the movie's clock, that the next track gets.
AlignTrak(t, scale, time) ==
    LET s == SttsSample(t.stts, Scaled(time, t.timescale, scale))
        key == StblKeyframe(t, s + 1) - 1
    IN  [sample |-> key, time |-> Scaled(SttsTime(t.stts, key), scale, t.timescale)]

\* Faulty: every track in the first pass.
InPassOnce(pass, trak) == pass = 0

\* The first pass is for tracks with an stss table, the second for the others.
InPass(pass, trak) == trak.implicit = (pass = 1)

\* Turn n, from 0, of the two passes over the tracks. The time 0, also where a
\* track before has moved the cut there, leaves a track its default.
Turn(traks, scale, n, cut) ==
    LET k == (n % Len(traks)) + 1
        own == AlignTrak(traks[k], scale, cut.time)
    IN  IF ~ InPass(n \div Len(traks), traks[k]) \/ cut.time = 0 THEN cut
        ELSE [samples |-> [cut.samples EXCEPT ![k] = own.sample], time |-> own.time]

\* One end of the cut, at `moment`: its sample in each track, and the time it has
\* been moved to in the end.
Aligned(traks, scale, moment, default) ==
    LET cut[n \in 0 .. 2 * Len(traks)] ==
            IF n = 0 THEN [samples |-> default, time |-> moment]
            ELSE Turn(traks, scale, n - 1, cut[n - 1])
    IN  cut[2 * Len(traks)]

\* get_aligned_start_and_end, for a start and an end before the last sample of
\* each track; sizes are the numbers of samples.
Split(traks, scale, start, end, sizes) ==
    LET from == Aligned(traks, scale, start, [k \in 1 .. Len(traks) |-> 0])
        to == Aligned(traks, scale, end, sizes)
    IN  [start |-> from.samples, end |-> to.samples,
         ok |-> to.time = 0 \/ from.time < to.time]

===============================================================================
