----------------------------- MODULE Segmentation -----------------------------
(***************************************************************************)
(* The arithmetic of cutting an indexed track into HLS segments: what      *)
(* mp4_create_m3u8 (output_m3u8.h) announces and get_next (output_ts.h)    *)
(* serves, and how moov_build_index (mp4_reader.h) gives an audio track    *)
(* the sync marks of the video track.                                      *)
(*                                                                         *)
(* A track is a record of what the index keeps per sample: samples are     *)
(* 0..size-1 and sample `size` is the extra one that carries the end time. *)
(* pts is in ticks of timescale; sync is the bit is_smooth_ss_.            *)
(***************************************************************************)
EXTENDS Naturals, FiniteSets, Sequences

\* The tracks trak_build_index leaves behind for tables that agree with each
\* other: times do not decrease and the end sample is marked.
IsTrak(t) ==
    /\ {"size", "timescale", "pts", "sync"} \subseteq DOMAIN t
    /\ t.size \in Nat
    /\ t.timescale \in Nat \ {0}
    /\ t.pts \in [0 .. t.size -> Nat]
    /\ t.sync \in [0 .. t.size -> BOOLEAN]
    /\ \A a, b \in 0 .. t.size : a <= b => t.pts[a] <= t.pts[b]
    /\ t.sync[t.size]

\* Faulty: a second too many.
LongEnoughOneMore(t, a, b, length) ==
    2000 * (t.pts[b] - t.pts[a]) + t.timescale >= 2000 * ((length + 1) * t.timescale)

\* duration >= length, where duration is seconds + 0.0005. The code computes
\* both sides in float, with the same expression at both call sites; the
\* comparison is exact here.
LongEnough(t, a, b, length) ==
    2000 * (t.pts[b] - t.pts[a]) + t.timescale >= 2000 * (length * t.timescale)

\* Sample c ends the segment that starts at sample a.
IsCut(t, a, c, length) ==
    /\ c \in a + 1 .. t.size
    /\ t.sync[c]
    /\ LongEnough(t, a, c, length) \/ c = t.size

\* The first sample that does (for a < t.size).
NextCut(t, a, length) ==
    CHOOSE c \in a + 1 .. t.size :
        /\ IsCut(t, a, c, length)
        /\ \A d \in a + 1 .. c - 1 : ~ IsCut(t, a, d, length)

\* The sync samples before sample s, and so the number a segment URL gives s.
SyncBefore(t, s) == {j \in 0 .. s - 1 : t.sync[j]}
SyncOrdinal(t, s) == Cardinality(SyncBefore(t, s))

\* The sync sample numbered n: a set of one sample, or of none.
SampleNumbered(t, n) ==
    {s \in 0 .. t.size - 1 : t.sync[s] /\ SyncOrdinal(t, s) = n}

\* The playlist of t from sample s on, when s is a segment start.
Entries(t, length) ==
    LET from[s \in 0 .. t.size] ==
          IF s = t.size THEN <<>>
          ELSE LET c == NextCut(t, s, length)
               IN  <<[video |-> SyncOrdinal(t, s), from |-> s, to |-> c]>> \o from[c]
    IN  from[0]

-------------------------------------------------------------------------------
\* trak_time_to_moov_time
Rescale(time, to, from) == (time * to) \div from

\* The first audio sample not before a time, if there is one.
FirstNotBefore(audio, time) ==
    {a \in 0 .. audio.size - 1 :
        audio.pts[a] >= time /\ \A b \in 0 .. a - 1 : audio.pts[b] < time}

\* Faulty: compares times of different timescales.
CopiedSyncNoRescale(video, audio) ==
    UNION {FirstNotBefore(audio, video.pts[v]) : v \in SyncBefore(video, video.size)}

\* copy_sync_samples_to_audio_track with a video track: the audio samples it
\* marks. An audio sample that several video sync samples fall into is marked
\* once.
CopiedSync(video, audio) ==
    UNION {FirstNotBefore(audio, Rescale(video.pts[v], audio.timescale, video.timescale)) :
             v \in SyncBefore(video, video.size)}

\* The audio track moov_build_index leaves, the end sample marked as always.
WithCopiedSync(video, audio) ==
    [audio EXCEPT !.sync = [a \in 0 .. audio.size |->
                              a = audio.size \/ a \in CopiedSync(video, audio)]]

\* No audio sample takes the mark of more than one video sync sample.
MarksApart(v, a) ==
    \A m, n \in SyncBefore(v, v.size) :
        m # n => LET at(s) == FirstNotBefore(a, Rescale(v.pts[s], a.timescale, v.timescale))
                 IN  at(m) \intersect at(n) = {}

===============================================================================
