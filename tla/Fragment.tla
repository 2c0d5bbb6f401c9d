------------------------------- MODULE Fragment -------------------------------
(***************************************************************************)
(* How output_ts (output_ts.h) chooses the samples of a segment: one walk  *)
(* per track to the sync sample the URL numbers, then get_next to the      *)
(* sample where the fragment stops.                                        *)
(*                                                                         *)
(* get_next takes the length from conf for the first fragment and leaves   *)
(* the number of sync samples it passed in last_chunk; a later fragment    *)
(* stops after as many. Zero means "not set yet" to it, so a first         *)
(* fragment that passed none leaves the second to measure for itself.      *)
(*                                                                         *)
(* Fragments are numbered from 1 here, from 0 in the code; track numbers   *)
(* are the code's, so that the argument `audio` reads the same.            *)
(***************************************************************************)
EXTENDS Segmentation

CONSTANTS
    Movies,     \* the indexed movies: sequences of tracks with a handler type
    Lengths,    \* the values of conf->length
    Starts,     \* the values of the argument "video" (fragment_start)
    AudioArgs,  \* the values of the argument "audio" (fragment_track_id)
    UIntRange   \* 2^32: get_next takes the length as an unsigned int

MaxFragments == 2       \* max_fragment_size

ASSUME MoviesAssumption ==
    \A m \in Movies :
        /\ Len(m) \in Nat /\ DOMAIN m = 1 .. Len(m)
        /\ \A k \in 1 .. Len(m) : IsTrak(m[k]) /\ m[k].kind \in {"vide", "soun"}
ASSUME NumbersAssumption ==
    /\ Lengths \subseteq Nat /\ Starts \subseteq Nat /\ AudioArgs \subseteq Nat
    /\ UIntRange \in Nat \ {0}

VARIABLES
    moov, length, start, audio,     \* of the request
    track_id, sample, i,            \* the walk over a track
    next, passed,                   \* get_next's next and i
    last_chunk, audio_tracks,
    fragment,                       \* the sequence of fragments chosen
    pc                              \* "tracks", "scan", "get_next", "chosen", "failed"

vars == <<moov, length, start, audio, track_id, sample, i, next, passed,
          last_chunk, audio_tracks, fragment, pc>>

request == <<moov, length, start, audio>>

trak == moov[track_id + 1]

\* audio = fragment_track_id ? fragment_track_id : 1
AudioTrack(arg) == IF arg # 0 THEN arg ELSE 1

Init ==
    /\ moov \in Movies
    /\ length \in Lengths
    /\ start \in Starts
    /\ \E arg \in AudioArgs : audio = AudioTrack(arg)
    /\ track_id = 0 /\ sample = 0 /\ i = 0
    /\ next = 0 /\ passed = 0
    /\ last_chunk = 0 /\ audio_tracks = 0
    /\ fragment = <<>>
    /\ pc = "tracks"

-------------------------------------------------------------------------------
(* The loop over the tracks and, in it, over the samples of one. *)

EnterTrack ==
    /\ pc = "tracks" /\ track_id < Len(moov)
    /\ sample' = 0 /\ i' = 0
    /\ pc' = "scan"
    /\ UNCHANGED <<request, track_id, next, passed, last_chunk, audio_tracks, fragment>>

LeaveTrack ==
    /\ track_id' = track_id + 1
    /\ pc' = "tracks"
    /\ UNCHANGED <<request, sample, i, next, passed, last_chunk, fragment>>

\* Faulty: numbers every sample.
SkipNonSyncCounts ==
    /\ pc = "scan" /\ sample # trak.size
    /\ ~ trak.sync[sample]
    /\ sample' = sample + 1
    /\ i' = i + 1
    /\ UNCHANGED <<request, track_id, next, passed, last_chunk, audio_tracks, fragment, pc>>

SkipNonSync ==
    /\ pc = "scan" /\ sample # trak.size
    /\ ~ trak.sync[sample]
    /\ sample' = sample + 1
    /\ UNCHANGED <<request, track_id, i, next, passed, last_chunk, audio_tracks, fragment, pc>>

AtSync == pc = "scan" /\ sample # trak.size /\ trak.sync[sample]

OtherAudio == trak.kind = "soun" /\ track_id # audio

\* end = 2: a sound track that is not the one asked for.
RefuseTrack ==
    /\ AtSync /\ OtherAudio
    /\ LeaveTrack
    /\ UNCHANGED audio_tracks

PassSync ==
    /\ AtSync /\ ~ OtherAudio /\ i # start
    /\ sample' = sample + 1
    /\ i' = i + 1
    /\ UNCHANGED <<request, track_id, next, passed, last_chunk, audio_tracks, fragment, pc>>

\* Faulty: counts the video fragment as well.
CountAudioAny == audio_tracks' = audio_tracks + 1

CountAudio == audio_tracks' = audio_tracks + (IF trak.kind = "soun" THEN 1 ELSE 0)

\* Faulty: get_next's i keeps the value it had for the track before.
FoundStartKeeps ==
    /\ AtSync /\ ~ OtherAudio /\ i = start
    /\ Len(fragment) < MaxFragments
    /\ CountAudio
    /\ next' = sample + 1
    /\ pc' = "get_next"
    /\ UNCHANGED <<request, track_id, sample, i, passed, last_chunk, fragment>>

\* end = 1 and room for a fragment: get_next begins after its first sample.
FoundStart ==
    /\ AtSync /\ ~ OtherAudio /\ i = start
    /\ Len(fragment) < MaxFragments
    /\ CountAudio
    /\ next' = sample + 1 /\ passed' = 0
    /\ pc' = "get_next"
    /\ UNCHANGED <<request, track_id, sample, i, last_chunk, fragment>>

\* end = 1, but both fragments are taken.
FoundNoRoom ==
    /\ AtSync /\ ~ OtherAudio /\ i = start
    /\ Len(fragment) >= MaxFragments
    /\ CountAudio
    /\ LeaveTrack

TrackEnds ==
    /\ pc = "scan" /\ sample = trak.size
    /\ LeaveTrack
    /\ UNCHANGED audio_tracks

-------------------------------------------------------------------------------
(* get_next *)

Seconds == length % UIntRange

\* Faulty: counts for the first fragment too.
StopsByCount == passed = last_chunk

Stops ==
    IF last_chunk = 0 THEN LongEnough(trak, sample, next, Seconds)
                      ELSE passed = last_chunk

GetNextSkip ==
    /\ pc = "get_next" /\ next # trak.size
    /\ ~ trak.sync[next]
    /\ next' = next + 1
    /\ UNCHANGED <<request, track_id, sample, i, passed, last_chunk, audio_tracks, fragment, pc>>

GetNextPass ==
    /\ pc = "get_next" /\ next # trak.size
    /\ trak.sync[next] /\ ~ Stops
    /\ next' = next + 1
    /\ passed' = passed + 1
    /\ UNCHANGED <<request, track_id, sample, i, last_chunk, audio_tracks, fragment, pc>>

GetNextReturn ==
    /\ pc = "get_next"
    /\ next = trak.size \/ (trak.sync[next] /\ Stops)
    /\ last_chunk' = IF last_chunk = 0 THEN passed ELSE last_chunk
    /\ fragment' = Append(fragment, [track |-> track_id, first |-> sample, last |-> next])
    /\ track_id' = track_id + 1
    /\ pc' = "tracks"
    /\ UNCHANGED <<request, sample, i, next, passed, audio_tracks>>

\* "no video fragment", or on with the muxer.
AllTracksDone ==
    /\ pc = "tracks" /\ track_id = Len(moov)
    /\ pc' = IF fragment = <<>> THEN "failed" ELSE "chosen"
    /\ UNCHANGED <<request, track_id, sample, i, next, passed, last_chunk, audio_tracks, fragment>>

Next ==
    \/ EnterTrack \/ SkipNonSync \/ RefuseTrack \/ PassSync
    \/ FoundStart \/ FoundNoRoom \/ TrackEnds
    \/ GetNextSkip \/ GetNextPass \/ GetNextReturn
    \/ AllTracksDone

Spec == Init /\ [][Next]_vars

\* How many fragments the rest of output_ts works on.
FragmentSize == IF 1 + audio_tracks > MaxFragments THEN MaxFragments ELSE 1 + audio_tracks

-------------------------------------------------------------------------------
Trak(k) == moov[k + 1]
TrackIds == 0 .. Len(moov) - 1

FragmentRec == [track : Nat, first : Nat, last : Nat]

TypeOK ==
    /\ track_id \in 0 .. Len(moov)
    /\ track_id = Len(moov) => pc \in {"tracks", "chosen", "failed"}
    /\ i \in Nat /\ passed \in Nat /\ last_chunk \in Nat /\ audio_tracks \in 0 .. 1
    /\ pc \in {"scan", "get_next"} => sample \in 0 .. trak.size
    /\ pc = "get_next" => next \in sample + 1 .. trak.size
    /\ fragment \in Seq(FragmentRec) /\ Len(fragment) <= MaxFragments
    /\ pc \in {"tracks", "scan", "get_next", "chosen", "failed"}

\* The tracks that have a sync sample of the number asked for, and may be sent.
Candidates ==
    {k \in TrackIds : /\ Trak(k).kind = "vide" \/ k = audio
                      /\ SampleNumbered(Trak(k), start) # {}}

\* A request fails exactly when no track it may send has the sync sample its
\* URL numbers, and the fragments are those of the first such tracks, each
\* starting at that sample.
ChosenByNumber ==
    pc \in {"chosen", "failed"} =>
        LET took == {fragment[f].track : f \in 1 .. Len(fragment)}
        IN  /\ pc = "failed" <=> Candidates = {}
            /\ took \subseteq Candidates
            /\ Cardinality(took) = Len(fragment)
            /\ \A k \in Candidates \ took : Len(fragment) = MaxFragments /\ \A m \in took : m < k
            /\ \A f \in 1 .. Len(fragment) :
                 fragment[f].first \in SampleNumbered(Trak(fragment[f].track), start)

\* The first fragment ends where the playlist loop ends the entry that starts
\* at the same sample.
FirstFragmentCut ==
    fragment # <<>> =>
        LET f == fragment[1] IN f.last = NextCut(Trak(f.track), f.first, Seconds)

\* A fragment's span, in sync intervals of its own track.
Span(f) == SyncOrdinal(Trak(f.track), f.last) - SyncOrdinal(Trak(f.track), f.first)

\* The second fragment spans as many intervals as the first, unless its track
\* ends before. When the first spans one, the second may run on, to the length
\* its own times give it; it is never shorter.
SecondFollowsFirst ==
    Len(fragment) = 2 =>
        LET f == fragment[1]
            g == fragment[2]
        IN  /\ Span(g) >= Span(f) \/ g.last = Trak(g.track).size
            /\ Span(g) > Span(f) =>
                 /\ Span(f) = 1
                 /\ g.last = NextCut(Trak(g.track), g.first, Seconds)

\* The video track whose marks moov_build_index copies: the last one.
MarksVideo(v) ==
    /\ v \in TrackIds /\ Trak(v).kind = "vide"
    /\ \A k \in TrackIds : Trak(k).kind = "vide" => k <= v

Copied(v, a) ==
    /\ MarksVideo(v)
    /\ a \in TrackIds /\ Trak(a).kind = "soun"
    /\ Trak(a) = WithCopiedSync(Trak(v), Trak(a))

\* The muxer, the program map and the loop over the samples look at
\* FragmentSize fragments: all of them are there when the audio asked for has
\* the marks of the video.
SlotsFilled ==
    pc = "chosen" /\ (\E v \in TrackIds : Copied(v, audio)) =>
        FragmentSize <= Len(fragment)

\* What the copied marks are for: the audio fragment starts with the first
\* audio sample not before the video fragment and reaches at least to where
\* the video fragment ends, or to the end of the audio; if no audio sample
\* takes the mark of more than one video sync sample.
AudioCoversVideo ==
    \A v, a \in TrackIds :
        /\ pc = "chosen" /\ Len(fragment) = 2
        /\ fragment[1].track = v /\ fragment[2].track = a
        /\ Copied(v, a) /\ MarksApart(Trak(v), Trak(a))
        => LET begin == Trak(v).pts[fragment[1].first]
               end == Trak(v).pts[fragment[1].last]
               AudioTime(t) == Rescale(t, Trak(a).timescale, Trak(v).timescale)
           IN  /\ fragment[2].first \in FirstNotBefore(Trak(a), AudioTime(begin))
               /\ \/ fragment[2].last = Trak(a).size
                  \/ Trak(a).pts[fragment[2].last] >= AudioTime(end)

===============================================================================
