------------------------------ MODULE HlsService ------------------------------
(***************************************************************************)
(* Players that fetch the playlist of a file and then its segments from    *)
(* the workers of one nginx location (ngx_http_streaming_module.c).        *)
(*                                                                         *)
(* Each worker has its own copy of the location's hls_conf_t. The argument *)
(* "length" of any request the handler takes up is written to that copy    *)
(* (moov.h, mp4_split_options_set), before the file is opened, and the     *)
(* playlist and the segment code read the length from there. The playlist  *)
(* repeats the arguments of its own request in every segment URL.          *)
(*                                                                         *)
(* The playlist is made from the first track of the file; a segment is cut *)
(* from the first track that output_ts may send (Fragment has its loops),  *)
(* and may come with a second one, which ends the segment when it runs out *)
(* of samples first. The file holds all the bytes its tables speak of.     *)
(*                                                                         *)
(* A worker runs the handler from start to end without giving up control,  *)
(* so a request is one step. Requests of one player may go to different    *)
(* workers; requests of other players fall between any two of them.        *)
(***************************************************************************)
EXTENDS Segmentation

CONSTANTS
    Workers,
    Sessions,           \* players of the file
    Arg,                \* Arg[s]: the argument "length" of session s, or NoArg
    NoArg,
    AudioArg,           \* AudioArg[s]: its argument "audio", 0 for none
    OtherArgs,          \* the lengths that requests of anyone else carry
    HlsLength,          \* the directive hls_length
    Movies,             \* the indexed files: sequences of tracks (see Fragment)
    Limit,              \* Limit[kind]: bytes from end to end of a fragment, see 784
    UIntRange           \* 2^32, see get_next in Fragment

Kinds == {"vide", "soun"}

\* A track's kind is its handler type, pos the places of its samples in the file.
ASSUME MoviesAssumption ==
    \A m \in Movies :
        /\ Len(m) \in Nat \ {0} /\ DOMAIN m = 1 .. Len(m)
        /\ \A k \in 1 .. Len(m) : /\ IsTrak(m[k]) /\ m[k].size > 0
                                  /\ m[k].kind \in Kinds /\ m[k].pos \in [0 .. m[k].size -> Nat]
ASSUME LengthsAssumption ==
    /\ HlsLength \in Nat \ {0}      \* ngx_http_hls_merge_conf refuses 0
    /\ NoArg \notin Nat
    /\ Arg \in [Sessions -> Nat \cup {NoArg}]
    /\ AudioArg \in [Sessions -> Nat]
    /\ OtherArgs \subseteq Nat
    /\ Limit \in [Kinds -> Nat]
    /\ UIntRange \in Nat \ {0}

NoList == <<>>

VARIABLES
    movie,              \* the file's tracks
    conf,               \* conf[w]: conf->length in worker w
    list,               \* list[s]: the playlist session s got, or NoList
    delivered           \* delivered[s]: the segments it got, in order

vars == <<movie, conf, list, delivered>>

Init ==
    /\ movie \in Movies
    /\ conf = [w \in Workers |-> HlsLength]
    /\ list = [s \in Sessions |-> NoList]
    /\ delivered = [s \in Sessions |-> <<>>]

\* conf->length after mp4_split_options_set has seen the arguments.
LengthAfter(w, arg) == IF arg = NoArg THEN conf[w] ELSE arg

SetOptions(w, arg) == conf' = [conf EXCEPT ![w] = LengthAfter(w, arg)]

-------------------------------------------------------------------------------
(* output_ts: what ?video=n and the argument audio select. *)

\* Tracks are numbered from 0, as in the code.
Trak(k) == movie[k + 1]
TrackIds == 0 .. Len(movie) - 1

\* audio = fragment_track_id ? fragment_track_id : 1
AudioTrack(s) == IF AudioArg[s] # 0 THEN AudioArg[s] ELSE 1

\* The tracks in which the loop finds sync sample n and stops with end = 1: a
\* sound track that is not the one asked for is left before.
Candidates(n, audio) ==
    {k \in TrackIds : (Trak(k).kind = "vide" \/ k = audio) /\ SampleNumbered(Trak(k), n) # {}}

\* The least member of a set, as a set of one or of none.
Least(S) == {k \in S : \A m \in S : k <= m}

\* fragment[0], if there is one: get_next with last_chunk 0.
FirstFragment(n, seconds, audio) ==
    UNION {{[track |-> k, first |-> a, last |-> NextCut(Trak(k), a, seconds)] :
              a \in SampleNumbered(Trak(k), n)} : k \in Least(Candidates(n, audio))}

\* The sync samples get_next passed in f, which it leaves in last_chunk.
Passed(f, n) == SyncOrdinal(Trak(f.track), f.last) - n - 1

\* The sync sample numbered m of a track, or its end.
SyncOrEnd(t, m) == CHOOSE s \in SampleNumbered(t, m) \cup {t.size} :
                       s = t.size => SampleNumbered(t, m) = {}

\* Faulty: stops one sync sample early.
LaterCutShort(t, a, f, n, seconds) ==
    IF Passed(f, n) = 0 THEN NextCut(t, a, seconds) ELSE SyncOrEnd(t, n + Passed(f, n))

\* get_next after fragment f: as many sync samples, unless that was none.
LaterCut(t, a, f, n, seconds) ==
    IF Passed(f, n) = 0 THEN NextCut(t, a, seconds) ELSE SyncOrEnd(t, n + Passed(f, n) + 1)

\* fragment[1], if there is one.
SecondFragment(f, n, seconds, audio) ==
    UNION {{[track |-> k, first |-> a, last |-> LaterCut(Trak(k), a, f, n, seconds)] :
              a \in SampleNumbered(Trak(k), n)} : k \in Least(Candidates(n, audio) \ {f.track})}

\* fragment_size is 2: the sound track asked for has the sync sample.
WithAudio(n, audio) == audio \in Candidates(n, audio) /\ Trak(audio).kind = "soun"

\* The fragments of a segment, as a set of one sequence or of none: with no
\* fragment found the request fails, and with only one of two the muxer follows
\* the NULL of the other (write_header).
Fragments(n, seconds, audio) ==
    UNION {IF WithAudio(n, audio) THEN {<<f, g>> : g \in SecondFragment(f, n, seconds, audio)}
                                  ELSE {<<f>>} : f \in FirstFragment(n, seconds, audio)}

BytesOf(f) == Trak(f.track).pos[f.last] - Trak(f.track).pos[f.first]

\* Faulty: refuses the fragment that is as large as the limit allows.
RefusedAtLimit(fs) ==
    \/ \E i \in 1 .. Len(fs) : BytesOf(fs[i]) \notin 0 .. Limit[Trak(fs[i].track).kind] - 1
    \/ \A i \in 1 .. Len(fs) : Trak(fs[i].track).pos[fs[i].last] = 0

\* "segment is too big" (the size is unsigned), and the sanity check after it.
Refused(fs) ==
    \/ \E i \in 1 .. Len(fs) : BytesOf(fs[i]) \notin 0 .. Limit[Trak(fs[i].track).kind]
    \/ \A i \in 1 .. Len(fs) : Trak(fs[i].track).pos[fs[i].last] = 0

MuxTime(k, j) == Rescale(Trak(k).pts[j], 90000, Trak(k).timescale)

\* The muxer takes the sample with the earlier time, fragment[0]'s of two with
\* one, and stops when either fragment is used up: where that leaves fragment[0].
SentUpTo(f, g) ==
    CHOOSE j \in f.first .. f.last :
        /\ j = f.last \/ MuxTime(f.track, j) > MuxTime(g.track, g.last - 1)
        /\ \A i \in f.first .. j - 1 : MuxTime(f.track, i) <= MuxTime(g.track, g.last - 1)

\* A segment that is not refused, as a set of one or of none: the range chosen for
\* fragment[0], and the end of what is handed to the muxer of it.
Segment(n, length, audio) ==
    {[track |-> fs[1].track, first |-> fs[1].first, last |-> fs[1].last,
      end |-> IF Len(fs) = 2 THEN SentUpTo(fs[1], fs[2]) ELSE fs[1].last] :
        fs \in {gs \in Fragments(n, length % UIntRange, audio) : ~ Refused(gs)}}

-------------------------------------------------------------------------------
GetPlaylist(s, w) ==
    /\ list[s] = NoList
    /\ SetOptions(w, Arg[s])
    /\ list' = [list EXCEPT ![s] = Entries(movie[1], LengthAfter(w, Arg[s]))]
    /\ UNCHANGED <<movie, delivered>>

\* The segment session s asks for next.
WantsSegment(s) == Len(delivered[s]) < Len(list[s])
Wanted(s) == list[s][Len(delivered[s]) + 1]

\* Faulty: takes the length before it sets the options.
GetSegmentEarly(s, w) ==
    /\ WantsSegment(s)
    /\ SetOptions(w, Arg[s])
    /\ \E r \in Segment(Wanted(s).video, conf[w], AudioTrack(s)) :
         delivered' = [delivered EXCEPT ![s] = Append(@, r)]
    /\ UNCHANGED <<movie, list>>

\* Faulty: counts the sync samples from one.
GetSegmentFromOne(s, w) ==
    /\ WantsSegment(s)
    /\ SetOptions(w, Arg[s])
    /\ \E r \in Segment(Wanted(s).video + 1, LengthAfter(w, Arg[s]), AudioTrack(s)) :
         delivered' = [delivered EXCEPT ![s] = Append(@, r)]
    /\ UNCHANGED <<movie, list>>

GetSegment(s, w) ==
    /\ WantsSegment(s)
    /\ SetOptions(w, Arg[s])
    /\ \E r \in Segment(Wanted(s).video, LengthAfter(w, Arg[s]), AudioTrack(s)) :
         delivered' = [delivered EXCEPT ![s] = Append(@, r)]
    /\ UNCHANGED <<movie, list>>

\* The request fails, because output_ts refuses the segment or for lack of memory
\* (status 500), or its answer is lost on the way: the player asks again.
SegmentFails(s, w) ==
    /\ WantsSegment(s)
    /\ SetOptions(w, Arg[s])
    /\ UNCHANGED <<movie, list, delivered>>

\* Any other GET or HEAD request to the location: another file, a missing one,
\* a player that has left.
OtherRequest(w) ==
    /\ \E arg \in OtherArgs : SetOptions(w, arg)
    /\ UNCHANGED <<movie, list, delivered>>

\* The worker exits, or crashes over a segment or anything else; the master
\* starts another in its place.
Restart(w) ==
    /\ conf' = [conf EXCEPT ![w] = HlsLength]
    /\ UNCHANGED <<movie, list, delivered>>

Next ==
    \E w \in Workers :
        \/ \E s \in Sessions : GetPlaylist(s, w) \/ GetSegment(s, w) \/ SegmentFails(s, w)
        \/ OtherRequest(w)
        \/ Restart(w)

\* A player that keeps asking for something the code does not refuse is answered
\* by some worker in the end: memory and connections do not fail it for ever.
Fairness ==
    \A s \in Sessions : WF_vars(\E w \in Workers : GetPlaylist(s, w) \/ GetSegment(s, w))

Spec == Init /\ [][Next]_vars /\ Fairness

-------------------------------------------------------------------------------
\* The files the module keeps its promises for: the first track is video, and
\* starts with a sync sample.
VideoFirst == movie[1].kind = "vide" /\ movie[1].sync[0]

\* The sessions that name a length, one that fits an unsigned int.
Explicit == {s \in Sessions : Arg[s] \in 0 .. UIntRange - 1}

\* The sound tracks whose marks were copied from the first track, that do not end
\* before it, and none of whose samples, with a tick for the rounding, lasts
\* longer than any of the video's; no other video comes between the two.
KeepingUp ==
    [m \in Movies |->
        {a \in 1 .. Len(m) - 1 :
            LET v == m[1]
                t == m[a + 1]
            IN  /\ t.kind = "soun" /\ t = WithCopiedSync(v, t) /\ MarksApart(v, t)
                /\ t.pts[t.size] >= Rescale(v.pts[v.size], t.timescale, v.timescale)
                /\ \A i \in 0 .. t.size - 1, j \in 0 .. v.size - 1 :
                     (t.pts[i + 1] - t.pts[i] + 1) * v.timescale <= (v.pts[j + 1] - v.pts[j]) * t.timescale
                /\ \A k \in 2 .. a : m[k].kind = "soun"}]

\* The sessions whose segments are sent to their ends: no second fragment, or one
\* that is not used up before the first.
WholeSession(s) ==
    LET a == AudioTrack(s)
    IN  a \notin TrackIds \/ Trak(a).kind = "vide" \/ a \in KeepingUp[movie]

\* Whatever other players ask for in between, and whichever worker answers,
\* each segment is the samples of the first track that the playlist announced,
\* handed to the muxer up to the last of them unless the sound runs out before.
AnsweredAsAnnounced ==
    VideoFirst =>
        \A s \in Explicit : \A k \in 1 .. Len(delivered[s]) :
            LET d == delivered[s][k]
            IN  /\ d.track = 0 /\ d.first = list[s][k].from /\ d.last = list[s][k].to
                /\ WholeSession(s) => d.end = d.last

\* A session that names no length still gets segments of the first track that
\* start where they were announced: only where they end depends on the length.
StartsAsAnnounced ==
    VideoFirst =>
        \A s \in Sessions : \A k \in 1 .. Len(delivered[s]) :
            delivered[s][k].track = 0 /\ delivered[s][k].first = list[s][k].from

Pieces(s) ==
    [k \in 1 .. Len(delivered[s]) |-> [from |-> delivered[s][k].first, to |-> delivered[s][k].end]]

\* The service implements Playback for the sessions that name a length.
PB == INSTANCE Playback WITH
        Viewers <- Explicit,
        Sizes   <- {m[1].size : m \in Movies},
        size    <- movie[1].size,
        whole   <- [s \in Explicit |-> WholeSession(s)],
        at      <- [s \in Explicit |-> IF ~ VideoFirst \/ delivered[s] = <<>> THEN 0
                                       ELSE delivered[s][Len(delivered[s])].last],
        out     <- [s \in Explicit |-> IF VideoFirst THEN Pieces(s) ELSE <<>>]

PlaysInOrder == PB!Init /\ [][PB!Next]_PB!vars

\* No fragment of the session's segments is above its limit.
Fits(s) ==
    \A k \in 1 .. Len(list[s]) : \A fs \in Fragments(list[s][k].video, Arg[s], AudioTrack(s)) :
        \A i \in 1 .. Len(fs) :
            LET t == Trak(fs[i].track)
            IN  /\ t.pos[fs[i].first] <= t.pos[fs[i].last] /\ t.pos[fs[i].last] > 0
                /\ t.pos[fs[i].last] - t.pos[fs[i].first] <= Limit[t.kind]

\* The samples of the first track session s has received.
Received(s) ==
    UNION {delivered[s][k].first .. delivered[s][k].end - 1 : k \in 1 .. Len(delivered[s])}

\* A player that names a length, of a file whose sound keeps up, receives its
\* playlist and, unless a segment is too big, the whole first track.
Finishes ==
    \A s \in Explicit :
        <>(/\ list[s] # NoList
           /\ VideoFirst /\ WholeSession(s) /\ Fits(s) => Received(s) = 0 .. movie[1].size - 1)

\* README.markdown, hls_length: "Set the fragment length requested without the
\* "length" argument."
DirectiveSetsLength ==
    \A s \in Sessions :
        Arg[s] = NoArg /\ list[s] # NoList => list[s] = Entries(movie[1], HlsLength)

===============================================================================
