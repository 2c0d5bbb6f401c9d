-------------------------------- MODULE Request --------------------------------
(***************************************************************************)
(* One request (ngx_streaming_handler, ngx_http_streaming_module.c): the   *)
(* arguments, the file, the movie in it (AtomTree, step by step), the      *)
(* playlist or the segment, and the answer.                                *)
(*                                                                         *)
(* A request is a record: method; slash (the URI ends in "/"); args        *)
(* (tokens, see SplitOptions); m3u8 (the path has "m3u8" in it); dot (the  *)
(* path has a dot in it); file, what is found at the path with its         *)
(* extension made ".mp4"; box, what mp4_open finds of moov; tree, the      *)
(* contents of moov. How the top-level atoms are found is in Mp4File, how  *)
(* the samples are indexed in SampleIndex, what a playlist and a segment   *)
(* hold in Playlist, Fragment and TsMux; here only whether they are made.  *)
(***************************************************************************)
EXTENDS AtomTree, SplitOptions

CONSTANTS
    Requests,
    SampleSizes         \* of audio samples, for which headers are looked at

ASSUME RequestsAssumption ==
    /\ SampleSizes \subseteq Nat
    /\ \A r \in Requests :
        /\ r.method \in {"GET", "HEAD", "POST"}
        /\ {r.slash, r.m3u8, r.dot} \subseteq BOOLEAN
        /\ r.args \in Seq(Words \cup {"=", "&"})
        /\ r.file \in {"file", "directory", "missing", "forbidden", "error"}
        /\ r.box \in {"found", "missing", "unreadable"}
        /\ IsTree(r.tree)

VARIABLES
    request,
    options,
    body,           \* what is in the bucket: "nothing", "playlist", "segment"
    answer,         \* what the handler returns or sends, and the body sent
    mishap,         \* history: memory, nginx or the segment failed
    pc  \* "begin", "path", "file", "mp4", "atoms", "output", "close", "send",
        \* "answered", "crashed"

vars == <<treeVars, request, options, body, answer, mishap, pc>>

NoAnswer == [status |-> 0, body |-> "nothing"]
Declined == 1       \* NGX_DECLINED: another handler answers

Init ==
    /\ request \in Requests
    /\ TreeInit(request.tree)
    /\ options = Defaults
    /\ body = "nothing" /\ answer = NoAnswer
    /\ mishap = FALSE
    /\ pc = "begin"

Return(status) ==
    /\ answer' = [status |-> status, body |-> "nothing"]
    /\ pc' = "answered"
    /\ UNCHANGED <<treeVars, request, options, body>>

ReturnFailed(status) == Return(status) /\ mishap' = TRUE

\* ngx_http_discard_request_body may fail.
Reject ==
    /\ pc = "begin"
    /\ \/ request.method = "POST" /\ Return(405) /\ UNCHANGED mishap
       \/ request.method # "POST" /\ request.slash /\ Return(Declined) /\ UNCHANGED mishap
       \/ request.method # "POST" /\ ~ request.slash /\ ReturnFailed(500)

SetOptions ==
    /\ pc = "begin" /\ request.method # "POST" /\ ~ request.slash
    /\ options' = IF request.args = <<>> THEN Defaults ELSE Scan(request.args)
    /\ pc' = "path"
    /\ UNCHANGED <<treeVars, request, body, answer, mishap>>

Goes(from, to) == pc = from /\ pc' = to /\ UNCHANGED <<request, options, answer, mishap>>

\* The extension is what follows the last dot.
MapPath ==
    /\ request.dot
    /\ Goes("path", "file")
    /\ UNCHANGED <<treeVars, body>>

\* Without a dot strrchr gives NULL, to which strcpy writes all the same.
PathCrashes ==
    /\ ~ request.dot
    /\ Goes("path", "crashed")
    /\ UNCHANGED <<treeVars, body>>

PathFails == pc = "path" /\ ReturnFailed(500)

\* ngx_open_cached_file
OpenErrors == [missing |-> 404, forbidden |-> 403, error |-> 500, directory |-> Declined]

NotOpened ==
    /\ pc = "file" /\ request.file # "file"
    /\ Return(OpenErrors[request.file])
    /\ UNCHANGED mishap

Opened ==
    /\ request.file = "file"
    /\ Goes("file", "mp4")
    /\ UNCHANGED <<treeVars, body>>

NoMemory == pc = "file" /\ request.file = "file" /\ ReturnFailed(500)

\* mp4_open. The walk over the file may end without a moov.
BoxUnreadable == pc = "mp4" /\ request.box = "unreadable" /\ Return(500) /\ UNCHANGED mishap

BoxMissing ==
    /\ request.box = "missing"
    /\ Goes("mp4", "output")
    /\ UNCHANGED <<treeVars, body>>

BoxFound ==
    /\ request.box = "found"
    /\ Goes("mp4", "atoms")
    /\ UNCHANGED <<treeVars, body>>

ReadAtoms ==
    /\ pc = "atoms" /\ TreeNext
    /\ UNCHANGED <<request, options, body, answer, mishap, pc>>

MoovRefused == pc = "atoms" /\ parse = "refused" /\ Return(500) /\ UNCHANGED mishap

MoovAccepted ==
    /\ parse = "parsed"
    /\ Goes("atoms", "output")
    /\ UNCHANGED <<treeVars, body>>

-------------------------------------------------------------------------------
(* moov_build_index, as far as it depends on which tables there are. *)

Table(t, slot) == Follow(t, <<"mdia", "minf", "stbl", slot>>)

NoChunks(t) == \A c \in Table(t, "stco") : atoms[c].fate = "empty"

\* stsc and stsz are followed without a test, where stbl_read only warns.
NoSizes(t) == ~ NoChunks(t) /\ (Table(t, "stsc") = {} \/ Table(t, "stsz") = {})

\* The first track at which the loop over the tracks ends early.
Stops == {t \in Traks : NoChunks(t) \/ NoSizes(t)}
Stop == Min(Stops)

\* Faulty: goes on without an index.
IndexedAlways == parse = "parsed"

Indexed == parse = "parsed" /\ Stops = {}

IndexFails == parse # "parsed" \/ (Stops # {} /\ NoChunks(Stop))

IndexCrashes ==
    /\ pc = "output" /\ parse = "parsed" /\ Stops # {} /\ NoSizes(Stop)
    /\ pc' = "crashed"
    /\ UNCHANGED <<treeVars, request, options, body, answer, mishap>>

-------------------------------------------------------------------------------
(* The output, and the answer. *)

Playlist ==
    /\ request.m3u8 /\ Indexed
    /\ Goes("output", "close")
    /\ body' = "playlist"
    /\ UNCHANGED treeVars

\* mp4_create_m3u8 returns 0, and the handler goes on all the same.
PlaylistFails ==
    /\ request.m3u8 /\ IndexFails
    /\ Goes("output", "close")
    /\ UNCHANGED <<treeVars, body>>

Segment ==
    /\ ~ request.m3u8 /\ Indexed
    /\ Goes("output", "close")
    /\ body' = "segment"
    /\ UNCHANGED treeVars

\* output_ts reads the first description of the tracks it chooses, also where
\* stsd has none.
NoDescription(t) == \A d \in Table(t, "stsd") : atoms[d].entries = <<>>

SegmentCrashes ==
    /\ pc = "output" /\ ~ request.m3u8 /\ Indexed
    /\ \E t \in Traks : NoDescription(t)
    /\ pc' = "crashed"
    /\ UNCHANGED <<treeVars, request, options, body, answer, mishap>>

\* mp4_context_exit
Release == IF parse = "parsed" THEN MoovExit ELSE UNCHANGED treeVars

\* output_ts returns 0, with or without an index: mp4_close, and the answer.
SegmentFails ==
    /\ pc = "output" /\ ~ request.m3u8 /\ (IndexFails \/ Indexed)
    /\ mishap' = (mishap \/ Indexed)
    /\ Release
    /\ answer' = [status |-> 500, body |-> "nothing"]
    /\ pc' = "answered"
    /\ UNCHANGED <<request, options, body>>

Close ==
    /\ Goes("close", "send")
    /\ Release
    /\ UNCHANGED body

\* ngx_http_set_content_type, ngx_list_push, ngx_http_send_header
SendFails == pc = "send" /\ ReturnFailed(500)

\* With HEAD the headers only.
Send ==
    /\ pc = "send"
    /\ answer' = [status |-> 200, body |-> IF request.method = "HEAD" THEN "nothing" ELSE body]
    /\ pc' = "answered"
    /\ UNCHANGED <<treeVars, request, options, body, mishap>>

Next ==
    \/ Reject \/ SetOptions \/ MapPath \/ PathCrashes \/ PathFails
    \/ NotOpened \/ Opened \/ NoMemory
    \/ BoxUnreadable \/ BoxMissing \/ BoxFound
    \/ ReadAtoms \/ MoovRefused \/ MoovAccepted
    \/ IndexCrashes \/ Playlist \/ PlaylistFails
    \/ Segment \/ SegmentCrashes \/ SegmentFails
    \/ Close \/ SendFails \/ Send

Spec == Init /\ [][Next]_vars

-------------------------------------------------------------------------------
\* The one pass over the arguments sets what the pairs name, each by its own key
\* and value only, and the last of two pairs for an option wins.
OptionsAsNamed ==
    pc \notin {"begin", "answered"} => options = AsNamed(request.args)

\* By the file alone: an entry of stsd in which nothing is cut short.
SoundEntry(e) ==
    LET boxes == ToSet(e.boxes)
        inner == UNION {ToSet(b.boxes) : b \in {w \in boxes : w.type = "wave"}}
    IN  e.fixed /\ e.extended /\ e.version <= 2 /\ \A b \in boxes \cup inner : b.fate = "good"

\* Atom k and what is in it have no bad sizes, all that must be there, and no
\* atom twice.
Children(k, type) == {j \in 1 .. Len(atoms) : atoms[j].up = k /\ atoms[j].type = type}
Within(k) == IF k = 0 THEN Atoms ELSE k .. After(k) - 1
SoundAtoms(k) ==
    \A j \in Within(k) :
        /\ j # 0 => atoms[j].fate \in {"good", "vide", "soun", "hint", "large"}
        /\ TypeOf(j) = "stsd" =>
             atoms[j].entries # <<>> /\ \A e \in ToSet(atoms[j].entries) : SoundEntry(e)
        /\ IsContainer(j) =>
             /\ \A m \in Reads[TypeOf(j)].mandatory : Children(j, m) # {}
             /\ \A i \in j + 1 .. Len(atoms) :
                  atoms[i].up = j /\ TypeOf(i) \notin {"trak", "trex"} /\ TypeOf(i) \in Reads[TypeOf(j)].list =>
                      Cardinality(Children(j, TypeOf(i))) = 1

\* Is video or audio; such a track has all its tables.
Played(t) ==
    \A m \in Children(t, "mdia") : \A h \in Children(m, "hdlr") : atoms[h].fate # "hint"
HasTables(t) ==
    \A j \in Within(t) :
        TypeOf(j) = "stbl" =>
            /\ Children(j, "stsc") # {} /\ Children(j, "stsz") # {}
            /\ Children(j, "stco") \cup Children(j, "co64") # {}

SoundMovie ==
    /\ request.box = "found"
    /\ SoundAtoms(0)
    /\ \A j \in Atoms : Cardinality(Children(j, "trak")) <= MaxTracks
                        /\ Cardinality(Children(j, "trex")) <= MaxTracks
    /\ \E t \in Children(0, "trak") : Played(t)
    /\ \A t \in Children(0, "trak") : Played(t) => HasTables(t)

\* What is answered is true: only a movie that was read and indexed is played or
\* listed, and only a GET that nothing stopped gets a body; without one the
\* status 200 is that of a playlist for which there is no index; what the program
\* holds is released with every answer; a movie that is sound by its file, asked
\* for by a path with a dot, is answered as asked unless something else fails; and
\* the program crashes only for a path without a dot or on a movie that is not
\* sound (a track without stsc or stsz, or a stsd without entries).
AnswerTrue ==
    /\ pc = "answered" =>
         /\ answer.body # "nothing" =>
              /\ answer.status = 200 /\ request.method = "GET" /\ request.file = "file"
              /\ request.m3u8 = (answer.body = "playlist")
              /\ parse = "closed" /\ result /\ Stops = {}
         /\ answer = [status |-> 200, body |-> "nothing"] =>
              \/ request.method = "HEAD"
              \/ request.m3u8 /\ (parse # "closed" \/ Stops # {})
         /\ parse \in {"closed", "refused"} \/ (parse = "loop" /\ at = 1)
         /\ SoundMovie /\ request.file = "file" /\ request.method = "GET" /\ ~ request.slash /\ request.dot =>
              mishap \/ answer = [status |-> 200, body |-> IF request.m3u8 THEN "playlist" ELSE "segment"]
    /\ pc = "crashed" => ~ request.dot \/ ~ SoundMovie

\* What the streams are announced with is what the file says of them: the
\* parameter sets of the video are sets of its avcC, the only ones if there is
\* one of each; and a player that reads the header of an audio frame finds the
\* end of the frame, and the rate and the channels of the track, if the rate has
\* an index, the channels fit their three bits and the frame its thirteen.
StreamsDescribed ==
    pc = "output" /\ Indexed =>
        \A t \in Traks : \A d \in Table(t, "stsd") : atoms[d].entries # <<>> =>
            LET raw == atoms[d].entries[1]
                avcC == {b \in ToSet(raw.boxes) : b.type = "avcC"}
                sps == UNION {ToSet(b.sps) : b \in avcC}
                pps == UNION {ToSet(b.pps) : b \in avcC}
            IN  IF Handler(t) = {"vide"}
                THEN LET entry == ParseVide(raw)
                     IN  raw.fourcc # "ovc1" =>
                             /\ IF sps = {} THEN entry.sps = NoSet ELSE entry.sps \in sps
                             /\ IF pps = {} THEN entry.pps = NoSet ELSE entry.pps \in pps
                ELSE \A size \in SampleSizes :
                         7 + size < 8192 /\ raw.channels < 8 =>
                             LET header == Reading(Adts(ParseSoun(raw), size))
                             IN  /\ header.syncword = 4095 /\ header.layer = 0
                                 /\ header.protection_absent = 1 /\ header.raw_data_blocks = 0
                                 /\ header.frame_length = 7 + size
                                 /\ header.channel_configuration =
                                        IF raw.channels = 3 THEN 6 ELSE raw.channels
                                 /\ raw.rate \in ToSet(aac_samplerates) =>
                                        aac_samplerates[header.sampling_frequency_index + 1] = raw.rate

===============================================================================
