# nginx-hls-module: specifications

TLA+ specifications, TLC models and TLAPS proofs for the nginx module in `src/`:
it answers `NAME.m3u8` and `NAME.ts?video=N` from `NAME.mp4`, cutting the file
into HLS segments at every request. Nothing is cut in advance and nothing is kept
between two requests but the configuration, so everything a player relies on
(segments that fit together, audio that goes with the video, a playlist that is
true) rests on separate computations giving the same result.

## 1. The system

One nginx worker runs a request's handler from start to end without giving up
control; the master starts several workers and starts a new one when one dies.
Line numbers are those of `src/src/`.

| part | where | state | operations |
|---|---|---|---|
| request handler | `ngx_http_streaming_module.c` 61-236 | per request: options, path, bucket, context | method and path checks, options, open the file, playlist or segment, response |
| configuration | `ngx_http_streaming_module.c` 17-58, `.h` 39-44 | `hls_conf_t` of a location, a copy per worker | create, merge; **written by every request that names a length** |
| argument parser | `moov.h` 143-239 | `mp4_split_options_t`, `conf->length` | scan `key=value&...` |
| playlist writer | `output_m3u8.h` | pointers `cur`, `prev`, counters `i`, `prev_i` | one loop over the samples of the first track |
| fragment selection | `output_ts.h` 664-747 | two fragments, `last_chunk`, `audio_tracks` | a walk per track, `get_next` |
| 90 kHz conversion | `output_ts.h` 749-760 | `pts_`, `cto_` of the samples, in place | |
| stream muxer | `output_ts.h` 142-660 | streams, continuity counters, next PAT time, audio payload | PAT, PMT, video and audio packets |
| sample loop | `output_ts.h` 774-851 | fragment pointers, `order`, data window | interleave by time, flush audio, stop |
| bucket chain | `output_bucket.h` | chain of buffers, length | init, insert |
| file window | `mp4_io.h` 617-666 | buffer, its size, file offset | `mp4_read` |
| top-level atoms | `mp4_io.h` 668-812 | `moov_atom`, `mdat_atom`, `moov_data`, offset | walk, `read_box`, open, close |
| atom parser | `mp4_reader.h` 34-1592, `mp4_io.h` 816-1591 | tree of atoms | readers, owners' init/exit |
| sample index | `mp4_reader.h` 1594-1810 | chunks and samples of each track | `trak_build_index`, copy of sync marks, `moov_build_index` |
| time tables | `mp4_io.h` 1364-1438, `moov.h` 63-141, 241-265 | none | time/sample conversions; not on the way to a response |
| ADTS headers | `mp4_io.h` 1286-1345 | none | the seven bytes before an audio frame |
| view count, logging | `view_count.h`, `mod_streaming_export.h` | none | none (an empty stub) |

How they interact: the handler parses the arguments (which may write
`conf->length`), opens the file through a window, parses `moov` out of that
window, and calls the playlist writer or `output_ts`. Both call
`moov_build_index`; both read `conf->length`. The playlist repeats its own
arguments in each segment URL and puts the number of a sync sample there;
`output_ts` counts sync samples up to that number again. `output_ts` selects one
fragment of the video and one of the audio track, converts their times, reads
the bytes they span in one window and interleaves them into the bucket chain the
handler sends.

What makes each part correct, and what is hard about it, is listed with its line
under `hazards` in `PROJECT.json`. In short:

* **agreement** - playlist, segment requests of any worker, and the audio and
  video of one segment are cut by separate loops that must agree
  (`Playlist`, `Fragment`, `HlsService`);
* **leftover configuration** - the length of one player's request changes what the
  next request is served with (`HlsService`);
* **ambiguous and narrow values** - `last_chunk = 0`, `u_int seconds`, numbers
  taken before or after an increment (`Fragment`, `Playlist`);
* **ends** - the tail of a file, the last audio payload, the track that ends
  first, the window at the end of the file (`Playlist`, `TsMux`, `Mp4File`);
* **sizes computed before they are needed** - packets reserved before they are
  written, a window cut before it is read (`TsPacket`, `Mp4File`);
* **one step of several failing** - a chain link, a read, an allocation
  (`BucketChain`, `Mp4File`, `TsMux`), a reader of an atom, a step of the handler
  (`AtomTree`, `Request`);
* **tables that do not agree** - five tables of one track count its samples
  independently, and loops over one of them write arrays sized by another
  (`SampleIndex`); of the atoms the program needs some may be missing (`AtomTree`).

## 2. Modules

`Segmentation` holds the definitions the others share, without state: a track
(`IsTrak`: what the index keeps per sample), when a segment is long enough, where
it ends (`NextCut`), how sync samples are numbered (`SyncOrdinal`), the playlist
as a function (`Entries`), and how an audio track gets the video's sync marks
(`CopiedSync`; `MarksApart` says when no two of them come out on one audio sample). A
sample is a number; `size` is the extra sample with the end time. Durations are compared exactly where the code uses `float`: both loops
evaluate the same expression, so they round alike.

`Playlist` is the loop of `mp4_create_m3u8`. Its variables are the code's;
`SkipNonSync`, `PassSync` and `WriteEntry` are the three ways through the body,
`Finish` writes `#EXT-X-ENDLIST`. An entry keeps the number in the URL and the
two samples whose distance the `#EXTINF` line gives.

`Fragment` is `output_ts` up to the choice of fragments, one action per way
through the two loops, and `get_next` as three actions (`GetNextSkip`,
`GetNextPass`, `GetNextReturn`). A movie is a sequence of tracks of kind `vide`
or `soun`; other tracks are dropped by the parser.

`HlsService` composes requests: `conf[w]` is `conf->length` in worker `w`. A
request is one step, because the handler does not give up control; it first
writes its `length` argument to `conf[w]` (`SetOptions`), then a playlist
(`Entries` of the first track) or a segment is computed from it. A file is a sequence
of tracks with their kinds and the places of their samples. `Segment` is `output_ts` as
a whole: which tracks may be sent (`Candidates`, with the test of 718-719 that leaves a
sound track other than the one asked for), the fragments cut from them (`FirstFragment`,
`SecondFragment`, `LaterCut` with its `last_chunk`), the sizes that are refused
(`Refused`), and how far the sample loop gets in the first of two fragments before
the second is used up (`SentUpTo`). `delivered` keeps both the range chosen and where
the samples handed to the muxer end. `OtherRequest` is anybody else's request, even
for a file that does not exist, since the arguments are parsed before the file is
opened; `SegmentFails` is an error - every answer to a segment that is refused - or an
answer that is lost, after which the player asks again; `Restart` is a worker's
replacement. `Playlist` and `Fragment` check that the functions are what the loops
compute (`MatchesEntries`; `FirstFragmentCut`, `SecondFollowsFirst`, `ChosenByNumber`).

`Playback` is the abstract specification: a viewer gets the segments of the file one
after the other, each from where the one before was to end; a viewer that is promised
the whole file gets every sample of them, the others may miss some at the end of a
segment. `HlsService` implements it (`PlaysInOrder`) for players that name a length:
`at` is the end of the last range chosen, `out` the pieces handed to the muxer, and
the whole file is promised where the sound cannot run out before the video
(`WholeSession`: there is none, or its marks are those of the video, it does not end
before it, and no sample of it is longer than one of the video - `KeepingUp`).

`TsMux` is the rest of `output_ts`, from the conversion of times to the release of
the muxer. The fragments come from `Inputs`, which stands for what `Fragment` can
have chosen. Per fragment there are `first` (the sample to come) and `stream`, the
code's `mpegts_stream_t`, with the pieces of audio frames in place of the bytes of
`payload_`; `mux` has the counters and the time of the tables. `Choose` and
`ChooseFlush` are the head of the loop, `AudioCopy` and `AudioCopyFlush` one turn
of the loop in `write_audio_packet`, `AudioDone` what follows the two calls of it,
`VideoSent` and `VideoDropped` the ways through `write_video_packet`. `sent` is
what `write_packet` was called for, in order, with what became of it: a PES packet
is in the bucket (`"pes"`), was built and then dropped by `bucket_insert`
(`"dropped"`; its counters and `packets_` have been used), or found no memory to be
built in (`"lost"`; nothing has been used but what the tables before it did). Tables
are in the bucket or not (`kept`). `Outcomes` are the ways the up to three calls of
`bucket_insert` in one `write_packet` can end; `bucket` is what is left of `BucketChain`
that decides whether the next call follows a NULL. `window` is what was read for
sure: up to the end of the span or of the file. Behind it `convert_to_nal` may find
anything, and reading may crash (`Crash`); a buffer that was larger already may hold a
little more, and the model allows for both.

`TsPacket` looks into `write_packet`: one step per packet of 188 bytes, with the
adaptation field, the PES header, the payload and the stuffing as lengths.
`PesLayout` holds the reckoning both share, `packetized_packets` above all: `TsMux`
advances a stream's counter by that number, and `TsPacket` shows that it is the
number of packets written (`ReservedExactly`).

`BucketChain` is `output_bucket.h`: a sequence of links, and the pointer at the
last one as a number, so that "one behind the chain" is the NULL left by a link
that could not be allocated.

`Mp4File` is `mp4_read` and `mp4_open`. `window` has the three values the code
keeps (`buffer`, `buffer_size` as `size`, `file->offset` as `end`) and two it does
not: the position the bytes in the buffer came from, and how many they are. `read`
is the last request to `mp4_read` and the pointer it returned. The walk reads a
header (`ReadHeader`, `ReadExtended`), judges it, and reads `moov` whole
(`ReadBox`); bytes that are not those of the file are read as any atom of
`Lookalikes`. `ReadData` is the one read of `output_ts`. Sizes have the width of
`size_t` (`SizeRange` values): cut behind the end of the file a size wraps, and there is
no memory for one of half the range or more (`NoRoom`); as an `off_t` it is negative
(`Signed`).

`SampleIndex` is `moov_build_index`. A track is its tables as the readers left them;
one action is the inner loop for one entry of a table (`MapChunks`, `TimeEntry`,
`OffsetEntry`), one sample placed (`PlaceSample`) or one sync mark copied
(`CopyMark`). `outside` is set by the step that writes behind an array, and nothing
follows it. The arrays that come from `malloc` hold any of `Garbage`. What it
builds is what the other modules start from: `IndexTrue` says that the tracks
satisfy `IsTrak` of `Segmentation`, and `AudioMarked` that the copied marks are
`WithCopiedSync`, which `Fragment` uses.

`TimeTables` are the lookups that go to the tables instead of the index, and the
alignment of a cut over all tracks, as functions. A loop over a table is the entry at
which it stops (`TimeStop`, `SampleStop`, `ScanStop`) and the sums over the entries
before (`Counted`, `Spanned`); the alignment is taken turn by turn over the two passes
(`Turn`, `InPass`). `SampleIndex` compares them with the index (`LookupsAgree`).

`AtomTree` is `moov_read`: the loop of `atom_reader` over atoms, one action per way
through it, with the containers being read in `open`. An atom has a *fate*: what
its reader finds (too short, a count larger than the atom, a broken size). `owner`
says which block points to which, `allocated` and `freed` what has been made and
released, so that `Reach` of a block is what its `_exit` releases. A container's
reader ends in one of `ContainerFails`, `TrakTurnedAway` (no room),
`TrakIgnored` (neither video nor audio), `ContainerRead` or `MoovRead`. Two details
of the loop are kept because the properties depend on them: a reader that fails
returns NULL, which the caller compares with the end of its own container, so that
an atom failing right at the end counts as success (`Endmost`); and some readers
make their block before they look at the size (`MadeFirst`), and lose it.

`SampleEntry` is what becomes of an entry of `stsd` (`ParseVide`, `ParseSoun`, with
`esds` and `wave`), and the ADTS header made from it, as a set of bit positions, so
that a value too wide for its field does what it does in the code. `Reading` is what
a decoder finds in the header.

`SplitOptions` is the scanner of the arguments over tokens ("=", "&" and words):
`Scan` is the loop with its four positions. `Names[w]` says which option a word is a
beginning of, because names are compared over the length of the key given.

`Request` composes `AtomTree` and `SplitOptions` to one request through
`ngx_streaming_handler`: from the method to the answer, every return in between, with
what is released at each. `PathCrashes` is the path without a dot, for which `strrchr`
gives the NULL that `strcpy` then writes to. A request brings the file with it: what is found at the
path, whether `mp4_open` finds `moov` (how is `Mp4File`), and the atoms in it. From
there on only what depends on which atoms there are is kept: `moov_build_index`
fails for a track without chunks and follows a NULL for one without `stsc` or `stsz`;
the contents of a playlist or a segment are in `SampleIndex`, `Playlist`, `Fragment`
and `TsMux`.

The `MC` modules give the constants values for TLC. `X_proof` holds the theorems about
`X` and their proofs: of `Segmentation`, `Playlist`, `Fragment`, `HlsService`, `TsMux`
and `Request`; `Output_proof` has those about `TsPacket` and `BucketChain`, and
`Mp4Reader_proof` those about `Mp4File` and `SampleIndex`, each an invariant of its own.
Definitions marked *Faulty* are variants of the one that follows, each with a
plausible mistake; they are used in place of it to see that a property notices.

## 3. What is checked

| run | question | bounds | result |
|---|---|---|---|
| `playlist` | is the playlist complete, servable, free of repeated URLs, within its target duration? | all tracks of 0 to 4 samples with any marks; durations of 1999, 2000, 3998 and 6001 ticks at 2000 a second; lengths 0 to 3 | holds |
| `fragment` | does a request get the samples its number names, cut where the playlist says, with audio that covers the video? | a video of 3 samples with every audio of 1 to 4 samples, and smaller movies with the audio first, with own audio marks, with two videos or two audios, or audio alone; lengths 0, 1, 2, 5; numbers 0 to 2 | holds |
| `service` | do segments fit together whatever other requests come between, and is what was announced handed out? | 2 workers, 3 players (1 s; 3 s with another sound track; no length), others asking for 5 s, 6 files of one to three tracks of 2 to 10 samples | holds |
| `packet` | is a PES packet cut into exactly the packets memory was reserved for? | payloads of 1 to 560 bytes near the sizes that matter, with and without clock, 0 to 2 time stamps, two PES packets in a row | holds |
| `mux` | do two fragments become one stream: whole audio, right times, in order, tables, parameter sets and counters in step, from bytes that were read? | one or two fragments of up to 3 samples, audio or video first, sizes below and above a payload, times of 0.3 to 70 s, one failing allocation or read of any kind, files that end before the samples, among them or behind | holds |
| `delivered` | are all samples of the chosen fragments in the segment, as the README of the module says? | as `mux` | **violated** |
| `bucket` | has the chain one end mark, on its last buffer? | 5 inserts, each of which can fail in three places | holds |
| `file` | does the window hold what the code takes it to hold, do reads return what was asked for, does the walk find `moov` and `mdat` and end? | files of 2 or 3 atoms of 8 to 32 bytes, whole or with the last 5 bytes missing; window of 16, limit of 24; sizes of 10 bits; one failing read | holds |
| `index` | do the tables of a track become the samples they speak of, and where can tables that do not agree lead the loops astray? | one track of 3 samples in 0 to 2 chunks with agreeing and wrong tables of every kind; video and audio of 3 or 4 samples with other clocks, in both orders; audio alone of 6 samples; key frames at the time 0 of a coarser clock | holds |
| `implicit_sync` | is a video track without `stss` all sync samples, as a comment says? | as `index` | **violated** |
| `request` | is a movie that is accepted whole, what was allocated released once, the arguments set as named, the streams announced as described, the answer true? | a movie of 13 atoms with every one or two of them missing, doubled, too small, broken or followed by an unknown one; one of 22 atoms with one such change; 1 to 3 tracks with room for 2; sample descriptions with up to 2 boxes; all arguments of up to 6 tokens; every method, path, kind of file | holds |
| `directive` | does `hls_length` set the length of requests without the argument, as the README of the module says? | as `service` | **violated** |

Why the bounds are enough. In `playlist` one tick is the code's tolerance of
0.0005 s, so durations lie below, within and above it, and a length of 2 or 3 can
take one, two or three intervals; four samples give a first, a last and two inner
segments. In `fragment` `UIntRange` is 4 in place of 2^32, so that a length of 5
is cut to 1 as the code's `u_int` would; the timescales are 2 and 3, so that
converting rounds; with three sync intervals `last_chunk` is 0, 1 and 2. In
`service` two workers are enough for a playlist and its segments to come from
different ones, and the files are: one with uneven key frames and a sound that keeps
up; one with two sounds, of which the first ends before the video, so that its segments
are cut short, and the second does not; one with a segment a byte above the limit; one
that does not start with a key frame; one with the sound first, of which the playlist
announces the sound and video is sent; and sound alone, of which nothing is. `UIntRange`
is 4, so that others asking for 5 s leave a length of 1 s to `get_next` and of 5 s to
the playlist.

In `packet` the first packet holds 162 to 175 bytes, so the sizes around each
multiple of 184 decide whether a packet more is needed and whether the stuffing is
none, one byte, or more; `CounterRange` is 4 in place of 16. In `mux` an audio
sample of 5864 bytes leaves three bytes of the payload for the next header, and one
of 12000 fills two payloads and more; 0.3 s makes the third sample find the payload
half a second old, and 70 s is longer than `PAT_DELTA`. `NoPts` is 2^30, above all
times in the run as 2^63 is above those of the code. `FileSizes` has a file that ends
before the span of most fragments begins, one that ends in it, and one that holds it;
with one failure a link of the chain can be missing and the next insert follow it, or
tables, a payload or a video packet be dropped on its own. In `file` a header can be read
from the window or anew, `moov` (20 or 32 bytes) is larger than the window and
below or above the limit, and a fragment is read before, behind and across the
window; `SizeRange` is 1024, so that what wraps behind the end of a file is far above
every size the files have.

In `index` the clocks of movie, video and audio have 5, 2 and 3 ticks a second, so
that converting times rounds; the chunks lie forwards and backwards in the file, one
sample size is common or each has its own, and `Garbage` has a number that is too
small and one that is not. One `stss` is out of order, and with clocks of 3 and 7
ticks (`Coarse`) the second key frame of a video of 7 ticks is at the time 0 of the
movie's clock or of the audio's. In `request` the small movie has each mandatory atom
once, so two changes reach every pair of failures; two places for tracks make the
third one turned away; the sizes of audio samples are those around the limit of the
13 bits of an ADTS frame's length, less 7, and small ones; six tokens are two pairs
whose last value is empty.

What the properties say:

* `EntriesTile` - the entries cut the whole first track, for any track.
* `EntriesServed` - the number in each URL is that of the entry's first sample and
  `get_next` would stop at its last. It is stated for tracks whose first sample
  is a sync sample: otherwise the first entry starts at sample 0, `output_ts`
  starts at the first sync sample, and number 0 can appear twice.
* `TargetDuration` - `length + 3` bounds every entry if sync samples are at most
  3 s apart; with longer gaps the code announces a bound it does not keep.
* `SecondFollowsFirst` - the second fragment spans as many sync intervals as the
  first, except when the first spans one: then `last_chunk` is 0, which
  `get_next` reads as "not set", and the second is measured by its own times.
* `AudioCoversVideo` - with copied marks the audio starts with the video fragment
  and lasts at least as long, unless one audio sample took the marks of two video
  samples (`MarksApart`): from there on the numbers of the audio are behind.
* `SlotsFilled` - the rest of `output_ts` looks at `1 + audio_tracks` fragments.
  They are all there if the audio has the video's marks; an audio track with an
  `stss` of its own can leave slot 1 counted and empty.
* `AnsweredAsAnnounced`, `PlaysInOrder`, `Finishes` - for players that name a
  length below 2^32, of files whose first track is video and starts with a key frame.
  Of other files nothing is promised: with sound first the playlist announces the sound
  and `output_ts` sends the video, or nothing if there is none. Each segment is the
  range announced; that all its samples are handed out, too, is claimed only where the
  sound keeps up with the video. `Finishes` asks besides that no fragment of the
  session is above its limit (`Fits`): one that is, is refused at every request.
  `StartsAsAnnounced` holds without a length too: where a segment starts depends on its
  number only, so such a player gets overlaps and gaps at the ends of segments, never
  a wrong start.

* `ReservedExactly` - the comment "reserve the exact number of packets we need for
  this payload" (`output_ts.h` 398) holds: nothing is written behind the memory and
  none of it is left as `malloc` gave it. `PacketFilled` adds that the marks of a
  stream's first packet (`buf[5]`) are written into a byte of the adaptation field.
* `AudioWhole` - audio frames cut over payloads leave as they came, every piece
  once and none kept back at the end, also when an allocation failed in between
  (what was lost then is one PES packet).
* `PesTimes` - a payload in which no audio sample begins has no time of its own, and
  the next is stamped anew. `TablesInTime` - such a payload neither brings the
  tables forward nor sets the time of the next ones; the PAT and PMT a packet has
  before it are at most `PAT_DELTA` old, unless `bucket_insert` dropped those due since,
  and what was dropped is not made good before the next are due. (The comment at
  `output_ts.h` 21 says "every 100ms"; the value two lines below is 60 s, and the
  property is about the value.)
* `ParametersFirst`, `CountersContinue` - samples that are too small, cannot be
  converted or find no memory leave the parameter sets, and the counters, to the next.
  A packet that was built and then dropped by `bucket_insert` does not: `packets_`, `cc_`,
  `pat_cc_` and `pmt_cc_` have been advanced by then (565, 431, 249, 299; the insert is at
  573, 274, 335). So a gap in a counter is exactly where packets are missing that
  were built, and a segment whose first video packet was dropped has no parameter sets.
* `OnlyTailLeft` - what is left of a fragment when the other is used up is not
  earlier than the last sample taken of that one; `FragmentsDelivered`, that nothing
  is left, is the finding below.
* `InWindow` - for samples whose positions grow and do not overlap, as the index of a
  well-formed file has them, and that end before the file does. `mp4_read` returns
  `NGX_OK` also where the file ends first, and the loop then copies from behind what
  was read.
* `EndMarked`, `PointerValid` - of the three allocations of `bucket_insert` the first
  two may fail without harm to the chain; after the last, that of the link, it has
  no end mark, and the next insert follows a NULL. Both are stated for chains where
  the last did not fail.
* `WindowTrue`, `ReadsTrue` - with `~ poisoned`: after `ngx_read_file` failed, the
  offset and the new buffer are those of no read, and a read that falls between
  them is answered from it. The code goes on reading after a failure only when
  a header could not be read and `moov` had been. `ReadsTrue` also says what happens
  at the end of the file: the read succeeds with fewer bytes than asked for.
* `BufferBounded` - what is asked of `ngx_palloc` is bounded by the directives or the
  fragment, with one exception: behind the end of the file it is nearly 2^64 bytes.
  There is no memory for them, and the property says that nothing is read afterwards.
* `IndexTrue` - of tables that agree (`Agree`) each sample has the time, offset,
  position, size and mark they give it, and the end sample is where the samples of the
  last chunk end, a chunk without samples included. `InBounds` - of tables that do not, only
  these lead a loop behind its array: an `stts` or `stss` that counts too many, and
  entries of `stsc` out of order. `stco`, `stsz` and `ctts` may count as they like.
* `AudioMarked` - what the audio gets without a table of its own; in a movie without
  video a mark every two seconds, so that `TargetDuration` holds of it.
* `LookupsAgree` - `stts_get_time`, `stts_get_sample` and the key frame before a
  sample are the index's. The second needs that no entry has a duration of 0 (`Dense`;
  the loop divides by it), the third that `stss` is in order and does not begin behind
  the sample (`Ascending`; the scan stops at the first number not below the sample's,
  and takes the one before). A cut is moved to the last key frame that no sample from
  the moment on is before (`KeyBefore`), and the other track follows at its first sample
  not before that (`Following`), whatever the order of the tracks in the file. Times are
  rounded down to the movie's clock on the way: an end whose key frame comes out at the
  time 0 stands for no end in the tracks after, and `end && start >= end` lets it
  pass; in all other cuts there is something of both tracks between start and end.
* `TreeWhole` - what the rest of the program follows without a test is there in
  every tree that is accepted, and no track of the file is missing from it. The one
  exception is what `Endmost` does: an empty `trak` as the last atom of `moov`
  fails and counts as success.
* `Owned` - nothing is released while it is in use, and nothing is left when the
  request is over but what `Lost` names: blocks of leaves made before their size
  was looked at, blocks whose pointer a second atom of the type took, the unknown
  atoms before a large one, and what hangs on such a block.
* `OptionsAsNamed` - the scanner equals a reading of the arguments pair by pair, with
  the last pair for an option winning.
* `AnswerTrue` - a body only with status 200, for a GET, from a movie that was read
  and indexed; 200 without a body, other than for HEAD, only for a playlist whose
  index could not be built (the status 415 of line 203 is never sent); what the
  parser made is released with every answer; a sound movie, asked for by a path with a
  dot, is answered as asked, unless memory or nginx failed; and the handler crashes
  only for a path without a dot, or on a movie that is not sound: a track without
  `stsc` or `stsz`, or an `stsd` without entries.
* `StreamsDescribed` - the parameter sets sent with the video are sets of its `avcC`;
  a player that reads the header of an audio frame finds the end of the frame, and
  the rate and channels of the track. With three limits, each a place where the code
  does not keep the fields apart: frames of up to 8184 bytes, fewer than eight
  channels, and rates that have an index (96000 and 88200 do not fit the 16 bits of
  the entry and are announced as whatever is left, or as 44100).
* `FindsBoth` - in a file whose atoms follow each other, both orders of `moov` and
  `mdat` and 64-bit sizes included.

**Fairness.** `HlsService` assumes weak fairness of `GetPlaylist` and `GetSegment` of each
player, over all workers together. `GetSegment` is enabled only where the code has a
segment to give: for one that is refused (a fragment above its limit, a sound track
that is not sent, a fragment slot that stays empty) it never is, `SegmentFails` is all
there is, and the fairness promises nothing. Where it is enabled whatever the other
requests do, a player that keeps asking is answered in the end: it is a loop that
fetches the next entry, the handler always returns, and nginx accepts connections in
turn. Left out are a network that loses every answer and a server that is out of memory
for ever. No fairness is assumed of other players, restarts or failures. The other modules
claim no liveness, but for `Mp4File`: weak fairness of `OpenNext` says that the
handler, which runs in one go, takes its next step; `Ends` is that the walk over
the atoms and the request end. Sizes so near 2^64 that the sum in `mp4_open` wraps
are not among the atoms of the model, and `Ends` says nothing of them.

**Findings.** (`directive`) The README of the module says of `hls_length` "Set the
fragment length requested without the "length" argument". `moov.h` line 207
stores the argument of a request in the location's configuration, so a later
request without it is served with that length until the worker exits.

(`delivered`) The README says that the module "packages one into fragments, and
delivers the fragments to iOS clients". The loop of `output_ts` ends as soon as one
of the two fragments is used up (lines 799-804); samples left of the other are in no
segment, because the next one begins where this fragment ends. When the audio
fragment outlasts the video the end of its audio is missing, in the other case the
last video samples.

(`implicit_sync`) `mp4_io.h` line 1221 says "If the sync atom is not present, all
samples are implicit sync samples." `stbl_get_nearest_keyframe` does so, but the
index (`mp4_reader.h` 1722) marks samples from a table only: of a video track without
one the playlist lists a single segment, and no segment of it is found.

## 4. What is proved

Each theorem holds for every value of the constants that satisfies the named
assumptions, and these are what the code relies on:

* `TraksAssumption` of `Playlist`, `MoviesAssumption` of `Fragment` and `HlsService`: tracks are
  records well formed as `IsTrak` says, that is, times do not decrease and the end
  sample is marked; a file has a track, of video or sound, and a track a sample. Lengths
  are naturals, the configured one is not 0 (the merge of the configuration refuses it).
  Nothing is assumed of the order of the tracks, their marks or sizes; where a
  property needs that, it says so (`VideoFirst`, `WholeSession`, `Fits`).
* `FilesAssumption` of `Mp4File`: no two atoms of a file begin at the same byte, and sizes
  and positions are below half of `SizeRange`, as an `off_t` is.
* `IndexAssumption` of `SampleIndex`: the entries of the tables are naturals (`IsTables`), the
  offsets of `ctts` integers; a track has `stss` or not, and without it no entries of it.
  Nothing is assumed of how the tables of a track fit together: where a property needs
  that, it says so (`Agree`).
* `InputsAssumption` of `TsMux`: one or two fragments, the times of which do not
  decrease; converted to 90 kHz, and with the delay and the interval of the tables
  added, they are below `NoPts`, the code's `NOPTS_VALUE` (2^63, some three million
  years).
* `RequestsAssumption` of `Request`: the contents of `moov` are a tree (`IsTree`): an atom
  lies within its container.
* `PayloadAssumption`, `SizesAssumption`, `BoundsAssumption` and the like: sizes are
  naturals, and a payload or a buffer is not empty.

The invariant each module's proof turns on:

* `Segmentation_proof`: the lemmas on `SyncOrdinal` (it grows by one exactly at
  sync samples, so numbers are unique) and on `NextCut`, on which the next three rest.
* `Playlist_proof`: `TypeCorrect`, `PlaylistTiles`, `PlaylistServed`,
  `UrlsDistinct`, `TargetDurationHolds`, `LoopWritesEntries`. The inductive invariant
  `IInv` adds to the properties that `i` is `SyncOrdinal(cur)` and `prev_i` is
  `SyncOrdinal(prev)` (`Pointers`), that no sample between `prev` and `cur` ends a
  segment (`NoCutPassed`), which makes the end of the entry the *first* cut, and
  that the sync sample met last is `prev` or less than `length` after it
  (`LastSyncKnown`), from which an entry can exceed `length` by one gap at most
  (`EntryNotTooLong`). `LoopWritesEntries` says that the loop writes what the
  recursive function `Entries` gives. That the function exists is shown with a
  witness, and that the two agree entry by entry from the least one where they
  would not.
* `Fragment_proof`: `TypeCorrect`, `FirstFragment`, `SecondFragment`,
  `FragmentsChosen`, `SlotsAreFilled`, `AudioCovers`. `IInv` adds
  that `i` is the ordinal of the sample the walk is at, that `passed + 1` is the
  number of intervals from `sample` to `next`, that no cut has been passed while
  `last_chunk` is 0 (`AtGetNext`), and that `last_chunk + 1` is the span of the
  first fragment (`LastChunk`). `ChoiceInv` ties the tracks the walk has passed to the
  slots they were put into: a track without a slot is one that may not be sent or has
  no sample of the number. From it follow which tracks are sent, that as many slots are
  filled as `output_ts` goes on to use, and, with the copied marks, that the audio
  covers the video.
* `HlsService_proof`: `SegmentsAsAnnounced`, `SegmentsStartAsAnnounced`,
  `ServicePlays`. A player's list is `Entries` of its file for some length, for that of its
  argument if it names one, and it never holds more segments than the list has; what it
  holds is what `Segment` gave. That the first fragment is of track 0, begins at the entry's
  sample and ends at its end needs that a video track is always a candidate and that
  numbers and cuts are unique (`Segmentation_proof`). That it is handed out to its end needs
  more: for a sound that keeps up, the second fragment spans as many marks, and
  its last sample is not earlier than the last of the video once both are converted to
  90 kHz. With the marks apart they are copies, the sound's number `m` the first
  sample not before the video's; a sample of either is not longer than one of the
  video, a tick for the rounding included, so the last sound sample before a mark begins
  after the last video sample before it has begun - also where `last_chunk` is 0 and the
  second fragment is measured by its own times. `ServicePlays` is the
  refinement: initial states map to initial states of `Playback`, and every step, a
  restart and other players' requests included, maps to the next segment being
  played or to a stutter.
* `Output_proof`: `TypeCorrect`, `MemoryExact`, `PacketsFilled` of `TsPacket`. The
  invariant ties the packets still to be written to what is left of the payload:
  together they are the number `packetized_packets` reserved. `ChainTypeCorrect`,
  `EndMark`, `NoNullFollowed` of `BucketChain`: the invariant `AtLast` ties the pointer
  to the last link unless the memory for one was missing.
* `Mp4Reader_proof`, of `Mp4File`: `TypeCorrect`, `WindowKnown`, `ReadsRight`, `BufferLimit`,
  `WalkFinds`. The first four
  are inductive together (`IInv`): that a read is right follows from what the window
  holds, that again from its size being a natural number, and the bound on the size
  needs no buffer to be there, since a size survives the buffer it was for. `CutIs`
  is the arithmetic of the cut at the end of the file: it wraps there, and only there,
  and what has wrapped is too large to be had. `WalkFinds` (of `FindsBoth`)
  says that the walk is always at the beginning of an atom of the file or behind the
  last (`WalkInv`), and has kept the atoms it passed; that the header it judges is that
  of the atom follows from `ReadsTrue`.
* `Mp4Reader_proof`, of `SampleIndex`: `ArraysKept` (of `InBounds`), `IndexKnown` (of
  `IndexTrue`), `MarksKnown` (of `AudioMarked`). What tables say are sums over their entries
  (`SumOf`); the lemmas on sums (`SumStep`, `SumMonotone`, `SumStretch`: over equal values a sum
  grows evenly), on which sample is of which entry (`EntryIs`, `EntryExists`) and in
  which chunk (`ChunkIs`, `PlaceIs`) come first. The invariant then has three layers.
  `LoopInv`: the types of the arrays, and where the counters are - in `stts`, `s` is what the
  entries done count; in `stsc`, `last` is the chunk of the entry behind. From it
  alone no loop leaves its array. `DataInv` adds what has been written up to there: the
  times of the first `s` samples, the sizes of the chunks from `last` on, the places up to the
  sample of the chunk in hand, zero where no entry has been; and that the tracks done are
  `Built`, but for marks the copy has added. `MarkInv` adds the marks: after `n` samples
  of the video those of the audio are at the first samples not before its sync samples
  among these `n` (`CopiedTo`), and after `n` samples without a video every sample passed is
  less than two seconds behind the mark in front of it (`EvenTo`). The lookup starts where the last one
  ended; that it finds the same sample as from the beginning is `Behind`, which rests on the
  times being in order. `LookupsRight` (of `LookupsAgree`) follows from `DataInv`, which
  has for the tracks done what the tables say: the sums at which the lookups stop are
  times of the index (`SpannedTime`, `SttsTimeIs`); the sample found inside an entry, by a
  division that rounds up, is the first not before the time (`RoundedUp`, `SttsSampleIs`);
  and of numbers in order the scan finds the greatest not above the sample's (`NearestIs`).
  The alignment of two tracks is one turn of the track with key frames, then one of
  the other (`AlignedTwo`, `LeaderTurn`, `FollowerTurn`), and converting to the movie's
  clock and back keeps the order of times, not the times (`ScaledBack`, `ScaledOrder`).
  The proof is where the two limits of the property came from that the first runs did
  not show, an `stss` out of order and the rounding to 0; the runs have both since.
* `TsMux_proof`: `TypesHold`, `TailLeft`, `HandInWindow`, `CountersGoOn`,
  `ParametersLeadVideo`, `TablesComeInTime`, `PesTimed`, `TimesLeaveInOrder`,
  `AudioIsWhole`: every property of the run. The properties are about the sequence of all
  that was sent, so the proof goes in three stages.
  `Types` has what a step needs to be defined: room in a payload between two copies,
  a sample in hand only where its track's turn is, times below `NoPts`.
  `StepsTaken` splits each step into what it does to the loop and what leaves (nothing,
  what was held back, a full payload, or a video sample); `WritePacketIs` says of what
  leaves that it carries the payload and, but for a lost one, has advanced the
  counters, whatever becomes of it in the bucket; and `PlacesGrow` says how the
  sets of places in `sent` that the properties speak of grow by what leaves. Then
  each property has an invariant of its own over the loop's state:
  `Merged` (the samples taken are not later than those to come, and the turn is that of the
  earliest), `WindowRead` (the window spans the samples of all fragments, as far as the file goes),
  `Counters` (the next counter is the one behind the last packet of the stream that was
  built, and `packets_` is 0 as long as none was),
  `Timed` and `Tabled` (a payload has a time if a sample begins in it, and the tables'
  next time is `PatDelta` behind the last ones built; `KeptOrDropped` makes of that what
  is in the bucket), `Holding` (only audio in
  its own fragment is held back, and nothing is when the loop ends), `StampedAll`,
  `Ordered`, and `Whole` (what was sent and what is held back, joined, are the samples up to
  the one in hand).

* `Request_proof`: `NothingElseLost` (of `Owned`), `AcceptedIsWhole` (of `TreeWhole`),
  `OptionsNamed` (of `OptionsAsNamed`) and `AnsweredTruly` (of `AnswerTrue`). What hangs on
  a block is a recursive function in the model; the proof has it as the least set closed under ownership
  (`Hanging`), and shows that the two agree. The invariant `TreeInv` says that the
  containers being read lie in each other and nobody owns them (`Path`), that a block is
  owned by the container it is in (`OwnedInside`), and that what is made lies before the
  atom to come (`Place`). Then what a step releases hangs on nothing else that is
  read (`HangingApart`), and a block that loses its owner is one of `Lost` (`GoneLost`).
  The second theorem rests on `WholeInv`: a pointer points to one block (`Single`), a
  container that is attached has all that is mandatory in it and an `hdlr` that is
  attached names a handler (`Filled`), no track in the array is a hint track (`Wanted`),
  the array has room (`Room`), and every track the loop has passed is in the array or has
  a hint handler (`NoneMissing`). `TreeWhole` speaks of paths of pointers; each pointer of a
  path has a block by `Filled` and only one by `Single`. That nothing is attached when its
  reader fails right at the end of `moov` is what leaves the empty track there.
  The third rests on `ScanIs`: for all arguments `Scan` equals `AsNamed`. In front of each
  token the scanner's state is that of `InPair` - where the pair it is in begins, whether it
  has had an "=" and where the last one is, and the options that the pairs before it set
  (`OptionsTo`); at the end of a pair, `PairAssigned` shows that the comparison chain makes of
  them what the pair, read as a whole, sets.
  The fourth needs that a sound movie - sound by what its file holds, whatever the
  program does - is accepted and indexed. `SoundInv` says that of such a movie no reader
  has failed (`ReadsOn`), that of what a container has read each atom it has a slot for has
  filled it (`Kept`, of the containers being read up to where their loops are, of
  those attached to their ends), and that a container is one its parent reads (`OpenNamed`).
  `SoundGoesOn` is that no failing action is enabled then: nothing is cut short, there is
  room for one track more (`SoundRoom`), what is mandatory is held (`SoundWhole`), and the
  descriptions are parsed to the end (`VideParsed`, `SounParsed`, of the loops over boxes). At
  the end the tracks have all tables the index follows (`SoundTables`). `AnswerInv` carries
  that through the handler, `pc` by `pc`.
  The fifth, `StreamsKnown` (of `StreamsDescribed`), needs that every description a track of
  `moov` has is one that `stsd_parse` accepted (`StsdKept`): a track is in the array only
  after its entry was parsed, and the blocks below it do not change after that
  (`AttachKeeps`, `StepStands`). Of an accepted entry the boxes of a sound leave the channels
  and rate as they are (`SounSame`), and the sets of a video come from the boxes passed,
  step by step (`SetFrom`, `VideSets`). The header is a statement about bits: a number below
  2^w has no bit from w on (`BitsFit`), its bits read back as the number (`FieldReads`),
  and the fields lie side by side from the top of the header down (`LowsAre`,
  `FieldsApart`), so that each field is read as it was put there (`HeaderIs`) - which is
  where frames of less than 8192 bytes and fewer than eight channels are needed.

The types of these modules are proved for every value of the constants and are
not properties of the runs.

`PlaylistServed` and `FirstFragment` together are the agreement of the two loops:
each equals `NextCut` from the sample that the number names. With
`LoopWritesEntries` and `FragmentsChosen` the functions `HlsService` takes for a
playlist and the choice of a segment are those the loops compute. How much of that is
handed out (`SentUpTo`) is the loop of `TsMux` seen from its first fragment: it takes the
earlier of two samples, and of two with the same time that of the first.

Every invariant and every step property of a passing run is a theorem. Only
model-checked: `Ends` of `Mp4File` and `Finishes` of `HlsService`, which are liveness
under fairness and out of the prover's reach. The three properties that are violated
are findings.

## 5. What is left out, and the plan

Not modelled on purpose:

* text: the layout of the playlist and the copying of names and arguments (with more
  than 99 characters of arguments the copy does not fit, and the models assume
  fewer), constant response headers, logging, `view_count`;
* in `HlsService`: that a file can end before the bytes its tables speak of do (`TsMux` has
  it), samples that `write_video_packet` drops and packets the bucket drops; what is
  "handed out" there is what the sample loop takes (`TsMux` has what becomes of it);
* in the handler, an extension of fewer than three letters: `strcpy` writes `.mp4` behind
  the end of the path;
* sizes near 2^64 in the atoms themselves, where sums wrap (`Mp4File` has the wrapping of
  `filesize - pos` only);
* memory in the index and in `bucket_init` (`malloc`, `calloc` succeed; the status
  415 of line 235 belongs to an empty bucket), and in `mpegts_stream_init`;
* the bytes of sample data: `convert_to_nal` reads NAL lengths of four bytes whatever
  `avcC` says (`nal_unit_length_` is read by nothing), and `TsMux` has only whether the
  conversion succeeds;
* code nothing calls, except in `LookupsAgree`, which compares lookups that only
  `mp4_split` would use with the index: `mp4_split` itself, which converts seconds and calls
  `get_aligned_start_and_end` (`Split`, for ends before the last sample: behind it
  `stts_get_time` leaves its table), and the branches of `mp4_read` for `alignment`,
  which is always 0;
* of the atoms: those with 64-bit sizes inside `moov`, atoms in `dinf` other than
  `dref` (there is no list for them and they overwrite another field), an `hdlr` of 8
  to 23 bytes (the length of its name wraps), boxes of up to 8 bytes at the end of a
  sample entry, what is leaked when a file has two `moov` atoms;
* a fragment slot that is counted and empty in `TsMux` (`SlotsFilled` says when that
  can happen); where an index loop leaves its array (`outside`), or a NULL is followed
  (`"crashed"`), the models stop;
* configuration: `hls_relative` changes only the text of URLs, and merging of
  locations copies values; the buffer sizes are constants of `Mp4File`.

The composition is by refinement and by shared definitions, not by one module with all
the state: `HlsService` takes a playlist and a segment as functions that `Playlist` and
`Fragment` show their loops to compute, `Fragment` takes tracks that `SampleIndex`
shows the tables to give, `Request` takes from `Mp4File` whether `moov` is found.

Of what was planned nothing is left. What could still be added: an atom other than
`dref` in `dinf`, which needs the fields of that block as places in memory; the merging of
configurations, if more than the length comes to depend on it; and the layout of the
playlist's text, if a player's reading of it is to be checked.
