--------------------------------- MODULE TsMux ---------------------------------
(***************************************************************************)
(* The second half of output_ts (output_ts.h): the chosen fragments, one   *)
(* or two, become one transport stream. Times are converted to 90 kHz, the *)
(* bytes the fragments span are read in one window, and a loop takes the   *)
(* sample with the smallest time until one fragment is used up. A video    *)
(* sample is a PES packet of its own; audio samples are collected in the   *)
(* stream's payload and flushed when it is full, half a second old, or     *)
(* when the loop turns to the other fragment.                              *)
(*                                                                         *)
(* A fragment has samples 0..size; `size` is its `last`, which is not      *)
(* sent. Fragments are numbered from 1. `sent` lists what write_packet was *)
(* called for: the tables and the PES packets, in order. What became of    *)
(* them differs. A PES packet is in the bucket ("pes"), or built, counted  *)
(* and then dropped by bucket_insert ("dropped"), or never built, because  *)
(* there was no memory for its packets ("lost"). Tables are in the bucket  *)
(* (kept) or built, counted and dropped.                                   *)
(***************************************************************************)
EXTENDS PesLayout, Segmentation, SequencesExt

CONSTANTS
    Inputs,         \* what output_ts can have chosen: sequences of fragments
    ParamsSize,     \* bytes of the SPS and PPS with their start codes
    NoPts,          \* NOPTS_VALUE
    FileSizes,      \* sizes the file may have
    MaxFailures     \* bound: allocations and reads that fail

Clock == 90000
MaxDelay == 90000
AudioDelta == 500 * (Clock \div 1000)
PatDelta == 60 * 1000 * (Clock \div 1000)
MaxPayload == (32 - 1) * 184 + 170      \* MAX_PES_PAYLOAD_SIZE
AdtsSize == 7
AudSize == 6            \* aud_nal
MinVideo == 50          \* write_video_packet drops less
Limit == [soun |-> 10 * 1024 * 1024, vide |-> 50 * 1024 * 1024]

\* nal: convert_to_nal accepts it.
IsSample(s) == s \in [pts : Nat, cto : Nat, pos : Nat, size : Nat, nal : BOOLEAN]

IsFragment(f) ==
    /\ {"kind", "timescale", "size", "samples"} \subseteq DOMAIN f
    /\ f.kind \in {"vide", "soun"}
    /\ f.timescale \in Nat \ {0}
    /\ f.size \in Nat \ {0}
    /\ DOMAIN f.samples = 0 .. f.size
    /\ \A s \in 0 .. f.size : IsSample(f.samples[s])
    /\ \A s \in 0 .. f.size - 1 : f.samples[s].pts <= f.samples[s + 1].pts

ASSUME InputsAssumption ==
    \A input \in Inputs :
        /\ Len(input) \in 1 .. 2
        /\ \A f \in 1 .. Len(input) :
             /\ IsFragment(input[f])
             /\ \A s \in 0 .. input[f].size :
                  (input[f].samples[s].pts + input[f].samples[s].cto) * Clock + MaxDelay + PatDelta
                    < NoPts
ASSUME BoundsAssumption ==
    ParamsSize \in Nat /\ NoPts \in Nat /\ MaxFailures \in Nat /\ FileSizes \subseteq Nat

VARIABLES
    fragment,       \* the fragments; ConvertTimes changes their samples
    first,          \* per fragment, the sample to come
    stream,         \* per fragment, its mpegts_stream_t
    mux,            \* next_pat_, pat_cc_, pmt_cc_
    filesize,
    window,         \* the bytes of the fragments that were read: offset, end
    order,          \* the fragment whose turn it is; 0 for the code's -1
    at,             \* bytes of the audio frame (header and sample) collected
    bucket,         \* its chain: "empty", "linked", "broken" (see Into)
    failures,       \* allocations and reads that failed so far
    sent,
    pc              \* "convert", "read", "choose", "audio", "video", "done", "failed",
                    \* "crashed"

vars == <<fragment, first, stream, mux, filesize, window, order, at, bucket, failures, sent, pc>>

Fragments == 1 .. Len(fragment)
Sample(f) == fragment[f].samples[first[f]]
Exhausted(f) == first[f] = fragment[f].size

\* write_header: the clock goes with the first video fragment, if there is one.
Pcr(f) ==
    /\ fragment[f].kind = "vide"
    /\ \A g \in 1 .. f - 1 : fragment[g].kind # "vide"

NewStream == [cc |-> 0, packets |-> 0, index |-> 0, dts |-> NoPts, pts |-> NoPts, pieces |-> <<>>]

Init ==
    /\ fragment \in Inputs
    /\ first = [f \in Fragments |-> 0]
    /\ stream = [f \in Fragments |-> NewStream]
    /\ mux = [next_pat |-> NoPts, pat_cc |-> 0, pmt_cc |-> 0]
    /\ filesize \in FileSizes
    /\ window = [offset |-> 0, end |-> 0]
    /\ order = 0 /\ at = 0 /\ failures = 0
    /\ bucket = "empty"
    /\ sent = <<>>
    /\ pc = "convert"

-------------------------------------------------------------------------------
(* Before the loop. *)

ConvertedSample(sample, timescale) ==
    [sample EXCEPT !.pts = Rescale(@, Clock, timescale), !.cto = Rescale(@, Clock, timescale)]

Converted(f) ==
    [f EXCEPT !.samples = [s \in 0 .. f.size |-> ConvertedSample(f.samples[s], f.timescale)]]

ConvertTimes ==
    /\ pc = "convert"
    /\ fragment' = [f \in Fragments |-> Converted(fragment[f])]
    /\ pc' = "read"
    /\ UNCHANGED <<first, stream, mux, filesize, window, order, at, bucket, failures, sent>>

Begins(f) == fragment[f].samples[0].pos
Ends(f) == fragment[f].samples[fragment[f].size].pos

\* The difference is unsigned: a fragment that ends before it begins is too big.
TooBig(f) == Ends(f) < Begins(f) \/ Ends(f) - Begins(f) > Limit[fragment[f].kind]

\* Faulty: the window of the first fragment only.
SpanFirst == [offset |-> Begins(1), end |-> Ends(1)]

\* From the first byte of any fragment to the last byte of any.
Span ==
    [offset |-> Min({Begins(f) : f \in Fragments}), end |-> Max({Ends(f) : f \in Fragments})]

Refuse ==
    /\ pc = "read"
    /\ (\E f \in Fragments : TooBig(f)) \/ Span.end = 0
    /\ pc' = "failed"
    /\ UNCHANGED <<fragment, first, stream, mux, filesize, window, order, at, bucket, failures, sent>>

\* n allocations or reads fail.
Failing(n) ==
    /\ failures + n <= MaxFailures
    /\ failures' = failures + n

\* mp4_read fills the window as far as the file goes. It leaves data NULL when
\* memory or the file fails it, and when the span begins behind the end of the
\* file (Mp4File).
Read ==
    /\ pc = "read"
    /\ \A f \in Fragments : ~ TooBig(f)
    /\ Span.end # 0
    /\ \/ /\ Span.offset <= filesize
          /\ window' = [Span EXCEPT !.end = Min({@, filesize})]
          /\ pc' = "choose"
          /\ UNCHANGED failures
       \/ /\ Failing(1) \/ (Span.offset > filesize /\ UNCHANGED failures)
          /\ pc' = "failed"
          /\ UNCHANGED window
    /\ UNCHANGED <<fragment, first, stream, mux, filesize, order, at, bucket, sent>>

\* The bytes are in what was read.
Readable(pos, size) ==
    size = 0 \/ (window.offset <= pos /\ pos + size <= window.end)

-------------------------------------------------------------------------------
(* bucket_insert (BucketChain has the chain itself). *)

Inserts == {"kept", "no buffer", "no link"}

\* The chain after a call of bucket_insert, or after none. Where the last link
\* is missing the next insert that has its buffer follows NULL.
Into(chain, insert) ==
    CASE insert \notin {"kept", "no link"} \/ chain = "crashed" -> chain
      [] chain = "broken" -> "crashed"
      [] insert = "kept" -> "linked"
      [] insert = "no link" -> IF chain = "linked" THEN "broken" ELSE chain

-------------------------------------------------------------------------------
(* write_packet, on stream f with the fields s, and the tables before it. *)

Delayed(time) == IF time = NoPts THEN NoPts ELSE time + MaxDelay

\* Faulty: also when the time is not known, which is later than any.
TablesDueUnknown(dts) == mux.next_pat = NoPts \/ dts >= mux.next_pat

TablesDue(dts) == mux.next_pat = NoPts \/ (dts # NoPts /\ dts >= mux.next_pat)

\* What becomes of PAT, PMT and the PES packet: its bucket_insert, or none.
Outcomes(dts) ==
    LET tables == IF TablesDue(dts) THEN Inserts ELSE {"none"}
    IN  [pat : tables, pmt : tables, pes : Inserts \cup {"lost"}]

Chain(outcome) == Into(Into(Into(bucket, outcome.pat), outcome.pmt), outcome.pes)

FailuresIn(outcome) == Cardinality({k \in DOMAIN outcome : outcome[k] \notin {"kept", "none"}})

Tables(dts, outcome) ==
    [kind |-> "tables", pat |-> mux.pat_cc, pmt |-> mux.pmt_cc, at |-> dts,
     kept |-> outcome.pat = "kept" /\ outcome.pmt = "kept"]

NextMux(dts) ==
    IF TablesDue(dts)
    THEN [next_pat |-> dts + PatDelta,
          pat_cc |-> (mux.pat_cc + 1) % 16, pmt_cc |-> (mux.pmt_cc + 1) % 16]
    ELSE mux

PacketsOf(f, s, pes) ==
    PacketizedPackets(Pcr(f), s.packets = 0, Stamps(pes.dts, pes.pts, NoPts), pes.size)

PesKind(insert) == IF insert = "kept" THEN "pes" ELSE IF insert = "lost" THEN "lost" ELSE "dropped"

\* Faulty: what was not sent has used no continuity counters.
AdvancedSent(s, n, outcome) ==
    IF outcome.pes = "kept" THEN [s EXCEPT !.cc = (@ + n) % 16, !.packets = @ + n] ELSE s

\* The counters go on while the packets are built, before bucket_insert.
Advanced(s, n, outcome) ==
    IF outcome.pes = "lost" THEN s ELSE [s EXCEPT !.cc = (@ + n) % 16, !.packets = @ + n]

\* pes: the times, size and pieces of the payload.
Written(f, s, pes, outcome) ==
    LET dts == Delayed(pes.dts)
        n == PacketsOf(f, s, pes)
        packet == [kind |-> PesKind(outcome.pes), stream |-> f, dts |-> dts,
                   pts |-> Delayed(pes.pts), pieces |-> pes.pieces, params |-> pes.params,
                   cc |-> s.cc, n |-> n]
    IN  [stream |-> Advanced(s, n, outcome),
         mux |-> NextMux(dts),
         sent |-> sent \o (IF TablesDue(dts) THEN <<Tables(dts, outcome)>> ELSE <<>>) \o <<packet>>]

WritePacket(f, s, pes) ==
    \E outcome \in Outcomes(Delayed(pes.dts)) :
        LET w == Written(f, s, pes, outcome)
        IN  /\ Failing(FailuresIn(outcome))
            /\ bucket' = Chain(outcome) /\ bucket' # "crashed"
            /\ stream' = [stream EXCEPT ![f] = w.stream]
            /\ mux' = w.mux
            /\ sent' = w.sent

\* write_packet at this time may follow NULL.
InsertCrashes(dts) ==
    \E outcome \in Outcomes(Delayed(dts)) :
        Chain(outcome) = "crashed" /\ failures + FailuresIn(outcome) <= MaxFailures

\* Faulty: the times stay for the next payload.
EmptiedKeeps(s) == [s EXCEPT !.index = 0, !.pieces = <<>>]

Emptied(s) == [s EXCEPT !.index = 0, !.pieces = <<>>, !.dts = NoPts, !.pts = NoPts]

\* flush_audio_packet on stream f with the fields s; it does nothing to an empty
\* payload.
Flush(f, s) ==
    LET pes == [dts |-> s.dts, pts |-> s.pts, size |-> s.index, pieces |-> s.pieces, params |-> FALSE]
    IN  IF s.index = 0 THEN /\ stream' = [stream EXCEPT ![f] = s]
                            /\ UNCHANGED <<mux, bucket, failures, sent>>
        ELSE WritePacket(f, Emptied(s), pes)

-------------------------------------------------------------------------------
(* The loop. *)

LoopEnds == \E f \in Fragments : Exhausted(f)

Finish ==
    /\ pc = "choose"
    /\ LoopEnds
    /\ pc' = "done"
    /\ UNCHANGED <<fragment, first, stream, mux, filesize, window, order, at, bucket, failures, sent>>

\* Faulty: the first fragment as long as it lasts.
EarliestFirst == CHOOSE f \in Fragments : ~ Exhausted(f) /\ \A g \in 1 .. f - 1 : Exhausted(g)

\* The fragment with the smallest time; of two, the first.
Earliest ==
    CHOOSE f \in Fragments :
        /\ ~ Exhausted(f)
        /\ \A g \in Fragments \ {f} :
             ~ Exhausted(g) => \/ Sample(f).pts < Sample(g).pts
                               \/ Sample(f).pts = Sample(g).pts /\ f < g

\* Faulty: audio collected so far waits for its payload to fill.
TurnsAwayNever(f) == FALSE

TurnsAway(f) == order # 0 /\ order # f /\ fragment[order].kind = "soun"

\* Audio that has to leave before the other fragment's sample is flushed.
ChooseFlush ==
    /\ pc = "choose" /\ ~ LoopEnds
    /\ TurnsAway(Earliest)
    /\ order' = Earliest
    /\ at' = 0
    /\ Flush(order, stream[order])
    /\ pc' = IF fragment[Earliest].kind = "soun" THEN "audio" ELSE "video"
    /\ UNCHANGED <<fragment, first, filesize, window>>

\* A payload gets the times of the first sample that begins in it.
Stamped(s, sample) ==
    IF s.dts = NoPts THEN [s EXCEPT !.dts = sample.pts, !.pts = sample.pts + sample.cto] ELSE s

Choose ==
    /\ pc = "choose" /\ ~ LoopEnds
    /\ ~ TurnsAway(Earliest)
    /\ order' = Earliest
    /\ at' = 0
    /\ pc' = IF fragment[Earliest].kind = "soun" THEN "audio" ELSE "video"
    /\ UNCHANGED <<fragment, first, stream, mux, filesize, window, bucket, failures, sent>>

-------------------------------------------------------------------------------
(* write_audio_packet, called for the ADTS header and then for the sample. *)

FrameSize == AdtsSize + Sample(order).size

\* What is left of the part being copied, and what fits.
PartLeft == IF at < AdtsSize THEN AdtsSize - at ELSE FrameSize - at

Copied == Min({MaxPayload - stream[order].index, PartLeft})

\* Stream `order` with the next piece of the frame in its payload.
Filled ==
    LET s == IF at = 0 THEN Stamped(stream[order], Sample(order)) ELSE stream[order]
    IN  [s EXCEPT !.index = @ + Copied,
                  !.pieces = Append(@, [sample |-> first[order], at |-> at, size |-> Copied])]

\* The header is copied without a time, so only the sample can find the payload
\* old.
MustFlush(s) ==
    \/ s.index = MaxPayload
    \/ at >= AdtsSize /\ s.dts # NoPts /\ Sample(order).pts - s.dts >= AudioDelta

AudioCopy ==
    /\ pc = "audio" /\ at < FrameSize
    /\ ~ MustFlush(Filled)
    /\ stream' = [stream EXCEPT ![order] = Filled]
    /\ at' = at + Copied
    /\ UNCHANGED <<fragment, first, mux, filesize, window, order, bucket, failures, sent, pc>>

AudioCopyFlush ==
    /\ pc = "audio" /\ at < FrameSize
    /\ MustFlush(Filled)
    /\ Flush(order, Filled)
    /\ at' = at + Copied
    /\ UNCHANGED <<fragment, first, filesize, window, order, pc>>

\* Faulty: what is pending after the last sample stays.
AudioDoneKeeps ==
    /\ pc = "audio" /\ at = FrameSize
    /\ first' = [first EXCEPT ![order] = @ + 1]
    /\ pc' = "choose"
    /\ UNCHANGED <<fragment, stream, mux, filesize, window, order, at, bucket, failures, sent>>

\* The payload of the last sample is flushed at once.
AudioDone ==
    /\ pc = "audio" /\ at = FrameSize
    /\ IF first[order] + 1 = fragment[order].size
       THEN Flush(order, stream[order])
       ELSE UNCHANGED <<stream, mux, bucket, failures, sent>>
    /\ first' = [first EXCEPT ![order] = @ + 1]
    /\ pc' = "choose"
    /\ UNCHANGED <<fragment, filesize, window, order, at>>

-------------------------------------------------------------------------------
(* write_video_packet *)

VideoTaken ==
    /\ pc = "video"
    /\ first' = [first EXCEPT ![order] = @ + 1]
    /\ pc' = "choose"
    /\ UNCHANGED <<fragment, filesize, window, order, at>>

TooSmall(sample) == sample.size + AudSize < MinVideo

\* What convert_to_nal may return: a sample of NAL units whose lengths add up, or
\* one that has start codes already, is accepted. Of bytes that were not read
\* anything may be true.
ConvertToNal(sample) == IF Readable(sample.pos, sample.size) THEN {sample.nal} ELSE BOOLEAN

\* Too small, not in NAL units that can be converted, or without memory for the
\* converted sample: nothing is written.
VideoDropped ==
    /\ VideoTaken
    /\ \/ /\ TooSmall(Sample(order)) \/ FALSE \in ConvertToNal(Sample(order))
          /\ UNCHANGED failures
       \/ /\ ~ TooSmall(Sample(order))
          /\ Failing(1)
    /\ UNCHANGED <<stream, mux, bucket, sent>>

\* Faulty: the parameter sets go with the first sample of the fragment.
NeedsParamsFirst == first[order] = 0

NeedsParams == stream[order].packets = 0

VideoSent ==
    /\ VideoTaken
    /\ ~ TooSmall(Sample(order)) /\ TRUE \in ConvertToNal(Sample(order))
    /\ WritePacket(order, stream[order],
                   [dts |-> Sample(order).pts,
                    pts |-> Sample(order).pts + Sample(order).cto,
                    size |-> Sample(order).size + AudSize + (IF NeedsParams THEN ParamsSize ELSE 0),
                    pieces |-> <<[sample |-> first[order], at |-> 0, size |-> Sample(order).size]>>,
                    params |-> NeedsParams])

-------------------------------------------------------------------------------
(* The worker crashes: bucket_insert follows NULL, or bytes that were not read *)
(* lie outside its memory.                                                     *)

FlushCrashes(s) == s.index # 0 /\ InsertCrashes(s.dts)

AudioCrashes ==
    IF at < FrameSize
    THEN \/ MustFlush(Filled) /\ FlushCrashes(Filled)
         \/ at >= AdtsSize /\ ~ Readable(Sample(order).pos + at - AdtsSize, Copied)
    ELSE first[order] + 1 = fragment[order].size /\ FlushCrashes(stream[order])

VideoCrashes ==
    /\ ~ TooSmall(Sample(order))
    /\ \/ ~ Readable(Sample(order).pos, Sample(order).size)
       \/ TRUE \in ConvertToNal(Sample(order)) /\ InsertCrashes(Sample(order).pts)

Crash ==
    /\ \/ pc = "choose" /\ ~ LoopEnds /\ TurnsAway(Earliest) /\ FlushCrashes(stream[order])
       \/ pc = "audio" /\ AudioCrashes
       \/ pc = "video" /\ VideoCrashes
    /\ pc' = "crashed"
    /\ UNCHANGED <<fragment, first, stream, mux, filesize, window, order, at, bucket, failures, sent>>

Next ==
    \/ ConvertTimes \/ Refuse \/ Read
    \/ Finish \/ ChooseFlush \/ Choose
    \/ AudioCopy \/ AudioCopyFlush \/ AudioDone
    \/ VideoDropped \/ VideoSent
    \/ Crash

Spec == Init /\ [][Next]_vars

-------------------------------------------------------------------------------
IsAudio(f) == fragment[f].kind = "soun"
IsPes(e) == e.kind # "tables"

\* The places in sent, up to n, of the PES packets of stream f: all, and those
\* that were built.
PesAt(f, n) == {k \in 1 .. n : IsPes(sent[k]) /\ sent[k].stream = f}
BuiltAt(f, n) == {k \in PesAt(f, n) : sent[k].kind # "lost"}
TablesAt(n) == {k \in 1 .. n : ~ IsPes(sent[k])}

\* A place in the audio of f, as a sample and a byte of its frame: where piece p
\* begins, and where what follows it does.
Place(p) == <<p.sample, p.at>>
After(f, p) ==
    IF p.at + p.size = AdtsSize + fragment[f].samples[p.sample].size
    THEN <<p.sample + 1, 0>> ELSE <<p.sample, p.at + p.size>>

\* What the first n entries of sent have of f ends at this place.
SentTo(f, n) ==
    IF PesAt(f, n) = {} THEN <<0, 0>> ELSE After(f, Last(sent[Max(PesAt(f, n))].pieces))

\* The pieces begin at a place and follow each other.
Joined(f, place, p) ==
    /\ p # <<>>
    /\ Place(p[1]) = place
    /\ \A k \in 1 .. Len(p) - 1 : Place(p[k + 1]) = After(f, p[k])

\* Where the loop is in the audio of f.
Here(f) ==
    IF pc = "audio" /\ order = f
    THEN IF at < FrameSize THEN <<first[f], at>> ELSE <<first[f] + 1, 0>>
    ELSE <<first[f], 0>>

\* Splitting audio over payloads, whatever becomes of their packets, loses
\* nothing, repeats nothing and changes no order: each PES packet goes on where
\* the one before ended, frame headers included, and with what is held back they
\* reach to where the loop is; at the end none is held back.
AudioWhole ==
    pc # "crashed" => \A f \in Fragments : IsAudio(f) =>
        LET n == Len(sent)
            held == stream[f].pieces
        IN  /\ \A k \in PesAt(f, n) : Joined(f, SentTo(f, k - 1), sent[k].pieces)
            /\ IF held = <<>> THEN SentTo(f, n) = Here(f)
               ELSE Joined(f, SentTo(f, n), held) /\ After(f, Last(held)) = Here(f)
            /\ pc = "done" => held = <<>>

\* The samples that begin in the pieces: their places there.
Begun(p) == {k \in 1 .. Len(p) : p[k].at = 0}

\* The times of a PES packet are those of the first sample that begins in it,
\* and it has none if none does: the rest of a sample split over payloads does
\* not borrow the time of the next.
PesTimes ==
    \A k \in 1 .. Len(sent) : IsPes(sent[k]) =>
        LET e == sent[k]
            b == Begun(e.pieces)
        IN  IF b = {} THEN e.dts = NoPts /\ e.pts = NoPts
            ELSE LET s == fragment[e.stream].samples[e.pieces[Min(b)].sample]
                 IN  e.dts = s.pts + MaxDelay /\ e.pts = s.pts + s.cto + MaxDelay

BegunTimes(f, p) == {fragment[f].samples[p[k].sample].pts : k \in Begun(p)}

\* Samples leave in the order of their times, whichever fragment they are of:
\* no audio that was collected stays behind the video that comes after it.
TimesInOrder ==
    \A j, k \in 1 .. Len(sent) :
        j < k /\ IsPes(sent[j]) /\ IsPes(sent[k]) =>
            \A s \in BegunTimes(sent[j].stream, sent[j].pieces),
               t \in BegunTimes(sent[k].stream, sent[k].pieces) : s <= t

\* Tables built for this time are there still for the packet e.
InTime(tables, e) ==
    /\ tables.at # NoPts
    /\ e.dts # NoPts => e.dts < tables.at + PatDelta

\* "resend PAT/PMT" (the comment says every 100 ms, PAT_DELTA is a minute): the
\* last PAT and PMT in the bucket before a PES packet are not older than that,
\* unless bucket_insert dropped the ones that were due since; a packet without
\* a time never sets the time they are due next. What was dropped is not made
\* good: the next ones come a whole PAT_DELTA later all the same.
TablesInTime ==
    /\ \A k \in 1 .. Len(sent) : IsPes(sent[k]) =>
         LET there == {t \in TablesAt(k - 1) : sent[t].kept}
         IN  \/ there # {} /\ InTime(sent[Max(there)], sent[k])
             \/ \E t \in TablesAt(k - 1) \ there :
                  (\A u \in there : u < t) /\ InTime(sent[t], sent[k])
    /\ \A t, u \in TablesAt(Len(sent)) : t < u => sent[t].at + PatDelta <= sent[u].at

\* The parameter sets are in the first video packet that is built, and in no
\* other, also when the samples before it were dropped or found no memory. So
\* the first one in the bucket has them unless one was built before it and
\* dropped by bucket_insert: then the segment is without.
ParametersFirst ==
    \A f \in Fragments : ~ IsAudio(f) =>
        \A k \in BuiltAt(f, Len(sent)) : sent[k].params <=> BuiltAt(f, k - 1) = {}

\* On each of the three kinds of pid the continuity counter goes on from where
\* the packet built before left it, whether or not bucket_insert dropped that
\* one: a player sees a gap exactly where packets are missing that were built.
\* A payload that found no memory for its packets has used no counters, and
\* leaves no gap.
CountersContinue ==
    /\ \A f \in Fragments : \A k \in BuiltAt(f, Len(sent)) :
         LET before == BuiltAt(f, k - 1)
         IN  sent[k].cc = IF before = {} THEN 0
                          ELSE (sent[Max(before)].cc + sent[Max(before)].n) % 16
    /\ \A k \in TablesAt(Len(sent)) :
         LET number == Cardinality(TablesAt(k - 1)) % 16
         IN  sent[k].pat = number /\ sent[k].pmt = number

\* The loop stops when one fragment is used up; what it leaves of the other is
\* not earlier than the last sample it took of the first.
OnlyTailLeft ==
    pc = "done" =>
        \A f, g \in Fragments :
            Exhausted(f) /\ ~ Exhausted(g) =>
                Sample(g).pts >= fragment[f].samples[fragment[f].size - 1].pts

\* Positions as an index of samples that do not overlap has them.
PositionsOrdered(f) ==
    \A s \in 0 .. fragment[f].size - 1 :
        fragment[f].samples[s].pos + fragment[f].samples[s].size <= fragment[f].samples[s + 1].pos

\* A sample is copied from bytes that were read, in any fragment whose samples
\* lie in order, unless the file ends before the sample does.
InWindow ==
    pc \in {"audio", "video"} /\ PositionsOrdered(order) =>
        \/ Readable(Sample(order).pos, Sample(order).size)
        \/ filesize < Sample(order).pos + Sample(order).size

\* "packages one into fragments, and delivers the fragments": a segment has all
\* the samples of the fragments chosen for it. (The next segment begins where
\* these fragments end.)
FragmentsDelivered == pc = "done" => \A f \in Fragments : Exhausted(f)

===============================================================================
