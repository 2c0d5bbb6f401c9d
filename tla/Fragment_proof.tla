---------------------------- MODULE Fragment_proof ----------------------------
(***************************************************************************)
(* Fragment, for every movie and request: the first fragment is the        *)
(* interval the playlist announces for its number, and the second spans as *)
(* many sync intervals, with the one exception of a first fragment of one; *)
(* the tracks sent are the first ones that can be, and audio whose marks   *)
(* are copied from the video covers the video it is sent with.             *)
(***************************************************************************)
EXTENDS Fragment, Segmentation_proof

-------------------------------------------------------------------------------
(* The inductive invariant. *)

Request ==
    /\ moov \in Movies
    /\ length \in Nat /\ start \in Nat /\ audio \in Nat

\* i is the number of the sample the walk is at.
AtScan == pc = "scan" => i = SyncOrdinal(trak, sample)

\* get_next starts at the sample numbered start; passed counts the sync samples
\* between it and next, none of which ends the fragment.
AtGetNext ==
    pc = "get_next" =>
        /\ Len(fragment) < MaxFragments
        /\ sample < trak.size /\ trak.sync[sample]
        /\ SyncOrdinal(trak, sample) = start
        /\ passed + 1 = SyncOrdinal(trak, next) - SyncOrdinal(trak, sample)
        /\ last_chunk = 0 =>
             \A c \in sample + 1 .. next - 1 : ~ IsCut(trak, sample, c, Seconds)
        /\ last_chunk # 0 => passed <= last_chunk

FragmentsStart ==
    \A f \in 1 .. Len(fragment) :
        /\ fragment[f].track \in TrackIds
        /\ fragment[f].track < track_id
        /\ fragment[f].first \in SampleNumbered(Trak(fragment[f].track), start)
        /\ fragment[f].last \in fragment[f].first + 1 .. Trak(fragment[f].track).size

\* What last_chunk remembers of the first fragment.
LastChunk ==
    /\ fragment = <<>> => last_chunk = 0
    /\ Len(fragment) = 1 => Span(fragment[1]) = last_chunk + 1

\* The sound track asked for is met once.
AudioOnce ==
    audio_tracks = 1 => \/ track_id > audio
                        \/ track_id = audio /\ pc = "get_next"

IInv ==
    /\ Request
    /\ TypeOK
    /\ AtScan
    /\ AtGetNext
    /\ FragmentsStart
    /\ LastChunk
    /\ AudioOnce
    /\ FirstFragmentCut
    /\ SecondFollowsFirst

-------------------------------------------------------------------------------
LEMMA MovieFacts ==
    ASSUME moov \in Movies
    PROVE  /\ Len(moov) \in Nat
           /\ \A k \in 0 .. Len(moov) - 1 :
                /\ IsTrak(Trak(k))
                /\ Trak(k).size \in Nat
                /\ Trak(k).sync \in [0 .. Trak(k).size -> BOOLEAN]
                /\ Trak(k).sync[Trak(k).size]
<1>1. \A k \in 0 .. Len(moov) - 1 : k + 1 \in 1 .. Len(moov)
  BY MoviesAssumption
<1> QED
  BY <1>1, MoviesAssumption DEF Trak, IsTrak

LEMMA InitIInv == Init => IInv
<1> SUFFICES ASSUME Init PROVE IInv
  OBVIOUS
<1> USE DEF Init
<1>1. Request
  <2>1. PICK arg \in AudioArgs : audio = AudioTrack(arg)
    OBVIOUS
  <2>2. arg \in Nat
    BY <2>1, NumbersAssumption
  <2> QED
    BY <2>1, <2>2, NumbersAssumption DEF Request, AudioTrack
<1>2. Len(moov) \in Nat
  BY MovieFacts
<1>3. TypeOK
  BY <1>2 DEF TypeOK, MaxFragments
<1>4. AtScan /\ AtGetNext /\ FragmentsStart /\ LastChunk /\ AudioOnce
  BY DEF AtScan, AtGetNext, FragmentsStart, LastChunk, AudioOnce
<1>5. FirstFragmentCut /\ SecondFollowsFirst
  BY DEF FirstFragmentCut, SecondFollowsFirst
<1> QED
  BY <1>1, <1>3, <1>4, <1>5 DEF IInv

\* The conjuncts that only look at what the steps of a walk leave alone.
LEMMA FragmentsKept ==
    ASSUME IInv, UNCHANGED <<request, fragment, last_chunk>>,
           track_id' \in Nat, track_id' >= track_id
    PROVE  /\ Request'
           /\ FragmentsStart'
           /\ LastChunk'
           /\ FirstFragmentCut'
           /\ SecondFollowsFirst'
<1> USE DEF IInv, request
<1>1. Request'
  BY DEF Request
<1>2. FragmentsStart'
  <2>1. track_id \in Nat /\ fragment \in Seq(FragmentRec)
    BY MovieFacts DEF TypeOK, Request
  <2>2. \A f \in 1 .. Len(fragment) : fragment[f].track \in Nat
    <3>1. \A f \in 1 .. Len(fragment) : fragment[f] \in FragmentRec
      BY <2>1
    <3> QED
      BY <3>1 DEF FragmentRec
  <2> QED
    BY <2>1, <2>2 DEF FragmentsStart, TrackIds, Trak
<1>3. LastChunk' /\ FirstFragmentCut' /\ SecondFollowsFirst'
  BY DEF LastChunk, FirstFragmentCut, SecondFollowsFirst, Span, Trak, Seconds
<1> QED
  BY <1>1, <1>2, <1>3

LEMMA NextIInv == IInv /\ [Next]_vars => IInv'
<1> SUFFICES ASSUME IInv, [Next]_vars
             PROVE  IInv'
  OBVIOUS
<1> USE DEF IInv
<1>t. /\ moov \in Movies
      /\ Len(moov) \in Nat
      /\ track_id \in 0 .. Len(moov)
      /\ i \in Nat /\ passed \in Nat /\ last_chunk \in Nat /\ audio_tracks \in {0, 1}
      /\ start \in Nat /\ audio \in Nat
      /\ fragment \in Seq(FragmentRec) /\ Len(fragment) \in Nat /\ Len(fragment) <= 2
      /\ Len(fragment) = 0 => fragment = <<>>
  BY MovieFacts DEF TypeOK, Request, MaxFragments
<1>k. ASSUME pc \in {"scan", "get_next"}
      PROVE  /\ track_id \in 0 .. Len(moov) - 1
             /\ trak = Trak(track_id)
             /\ IsTrak(trak)
             /\ trak.size \in Nat
             /\ trak.sync \in [0 .. trak.size -> BOOLEAN]
             /\ trak.sync[trak.size]
             /\ sample \in 0 .. trak.size
  <2>1. track_id \in 0 .. Len(moov) - 1
    BY <1>t, <1>k DEF TypeOK
  <2>2. sample \in 0 .. trak.size
    BY <1>k DEF TypeOK
  <2> QED
    BY <1>t, <2>1, <2>2, MovieFacts DEF trak, Trak
<1>1. CASE EnterTrack
  <2> USE <1>1 DEF EnterTrack, request
  <2>1. TypeOK' /\ AudioOnce'
    <3>1. moov[track_id + 1].size \in Nat
      BY <1>t, MovieFacts DEF Trak
    <3> QED
      BY <1>t, <3>1 DEF TypeOK, AudioOnce, trak, MaxFragments
  <2>2. AtScan' /\ AtGetNext'
    BY SyncOrdinalZero DEF AtScan, AtGetNext, trak
  <2> QED
    BY <1>t, <2>1, <2>2, FragmentsKept
<1>2. CASE SkipNonSync
  <2> USE <1>2 DEF SkipNonSync, request
  <2>1. TypeOK' /\ AudioOnce'
    BY <1>t, <1>k DEF TypeOK, AudioOnce, trak, MaxFragments
  <2>2. AtScan' /\ AtGetNext'
    <3>1. SyncOrdinal(trak, sample + 1) =
            IF trak.sync[sample] THEN SyncOrdinal(trak, sample) + 1
                                 ELSE SyncOrdinal(trak, sample)
      BY <1>k, SyncOrdinalStep
    <3>2. trak' = trak
      BY DEF trak
    <3> QED
      BY <3>1, <3>2 DEF AtScan, AtGetNext
  <2> QED
    BY <1>t, <2>1, <2>2, FragmentsKept
<1>3. CASE RefuseTrack
  <2> USE <1>3 DEF RefuseTrack, LeaveTrack, AtSync, OtherAudio, request
  <2>1. TypeOK' /\ AudioOnce'
    BY <1>t, <1>k DEF TypeOK, AudioOnce, MaxFragments
  <2>2. AtScan' /\ AtGetNext'
    BY DEF AtScan, AtGetNext
  <2> QED
    BY <1>t, <2>1, <2>2, FragmentsKept
<1>4. CASE PassSync
  <2> USE <1>4 DEF PassSync, AtSync, request
  <2>1. TypeOK' /\ AudioOnce'
    BY <1>t, <1>k DEF TypeOK, AudioOnce, trak, MaxFragments
  <2>2. AtScan' /\ AtGetNext'
    <3>1. SyncOrdinal(trak, sample + 1) =
            IF trak.sync[sample] THEN SyncOrdinal(trak, sample) + 1
                                 ELSE SyncOrdinal(trak, sample)
      BY <1>k, SyncOrdinalStep
    <3>2. trak' = trak
      BY DEF trak
    <3> QED
      BY <3>1, <3>2 DEF AtScan, AtGetNext
  <2> QED
    BY <1>t, <2>1, <2>2, FragmentsKept
<1>5. CASE FoundStart
  <2> USE <1>5 DEF FoundStart, AtSync, OtherAudio, CountAudio, request
  <2>1. audio_tracks = 0 \/ trak.kind # "soun"
    BY <1>t DEF AudioOnce
  <2>2. TypeOK' /\ AudioOnce'
    BY <1>t, <1>k, <2>1 DEF TypeOK, AudioOnce, trak, MaxFragments
  <2>3. AtScan' /\ AtGetNext'
    <3>1. SyncOrdinal(trak, sample + 1) = start + 1 /\ SyncOrdinal(trak, sample) = start
      <4>1. sample \in Nat /\ trak.sync[sample] = TRUE /\ i = start /\ i = SyncOrdinal(trak, sample)
        BY <1>k DEF AtScan
      <4> QED
        BY ONLY <4>1, SyncOrdinalStep
    <3>2. trak' = trak /\ sample < trak.size /\ trak.sync[sample]
      BY <1>k DEF trak
    <3>3. \A c \in sample + 1 .. next' - 1 : FALSE
      BY <1>k
    <3> QED
      BY <1>t, <3>1, <3>2, <3>3 DEF AtScan, AtGetNext
  <2> QED
    BY <1>t, <2>2, <2>3, FragmentsKept
<1>6. CASE FoundNoRoom
  <2> USE <1>6 DEF FoundNoRoom, LeaveTrack, AtSync, OtherAudio, CountAudio, request
  <2>1. audio_tracks = 0 \/ trak.kind # "soun"
    BY <1>t DEF AudioOnce
  <2>2. TypeOK' /\ AudioOnce'
    BY <1>t, <1>k, <2>1 DEF TypeOK, AudioOnce, MaxFragments
  <2>3. AtScan' /\ AtGetNext'
    BY DEF AtScan, AtGetNext
  <2> QED
    BY <1>t, <2>2, <2>3, FragmentsKept
<1>7. CASE TrackEnds
  <2> USE <1>7 DEF TrackEnds, LeaveTrack, request
  <2>1. TypeOK' /\ AudioOnce'
    BY <1>t, <1>k DEF TypeOK, AudioOnce, MaxFragments
  <2>2. AtScan' /\ AtGetNext'
    BY DEF AtScan, AtGetNext
  <2> QED
    BY <1>t, <2>1, <2>2, FragmentsKept
<1>8. CASE GetNextSkip
  <2> USE <1>8 DEF GetNextSkip, request
  <2>1. /\ next \in sample + 1 .. trak.size - 1
        /\ next \in Nat /\ next \in 0 .. trak.size
        /\ trak.sync[next] \in BOOLEAN
    BY <1>k DEF TypeOK
  <2>2. TypeOK' /\ AudioOnce'
    BY <1>t, <1>k, <2>1 DEF TypeOK, AudioOnce, trak, MaxFragments
  <2>3. AtGetNext'
    <3>1. SyncOrdinal(trak, next + 1) = SyncOrdinal(trak, next)
      <4>1. ~ trak.sync[next]
        OBVIOUS
      <4> QED
        BY ONLY <2>1, <4>1, SyncOrdinalStep
    <3>2. ~ IsCut(trak, sample, next, Seconds)
      BY DEF IsCut
    <3>3. trak' = trak /\ Seconds' = Seconds
      BY DEF trak, Seconds
    <3> QED
      BY <1>t, <1>k, <2>1, <3>1, <3>2, <3>3 DEF AtGetNext
  <2>4. AtScan'
    BY DEF AtScan
  <2> QED
    BY <1>t, <2>2, <2>3, <2>4, FragmentsKept
<1>9. CASE GetNextPass
  <2> USE <1>9 DEF GetNextPass, request
  <2>1. /\ next \in sample + 1 .. trak.size - 1
        /\ next \in Nat /\ next \in 0 .. trak.size
        /\ trak.sync[next] \in BOOLEAN
    BY <1>k DEF TypeOK
  <2>2. TypeOK' /\ AudioOnce'
    BY <1>t, <1>k, <2>1 DEF TypeOK, AudioOnce, trak, MaxFragments
  <2>3. AtGetNext'
    <3>1. SyncOrdinal(trak, next + 1) = SyncOrdinal(trak, next) + 1
      <4>1. trak.sync[next] = TRUE
        BY <2>1
      <4> QED
        BY ONLY <2>1, <4>1, SyncOrdinalStep
    <3>2. last_chunk = 0 => ~ IsCut(trak, sample, next, Seconds)
      BY <2>1 DEF IsCut, Stops
    <3>3. last_chunk # 0 => passed + 1 <= last_chunk
      BY <1>t DEF Stops, AtGetNext
    <3>4. SyncOrdinal(trak, next) \in Nat /\ SyncOrdinal(trak, sample) \in Nat
      BY <1>k, <2>1, SyncBeforeFinite
    <3>5. trak' = trak /\ Seconds' = Seconds
      BY DEF trak, Seconds
    <3>6. passed' + 1 = SyncOrdinal(trak, next') - SyncOrdinal(trak, sample)
      BY <1>t, <3>1, <3>4 DEF AtGetNext
    <3>7. last_chunk = 0 =>
            \A c \in sample + 1 .. next' - 1 : ~ IsCut(trak, sample, c, Seconds)
      <4> SUFFICES ASSUME last_chunk = 0, NEW c \in sample + 1 .. next' - 1
                   PROVE  ~ IsCut(trak, sample, c, Seconds)
        OBVIOUS
      <4>1. c = next \/ c \in sample + 1 .. next - 1
        BY <1>k, <2>1
      <4> QED
        BY <3>2, <4>1 DEF AtGetNext
    <3> QED
      BY <3>3, <3>5, <3>6, <3>7 DEF AtGetNext
  <2>4. AtScan'
    BY DEF AtScan
  <2> QED
    BY <1>t, <2>2, <2>3, <2>4, FragmentsKept
<1>10. CASE GetNextReturn
  <2> USE <1>10 DEF GetNextReturn, request
  <2> DEFINE g == [track |-> track_id, first |-> sample, last |-> next]
             n == Len(fragment)
  <2>1. next \in sample + 1 .. trak.size /\ n < 2
    BY <1>k DEF TypeOK, AtGetNext, MaxFragments
  <2>2. /\ Len(fragment') = n + 1
        /\ fragment'[n + 1] = g
        /\ \A k \in 1 .. n : fragment'[k] = fragment[k] /\ fragment[k] \in FragmentRec
        /\ fragment' \in Seq(FragmentRec)
        /\ fragment' # <<>>
    <3>1. g \in FragmentRec
      BY <1>t, <1>k, <2>1 DEF FragmentRec
    <3> HIDE DEF g
    <3>2. fragment' = Append(fragment, g)
      BY DEF g
    <3> QED
      BY <1>t, <3>1, <3>2
  <2>3. TypeOK' /\ AudioOnce'
    BY <1>t, <1>k, <2>1, <2>2 DEF TypeOK, AudioOnce, MaxFragments
  <2>4. AtScan' /\ AtGetNext'
    BY DEF AtScan, AtGetNext
  <2>5. FragmentsStart'
    <3> SUFFICES ASSUME NEW f \in 1 .. n + 1
                 PROVE  /\ fragment'[f].track \in TrackIds
                        /\ fragment'[f].track < track_id + 1
                        /\ fragment'[f].first \in SampleNumbered(Trak(fragment'[f].track), start)
                        /\ fragment'[f].last \in fragment'[f].first + 1 .. Trak(fragment'[f].track).size
      BY <2>2 DEF FragmentsStart, TrackIds, Trak
    <3>1. CASE f = n + 1
      <4>1. sample \in SampleNumbered(trak, start)
        BY <1>k DEF SampleNumbered, AtGetNext
      <4> QED
        BY <1>t, <1>k, <2>1, <2>2, <3>1, <4>1 DEF TrackIds
    <3>2. CASE f \in 1 .. n
      <4>1. fragment'[f] = fragment[f] /\ fragment[f].track \in Nat
        BY <2>2, <3>2 DEF FragmentRec
      <4> QED
        BY <1>t, <3>2, <4>1 DEF FragmentsStart
    <3> QED
      BY <1>t, <3>1, <3>2
  <2>6. /\ Span(g) = passed + 1
        /\ SyncOrdinal(trak, next) \in Nat /\ SyncOrdinal(trak, sample) \in Nat
    <3>1. SyncOrdinal(trak, next) \in Nat /\ SyncOrdinal(trak, sample) \in Nat
      BY <1>k, <2>1, SyncBeforeFinite
    <3> QED
      BY <1>t, <1>k, <3>1 DEF Span, AtGetNext
  <2>7. last_chunk = 0 => NextCut(trak, sample, Seconds) = next
    <3> SUFFICES ASSUME last_chunk = 0
                 PROVE  NextCut(trak, sample, Seconds) = next
      OBVIOUS
    <3>1. IsCut(trak, sample, next, Seconds)
      BY <1>k, <2>1 DEF IsCut, Stops
    <3> QED
      BY <1>k, <3>1, NextCutIs DEF AtGetNext
  <2>8. fragment = <<>> \/ n = 1
    <3>1. n = 0 \/ n = 1
      <4>1. n \in Nat /\ n < 2
        BY ONLY <1>t, <2>1
      <4> QED
        BY ONLY <4>1
    <3>2. n = 0 => fragment = <<>>
      BY <1>t
    <3> QED
      BY <3>1, <3>2
  <2>9. CASE fragment = <<>>
    <3>1. n = 0 /\ fragment'[1] = g /\ last_chunk = 0 /\ last_chunk' = passed
      BY <2>2, <2>9 DEF LastChunk
    <3>2. LastChunk'
      BY <2>2, <2>6, <3>1 DEF LastChunk, Span, Trak
    <3>3. FirstFragmentCut'
      BY <1>k, <2>2, <2>7, <3>1 DEF FirstFragmentCut, Trak, Seconds
    <3>4. SecondFollowsFirst'
      BY <2>2, <3>1 DEF SecondFollowsFirst
    <3> QED
      BY <2>3, <2>4, <2>5, <3>2, <3>3, <3>4 DEF Request
  <2>10. CASE n = 1
    <3>1. /\ fragment # <<>>
          /\ fragment'[1] = fragment[1]
          /\ fragment'[2] = g
          /\ Span(fragment[1]) = last_chunk + 1
      BY <2>2, <2>10 DEF LastChunk
    <3>2. LastChunk'
      BY <2>2, <2>10 DEF LastChunk
    <3>3. FirstFragmentCut'
      BY <2>2, <3>1 DEF FirstFragmentCut, Trak, Seconds
    <3>4. SecondFollowsFirst'
      <4>1. Trak(track_id) = trak
        BY <1>k
      <4>2. /\ Span(g) >= Span(fragment[1]) \/ next = trak.size
            /\ Span(g) > Span(fragment[1]) =>
                 Span(fragment[1]) = 1 /\ next = NextCut(trak, sample, Seconds)
        <5>1. CASE last_chunk = 0
          BY <1>t, <2>6, <2>7, <3>1, <5>1
        <5>2. CASE last_chunk # 0
          BY <1>t, <2>6, <3>1, <5>2 DEF AtGetNext, Stops
        <5> QED
          BY <5>1, <5>2
      <4> QED
        BY <2>2, <3>1, <4>1, <4>2 DEF SecondFollowsFirst, Span, Trak, Seconds
    <3> QED
      BY <2>3, <2>4, <2>5, <3>2, <3>3, <3>4 DEF Request
  <2> QED
    BY <2>8, <2>9, <2>10
<1>11. CASE AllTracksDone
  <2> USE <1>11 DEF AllTracksDone, request
  <2>1. TypeOK' /\ AudioOnce'
    BY <1>t DEF TypeOK, AudioOnce, MaxFragments
  <2>2. AtScan' /\ AtGetNext'
    BY DEF AtScan, AtGetNext
  <2> QED
    BY <1>t, <2>1, <2>2, FragmentsKept
<1>12. CASE UNCHANGED vars
  <2> USE <1>12 DEF vars, request
  <2>1. TypeOK' /\ AudioOnce'
    BY DEF TypeOK, AudioOnce, trak
  <2>2. AtScan' /\ AtGetNext'
    BY DEF AtScan, AtGetNext, trak, Seconds
  <2> QED
    BY <1>t, <2>1, <2>2, FragmentsKept
<1> QED
  BY <1>1, <1>2, <1>3, <1>4, <1>5, <1>6, <1>7, <1>8, <1>9, <1>10, <1>11, <1>12 DEF Next

THEOREM InvariantHolds == Spec => []IInv
<1> QED
  BY InitIInv, NextIInv, PTL DEF Spec

-------------------------------------------------------------------------------
\* The walk stays in the tracks and their samples, for every movie.
THEOREM TypeCorrect == Spec => []TypeOK
<1>1. IInv => TypeOK
  BY DEF IInv
<1> QED
  BY <1>1, InvariantHolds, PTL

\* The first fragment ends at the next cut, so by PlaylistServed of
\* Playlist_proof where the playlist says, for every movie and every request.
THEOREM FirstFragment == Spec => []FirstFragmentCut
<1>1. IInv => FirstFragmentCut
  BY DEF IInv
<1> QED
  BY <1>1, InvariantHolds, PTL

\* The second fragment spans as many sync intervals as the first, except after
\* a first fragment of one interval, which last_chunk cannot tell from none.
THEOREM SecondFragment == Spec => []SecondFollowsFirst
<1>1. IInv => SecondFollowsFirst
  BY DEF IInv
<1> QED
  BY <1>1, InvariantHolds, PTL

-------------------------------------------------------------------------------
(* Which tracks the fragments are of. *)

MaySend(k) == Trak(k).kind = "vide" \/ k = audio

Taken(k) == \E f \in 1 .. Len(fragment) : fragment[f].track = k

\* A track that was left behind and could have been sent is sent, or both
\* fragments were taken by tracks before it.
PassedOver ==
    \A k \in TrackIds :
        k < track_id /\ k \in Candidates =>
            \/ Taken(k)
            \/ /\ Len(fragment) = MaxFragments
               /\ \A f \in 1 .. Len(fragment) : fragment[f].track < k

FragmentsMaySend ==
    /\ \A f \in 1 .. Len(fragment) : MaySend(fragment[f].track)
    /\ Len(fragment) = 2 => fragment[1].track < fragment[2].track

\* Fragments end at a sync sample or at the end sample, which is marked too.
FragmentsEndSync ==
    \A f \in 1 .. Len(fragment) : Trak(fragment[f].track).sync[fragment[f].last]

\* The walk has not passed the sample asked for.
NotPassed == pc = "scan" => i <= start

Found == pc = "get_next" => MaySend(track_id)

\* The sound track is counted only if it has the sample asked for.
AudioFound == audio_tracks = 1 => audio \in Candidates

AllDone ==
    pc \in {"chosen", "failed"} =>
        /\ track_id = Len(moov)
        /\ pc = "failed" <=> fragment = <<>>

ChoiceInv ==
    /\ PassedOver /\ FragmentsMaySend /\ FragmentsEndSync
    /\ NotPassed /\ Found /\ AudioFound /\ AllDone

LEMMA InitChoiceInv == Init => ChoiceInv
BY DEF Init, ChoiceInv, PassedOver, FragmentsMaySend, FragmentsEndSync, NotPassed, Found,
       AudioFound, AllDone, TrackIds

\* Leaving a track that has no sample to send, or no room for it.
LEMMA TrackLeft ==
    ASSUME IInv, ChoiceInv, UNCHANGED <<request, fragment>>, track_id' = track_id + 1,
           track_id \in Candidates => Len(fragment) = MaxFragments
    PROVE  PassedOver'
<1> USE DEF request
<1>1. /\ track_id \in Nat /\ fragment \in Seq(FragmentRec) /\ Len(moov) \in Nat
      /\ \A f \in 1 .. Len(fragment) : fragment[f].track < track_id
  BY MovieFacts DEF IInv, TypeOK, Request, FragmentsStart
<1>2. Candidates' = Candidates /\ TrackIds' = TrackIds
  BY DEF Candidates, TrackIds, Trak
<1>3. \A k : Taken(k)' <=> Taken(k)
  BY DEF Taken
<1> SUFFICES ASSUME NEW k \in TrackIds, k < track_id + 1, k \in Candidates, ~ Taken(k)
             PROVE  /\ Len(fragment) = MaxFragments
                    /\ \A f \in 1 .. Len(fragment) : fragment[f].track < k
  BY <1>2, <1>3 DEF PassedOver
<1>4. k \in Nat
  BY DEF TrackIds
<1>5. CASE k < track_id
  BY <1>5 DEF ChoiceInv, PassedOver
<1>6. CASE k = track_id
  BY <1>1, <1>6
<1> QED
  BY <1>1, <1>4, <1>5, <1>6

\* The conjuncts that only look at the fragments.
LEMMA ChoiceKept ==
    ASSUME ChoiceInv, UNCHANGED <<request, fragment>>
    PROVE  FragmentsMaySend' /\ FragmentsEndSync'
BY DEF ChoiceInv, FragmentsMaySend, FragmentsEndSync, MaySend, Trak, request

LEMMA SameTrack ==
    ASSUME ChoiceInv, UNCHANGED <<request, fragment, track_id>>
    PROVE  PassedOver'
BY DEF ChoiceInv, PassedOver, Taken, Candidates, TrackIds, Trak, request

LEMMA SameAudio ==
    ASSUME ChoiceInv, UNCHANGED <<request, audio_tracks>>
    PROVE  AudioFound'
BY DEF ChoiceInv, AudioFound, Candidates, TrackIds, Trak, request

\* A step that finds the sample asked for.
LEMMA FoundHere ==
    ASSUME IInv, ChoiceInv, AtSync, ~ OtherAudio, i = start
    PROVE  /\ track_id \in Candidates
           /\ trak.kind = "soun" => track_id = audio
<1>1. /\ track_id \in TrackIds /\ trak = Trak(track_id)
      /\ IsTrak(trak) /\ trak.kind \in {"vide", "soun"}
      /\ sample \in 0 .. trak.size /\ sample # trak.size /\ trak.sync[sample]
      /\ SyncOrdinal(trak, sample) = start
  <2>1. track_id \in 0 .. Len(moov) - 1 /\ sample \in 0 .. trak.size
    BY MovieFacts DEF IInv, TypeOK, Request, AtSync
  <2>2. track_id + 1 \in 1 .. Len(moov)
    BY <2>1, MovieFacts DEF IInv, Request
  <2> QED
    BY <2>1, <2>2, MoviesAssumption DEF IInv, Request, AtSync, AtScan, TrackIds, Trak, trak
<1>2. trak.size \in Nat
  BY <1>1 DEF IsTrak
<1>3. sample \in SampleNumbered(trak, start)
  BY <1>1, <1>2 DEF SampleNumbered
<1> QED
  BY <1>1, <1>3 DEF Candidates, OtherAudio

\* A track walked over to its end has no sample of the number asked for.
LEMMA NoneHere ==
    ASSUME IInv, ChoiceInv, TrackEnds
    PROVE  track_id \notin Candidates
<1> SUFFICES ASSUME track_id \in Candidates PROVE FALSE
  OBVIOUS
<1>1. trak = Trak(track_id) /\ trak.size \in Nat /\ track_id \in TrackIds
  BY MovieFacts DEF Candidates, TrackIds, Trak, trak, IInv, Request
<1>2. PICK a \in SampleNumbered(trak, start) : TRUE
  BY <1>1 DEF Candidates
<1>3. a \in Nat /\ a < trak.size
  BY <1>1 DEF SampleNumbered
<1>4. PICK t, n, b : t = trak /\ n = start /\ b = trak.size
  OBVIOUS
<1>5. t.size \in Nat /\ a \in SampleNumbered(t, n) /\ b \in Nat /\ a < b
  BY <1>1, <1>3, <1>4
<1>6. n \in Nat /\ n < SyncOrdinal(t, b)
  BY ONLY <1>5, NumberedBelow
<1>7. i = SyncOrdinal(t, b) /\ i <= n /\ i \in Nat
  BY <1>4 DEF TrackEnds, IInv, AtScan, ChoiceInv, NotPassed, TypeOK
<1> QED
  BY <1>6, <1>7

LEMMA NextChoiceInv == IInv /\ ChoiceInv /\ [Next]_vars => ChoiceInv'
<1> SUFFICES ASSUME IInv, ChoiceInv, [Next]_vars
             PROVE  ChoiceInv'
  OBVIOUS
<1>t. /\ track_id \in Nat /\ i \in Nat /\ start \in Nat
      /\ fragment \in Seq(FragmentRec) /\ Len(fragment) \in Nat /\ Len(fragment) <= 2
      /\ Len(moov) \in Nat /\ audio_tracks \in {0, 1}
      /\ (Len(fragment) = 0) <=> (fragment = <<>>)
  BY MovieFacts DEF IInv, TypeOK, Request, MaxFragments
<1>1. CASE EnterTrack
  <2> USE <1>1 DEF EnterTrack
  <2>1. NotPassed' /\ Found' /\ AllDone'
    BY <1>t DEF NotPassed, Found, AllDone, request
  <2> QED
    BY <2>1, ChoiceKept, SameTrack, SameAudio DEF ChoiceInv
<1>2. CASE SkipNonSync
  <2> USE <1>2 DEF SkipNonSync
  <2>1. NotPassed' /\ Found' /\ AllDone'
    BY DEF ChoiceInv, NotPassed, Found, AllDone, request
  <2> QED
    BY <2>1, ChoiceKept, SameTrack, SameAudio DEF ChoiceInv
<1>3. CASE RefuseTrack
  <2> USE <1>3 DEF RefuseTrack, LeaveTrack
  <2>1. NotPassed' /\ Found' /\ AllDone'
    BY DEF NotPassed, Found, AllDone
  <2>2. track_id \notin Candidates
    BY DEF OtherAudio, Candidates, Trak, trak
  <2> QED
    BY <2>1, <2>2, TrackLeft, ChoiceKept, SameAudio DEF ChoiceInv
<1>4. CASE PassSync
  <2> USE <1>4 DEF PassSync, AtSync
  <2>1. NotPassed' /\ Found' /\ AllDone'
    BY <1>t DEF ChoiceInv, NotPassed, Found, AllDone, request
  <2> QED
    BY <2>1, ChoiceKept, SameTrack, SameAudio DEF ChoiceInv
<1>5. CASE FoundStart
  <2> USE <1>5 DEF FoundStart
  <2>1. track_id \in Candidates /\ (trak.kind = "soun" => track_id = audio)
    BY FoundHere
  <2>2. NotPassed' /\ Found' /\ AllDone'
    BY <2>1 DEF NotPassed, Found, AllDone, MaySend, Candidates, Trak, request
  <2>3. AudioFound'
    <3>1. Candidates' = Candidates
      BY DEF Candidates, TrackIds, Trak, request
    <3>2. CASE trak.kind = "soun"
      BY <2>1, <3>1, <3>2 DEF AudioFound, request
    <3>3. CASE trak.kind # "soun"
      BY <1>t, <3>1, <3>3 DEF AudioFound, ChoiceInv, CountAudio, request
    <3> QED
      BY <3>2, <3>3
  <2> QED
    BY <2>2, <2>3, ChoiceKept, SameTrack DEF ChoiceInv
<1>6. CASE FoundNoRoom
  <2> USE <1>6 DEF FoundNoRoom, LeaveTrack
  <2>1. track_id \in Candidates /\ (trak.kind = "soun" => track_id = audio)
    BY FoundHere
  <2>2. NotPassed' /\ Found' /\ AllDone'
    BY DEF NotPassed, Found, AllDone
  <2>3. AudioFound'
    <3>1. Candidates' = Candidates
      BY DEF Candidates, TrackIds, Trak, request
    <3>2. CASE trak.kind = "soun"
      BY <2>1, <3>1, <3>2 DEF AudioFound, request
    <3>3. CASE trak.kind # "soun"
      BY <1>t, <3>1, <3>3 DEF AudioFound, ChoiceInv, CountAudio, request
    <3> QED
      BY <3>2, <3>3
  <2>4. PassedOver'
    <3>1. Len(fragment) \in Nat /\ Len(fragment) <= 2 /\ Len(fragment) >= 2
      BY <1>t DEF MaxFragments
    <3>2. Len(fragment) = 2
      BY ONLY <3>1, SMTT(30)
    <3> QED
      BY <3>2, TrackLeft DEF MaxFragments
  <2> QED
    BY <2>2, <2>3, <2>4, ChoiceKept DEF ChoiceInv
<1>7. CASE TrackEnds
  <2>1. track_id \notin Candidates
    BY <1>7, NoneHere
  <2> USE <1>7 DEF TrackEnds, LeaveTrack
  <2>2. NotPassed' /\ Found' /\ AllDone'
    BY DEF NotPassed, Found, AllDone
  <2> QED
    BY <2>1, <2>2, TrackLeft, ChoiceKept, SameAudio DEF ChoiceInv
<1>8. CASE GetNextSkip
  <2> USE <1>8 DEF GetNextSkip
  <2>1. NotPassed' /\ Found' /\ AllDone'
    BY DEF ChoiceInv, NotPassed, Found, AllDone, MaySend, Trak, request
  <2> QED
    BY <2>1, ChoiceKept, SameTrack, SameAudio DEF ChoiceInv
<1>9. CASE GetNextPass
  <2> USE <1>9 DEF GetNextPass
  <2>1. NotPassed' /\ Found' /\ AllDone'
    BY DEF ChoiceInv, NotPassed, Found, AllDone, MaySend, Trak, request
  <2> QED
    BY <2>1, ChoiceKept, SameTrack, SameAudio DEF ChoiceInv
<1>10. CASE GetNextReturn
  <2> USE <1>10 DEF GetNextReturn, request
  <2> DEFINE g == [track |-> track_id, first |-> sample, last |-> next]
             n == Len(fragment)
  <2>1. /\ track_id \in TrackIds /\ trak = Trak(track_id) /\ trak.sync[next]
        /\ sample \in Nat /\ next \in Nat /\ n < 2
    <3>1. track_id \in 0 .. Len(moov) - 1 /\ sample \in 0 .. trak.size
          /\ next \in sample + 1 .. trak.size /\ n < 2
      BY MovieFacts DEF IInv, TypeOK, Request, AtGetNext, MaxFragments
    <3>2. trak = Trak(track_id) /\ trak.size \in Nat /\ trak.sync[trak.size]
      BY <3>1, MovieFacts DEF IInv, Request, Trak, trak
    <3> QED
      BY <3>1, <3>2 DEF TrackIds
  <2>2. /\ Len(fragment') = n + 1
        /\ fragment'[n + 1] = g
        /\ \A k \in 1 .. n : fragment'[k] = fragment[k]
        /\ fragment' # <<>>
    <3>1. g \in FragmentRec
      BY <1>t, <2>1 DEF FragmentRec
    <3> HIDE DEF g
    <3>2. fragment' = Append(fragment, g)
      BY DEF g
    <3> QED
      BY <1>t, <3>1, <3>2
  <2>3. /\ Candidates' = Candidates /\ TrackIds' = TrackIds
        /\ \A k : Trak(k)' = Trak(k) /\ MaySend(k)' = MaySend(k)
    BY DEF Candidates, TrackIds, Trak, MaySend
  <2>4. NotPassed' /\ Found' /\ AllDone' /\ AudioFound'
    BY <2>3 DEF NotPassed, Found, AllDone, AudioFound, ChoiceInv
  <2>5. \A f \in 1 .. n : fragment[f].track < track_id
    BY DEF IInv, FragmentsStart
  <2>6. FragmentsMaySend'
    <3>1. ASSUME NEW f \in 1 .. n + 1 PROVE MaySend(fragment'[f].track)
      <4>1. CASE f = n + 1
        <5>1. MaySend(track_id)
          BY DEF ChoiceInv, Found
        <5> QED
          BY <2>2, <4>1, <5>1
      <4>2. CASE f \in 1 .. n
        BY <2>2, <4>2 DEF ChoiceInv, FragmentsMaySend
      <4> QED
        BY <1>t, <4>1, <4>2
    <3>2. n = 1 => fragment'[1].track < fragment'[2].track
      BY <2>2, <2>5
    <3>3. n \in Nat
      BY <1>t
    <3>4. n + 1 = 2 => n = 1
      <4>1. \A x \in Nat : x + 1 = 2 => x = 1
        BY ONLY <3>3
      <4> HIDE DEF n
      <4> QED
        BY ONLY <3>3, <4>1
    <3>5. MaySend(track_id) /\ \A f \in 1 .. Len(fragment') : MaySend(fragment[f].track)'
      BY <2>2, <2>3, <3>1 DEF MaySend, Trak, ChoiceInv, Found
    <3>6. Len(fragment') = 2 => fragment'[1].track < fragment'[2].track
      BY <2>2, <3>2, <3>4
    <3> QED
      BY <3>5, <3>6 DEF FragmentsMaySend
  <2>7. FragmentsEndSync'
    <3>1. ASSUME NEW f \in 1 .. n + 1 PROVE Trak(fragment'[f].track).sync[fragment'[f].last]
      <4>1. CASE f = n + 1
        BY <2>1, <2>2, <4>1
      <4>2. CASE f \in 1 .. n
        BY <2>2, <4>2 DEF ChoiceInv, FragmentsEndSync
      <4> QED
        BY <1>t, <4>1, <4>2
    <3> QED
      BY <2>2, <2>3, <3>1 DEF FragmentsEndSync
  <2>8. PassedOver'
    <3> SUFFICES ASSUME NEW k \in TrackIds, k < track_id + 1, k \in Candidates
                 PROVE  Taken(k)' \/ (/\ Len(fragment') = MaxFragments
                                      /\ \A f \in 1 .. Len(fragment') : fragment'[f].track < k)
      BY <2>3 DEF PassedOver
    <3>1. CASE k = track_id
      <4>1. n + 1 \in 1 .. Len(fragment') /\ fragment'[n + 1].track = k
        BY <1>t, <2>2, <3>1
      <4> QED
        BY <4>1 DEF Taken
    <3>2. CASE k < track_id
      <4>1. Taken(k) \/ n = 2
        BY <3>2 DEF ChoiceInv, PassedOver, MaxFragments
      <4>2. PICK f \in 1 .. n : fragment[f].track = k
        BY <1>t, <2>1, <4>1 DEF Taken
      <4>3. f \in 1 .. Len(fragment') /\ fragment'[f].track = k
        BY <1>t, <2>2, <4>2
      <4> QED
        BY <4>3 DEF Taken
    <3>3. k \in Nat
      BY DEF TrackIds
    <3> QED
      BY <1>t, <3>1, <3>2, <3>3
  <2> QED
    BY <2>4, <2>6, <2>7, <2>8 DEF ChoiceInv
<1>11. CASE AllTracksDone
  <2> USE <1>11 DEF AllTracksDone
  <2>1. NotPassed' /\ Found' /\ AllDone'
    BY DEF NotPassed, Found, AllDone, request
  <2> QED
    BY <2>1, ChoiceKept, SameTrack, SameAudio DEF ChoiceInv
<1>12. CASE UNCHANGED vars
  <2> USE <1>12 DEF vars, request
  <2>1. NotPassed' /\ Found' /\ AllDone'
    BY DEF ChoiceInv, NotPassed, Found, AllDone, MaySend, Trak
  <2> QED
    BY <2>1, ChoiceKept, SameTrack, SameAudio DEF ChoiceInv
<1> QED
  BY <1>1, <1>2, <1>3, <1>4, <1>5, <1>6, <1>7, <1>8, <1>9, <1>10, <1>11, <1>12 DEF Next

THEOREM ChoiceHolds == Spec => [](IInv /\ ChoiceInv)
<1> QED
  BY InvariantHolds, InitChoiceInv, NextChoiceInv, PTL DEF Spec

-------------------------------------------------------------------------------
\* What the invariant says of a fragment and its track.
LEMMA FragmentFacts ==
    ASSUME IInv, ChoiceInv, NEW f \in 1 .. Len(fragment)
    PROVE  LET g == fragment[f]
               t == Trak(g.track)
           IN  /\ g.track \in TrackIds /\ g.track \in Nat
               /\ g.track \in Candidates
               /\ IsTrak(t) /\ t.size \in Nat
               /\ g.first \in SampleNumbered(t, start)
               /\ g.first \in 0 .. t.size - 1
               /\ g.last \in g.first + 1 .. t.size
               /\ t.sync[g.last]
<1> DEFINE g == fragment[f]
           t == Trak(g.track)
<1>1. /\ g.track \in TrackIds
      /\ g.first \in SampleNumbered(t, start)
      /\ g.last \in g.first + 1 .. t.size
  BY DEF IInv, FragmentsStart
<1>2. MaySend(g.track) /\ t.sync[g.last]
  BY DEF ChoiceInv, FragmentsMaySend, FragmentsEndSync
<1>3. g.track \in 0 .. Len(moov) - 1 /\ Len(moov) \in Nat
  BY <1>1, MovieFacts DEF TrackIds, IInv, Request
<1>4. IsTrak(t) /\ t.size \in Nat
  BY <1>3, MovieFacts DEF IInv, Request
<1>5. g.first \in 0 .. t.size - 1
  BY <1>1 DEF SampleNumbered
<1>6. g.track \in Candidates
  BY <1>1, <1>2 DEF Candidates, MaySend
<1>7. g.track \in Nat
  BY <1>3
<1> QED
  BY <1>1, <1>2, <1>4, <1>5, <1>6, <1>7

LEMMA UpToTwo == \A x \in Nat : x <= 2 => x = 0 \/ x = 1 \/ x = 2
OBVIOUS

Took == {fragment[f].track : f \in 1 .. Len(fragment)}

\* The fragments are of different tracks.
LEMMA TookCounts ==
    ASSUME IInv, ChoiceInv
    PROVE  Cardinality(Took) = Len(fragment)
<1>1. Len(fragment) \in Nat /\ Len(fragment) <= 2
  BY DEF IInv, TypeOK, MaxFragments
<1>2. Len(fragment) = 0 \/ Len(fragment) = 1 \/ Len(fragment) = 2
  BY ONLY <1>1, UpToTwo
<1>3. CASE Len(fragment) = 0
  <2>1. Took = {}
    BY <1>3 DEF Took
  <2> QED
    BY <1>3, <2>1, FS_EmptySet
<1>4. CASE Len(fragment) = 1
  <2>1. Took = {fragment[1].track}
    BY <1>4 DEF Took
  <2> QED
    BY <1>4, <2>1, FS_Singleton
<1>5. CASE Len(fragment) = 2
  <2>1. Took = {fragment[1].track} \cup {fragment[2].track}
    BY <1>5 DEF Took
  <2>2. fragment[1].track < fragment[2].track
    BY <1>5 DEF ChoiceInv, FragmentsMaySend
  <2>3. fragment[1].track \in Nat /\ fragment[2].track \in Nat
    <3>1. 1 \in 1 .. Len(fragment) /\ 2 \in 1 .. Len(fragment)
      BY <1>5
    <3> QED
      BY <3>1, FragmentFacts
  <2>4. fragment[1].track # fragment[2].track
    BY <2>2, <2>3
  <2>5. IsFiniteSet({fragment[1].track}) /\ Cardinality({fragment[1].track}) = 1
    BY FS_Singleton
  <2>6. Cardinality({fragment[1].track} \cup {fragment[2].track}) = 1 + 1
    BY <2>4, <2>5, FS_AddElement
  <2> QED
    BY <1>5, <2>1, <2>6
<1> QED
  BY <1>2, <1>3, <1>4, <1>5

\* A request fails exactly when no track it may send has the sync sample its
\* URL numbers, and otherwise sends the first such tracks from that sample:
\* for every movie, every number and every audio argument.
THEOREM FragmentsChosen == Spec => []ChosenByNumber
<1>1. IInv /\ ChoiceInv => ChosenByNumber
  <2> SUFFICES ASSUME IInv, ChoiceInv, pc \in {"chosen", "failed"}
               PROVE  /\ pc = "failed" <=> Candidates = {}
                      /\ Took \subseteq Candidates
                      /\ Cardinality(Took) = Len(fragment)
                      /\ \A k \in Candidates \ Took :
                           Len(fragment) = MaxFragments /\ \A m \in Took : m < k
                      /\ \A f \in 1 .. Len(fragment) :
                           fragment[f].first \in SampleNumbered(Trak(fragment[f].track), start)
    BY DEF ChosenByNumber, Took
  <2>1. track_id = Len(moov) /\ (pc = "failed" <=> fragment = <<>>) /\ Len(moov) \in Nat
    BY MovieFacts DEF ChoiceInv, AllDone, IInv, Request
  <2>2. Took \subseteq Candidates
    BY FragmentFacts DEF Took
  <2>3. \A k \in Candidates \ Took :
          Len(fragment) = MaxFragments /\ \A m \in Took : m < k
    <3> SUFFICES ASSUME NEW k \in Candidates, k \notin Took
                 PROVE  Len(fragment) = MaxFragments /\ \A m \in Took : m < k
      OBVIOUS
    <3>1. k \in TrackIds /\ k < track_id
      BY <2>1 DEF Candidates, TrackIds
    <3>2. ~ Taken(k)
      BY DEF Taken, Took
    <3>3. Len(fragment) = MaxFragments /\ \A f \in 1 .. Len(fragment) : fragment[f].track < k
      BY <3>1, <3>2 DEF ChoiceInv, PassedOver
    <3> QED
      BY <3>3 DEF Took
  <2>4. fragment = <<>> <=> Took = {}
    <3>1. fragment = <<>> <=> Len(fragment) = 0
      BY DEF IInv, TypeOK
    <3>2. Len(fragment) \in Nat
      BY DEF IInv, TypeOK
    <3>3. Len(fragment) # 0 => fragment[1].track \in Took
      BY <3>2 DEF Took
    <3>4. Len(fragment) = 0 => Took = {}
      BY DEF Took
    <3> QED
      BY <3>1, <3>3, <3>4
  <2>5. pc = "failed" <=> Candidates = {}
    <3>1. CASE Took = {}
      <4>1. Candidates \ Took = {}
        <5>1. Len(fragment) # MaxFragments
          BY <2>4, <3>1 DEF MaxFragments
        <5> QED
          BY <2>3, <5>1
      <4> QED
        BY <2>1, <2>4, <3>1, <4>1
    <3>2. CASE Took # {}
      BY <2>1, <2>2, <2>4, <3>2
    <3> QED
      BY <3>1, <3>2
  <2> QED
    BY <2>2, <2>3, <2>5, TookCounts, FragmentFacts
<1> QED
  BY <1>1, ChoiceHolds, PTL

\* All the fragments the muxer goes on to use are there, when the sound track
\* asked for has the marks of the video: for every movie and request.
THEOREM SlotsAreFilled == Spec => []SlotsFilled
<1>1. IInv /\ ChoiceInv => SlotsFilled
  <2> SUFFICES ASSUME IInv, ChoiceInv, pc = "chosen", NEW v \in TrackIds, Copied(v, audio)
               PROVE  FragmentSize <= Len(fragment)
    BY DEF SlotsFilled
  <2>1. /\ track_id = Len(moov) /\ fragment # <<>> /\ Len(moov) \in Nat
        /\ \A k \in TrackIds : k \in Nat /\ k < track_id
    BY MovieFacts DEF ChoiceInv, AllDone, IInv, Request, TrackIds
  <2>2. Len(fragment) \in {1, 2} /\ audio_tracks \in {0, 1}
    <3>1. Len(fragment) \in Nat /\ Len(fragment) <= 2 /\ audio_tracks \in 0 .. 1
      BY DEF IInv, TypeOK, MaxFragments
    <3>2. Len(fragment) # 0
      BY <2>1 DEF IInv, TypeOK
    <3>3. Len(fragment) = 0 \/ Len(fragment) = 1 \/ Len(fragment) = 2
      BY ONLY <3>1, UpToTwo
    <3> QED
      BY <3>1, <3>2, <3>3
  <2>3. CASE audio_tracks = 0
    <3>1. FragmentSize = 1
      BY <2>3 DEF FragmentSize, MaxFragments
    <3> QED
      BY <2>2, <3>1
  <2>4. CASE audio_tracks = 1
    <3> DEFINE V == Trak(v)
               A == Trak(audio)
    <3>1. FragmentSize = 2
      BY <2>4 DEF FragmentSize, MaxFragments
    <3>2. audio \in Candidates /\ audio \in TrackIds /\ SampleNumbered(A, start) # {}
      BY <2>4 DEF ChoiceInv, AudioFound, Candidates
    <3>3. v # audio /\ A = WithCopiedSync(V, A)
      BY DEF Copied, MarksVideo
    <3>4. /\ IsTrak(V) /\ IsTrak(A) /\ V.size \in Nat /\ A.size \in Nat
          /\ \A s \in 0 .. V.size - 1 : V.sync[s] \in BOOLEAN
      <4>1. v \in 0 .. Len(moov) - 1 /\ audio \in 0 .. Len(moov) - 1
        BY <3>2 DEF TrackIds
      <4>2. IsTrak(V) /\ IsTrak(A) /\ V.size \in Nat /\ A.size \in Nat
        BY <4>1, MovieFacts DEF IInv, Request
      <4>3. V.sync \in [0 .. V.size -> BOOLEAN]
        BY <4>1, MovieFacts DEF IInv, Request
      <4> HIDE DEF V, A
      <4> QED
        BY <4>2, <4>3
    <3>5. start \in Nat /\ start < SyncOrdinal(V, V.size)
      <4> HIDE DEF V, A
      <4>1. PICK a : a \in SampleNumbered(A, start)
        BY <3>2
      <4>2. a < A.size
        BY <3>4, <4>1 DEF SampleNumbered
      <4>3. start \in Nat /\ start < SyncOrdinal(A, A.size)
        BY <3>4, <4>1, <4>2, NumberedBelow
      <4>4. SyncOrdinal(A, A.size) <= SyncOrdinal(V, V.size)
        BY <3>3, <3>4, CopiedFewer
      <4>5. SyncOrdinal(A, A.size) \in Nat /\ SyncOrdinal(V, V.size) \in Nat
        BY <3>4, SyncBeforeFinite
      <4> QED
        BY <4>3, <4>4, <4>5
    <3>6. v \in Candidates
      <4>1. SampleNumbered(V, start) # {}
        <5> HIDE DEF V, A
        <5> QED
          BY <3>4, <3>5, NumberedExists
      <4> QED
        BY <4>1 DEF Candidates, Copied, MarksVideo
    <3>7. ~ (Taken(v) /\ Taken(audio)) => Len(fragment) = 2
      BY <2>1, <3>2, <3>6 DEF ChoiceInv, PassedOver, MaxFragments
    <3>8. Taken(v) /\ Taken(audio) => Len(fragment) = 2
      BY <2>2, <3>3 DEF Taken
    <3> QED
      BY <3>1, <3>7, <3>8
  <2> QED
    BY <2>2, <2>3, <2>4
<1> QED
  BY <1>1, ChoiceHolds, PTL

\* The audio fragment starts with the first audio sample not before the video
\* fragment and reaches to where the video fragment ends: for every movie with
\* copied marks, no two of them on one audio sample.
THEOREM AudioCovers == Spec => []AudioCoversVideo
<1>1. IInv /\ ChoiceInv => AudioCoversVideo
  <2> SUFFICES ASSUME IInv, ChoiceInv, NEW v \in TrackIds, NEW a \in TrackIds,
                      Len(fragment) = 2, fragment[1].track = v, fragment[2].track = a,
                      Copied(v, a), MarksApart(Trak(v), Trak(a))
               PROVE  /\ fragment[2].first \in MarkOf(Trak(v), Trak(a), fragment[1].first)
                      /\ \/ fragment[2].last = Trak(a).size
                         \/ Trak(a).pts[fragment[2].last]
                              >= AudioTimeOf(Trak(v), Trak(a), fragment[1].last)
    BY DEF AudioCoversVideo, MarkOf, AudioTimeOf
  <2> DEFINE f == fragment[1]
             g == fragment[2]
             V == Trak(v)
             A == Trak(a)
  <2>1. 1 \in 1 .. Len(fragment) /\ 2 \in 1 .. Len(fragment)
    OBVIOUS
  <2>2. /\ IsTrak(V) /\ V.size \in Nat
        /\ f.first \in SampleNumbered(V, start) /\ f.first \in 0 .. V.size - 1
        /\ f.last \in f.first + 1 .. V.size
    BY <2>1, FragmentFacts
  <2>3. /\ IsTrak(A) /\ A.size \in Nat
        /\ g.first \in SampleNumbered(A, start) /\ g.first \in 0 .. A.size - 1
        /\ g.last \in g.first + 1 .. A.size /\ A.sync[g.last]
    BY <2>1, FragmentFacts
  <2>4. A = WithCopiedSync(V, A) /\ MarksApart(V, A)
    BY DEF Copied
  <2>5. \/ SyncOrdinal(A, g.last) - SyncOrdinal(A, g.first)
             >= SyncOrdinal(V, f.last) - SyncOrdinal(V, f.first)
        \/ g.last = A.size
    BY DEF IInv, SecondFollowsFirst, Span
  <2> HIDE DEF f, g, V, A
  <2>6. g.first \in MarkOf(V, A, f.first)
    BY <2>2, <2>3, <2>4, CoveredFrom
  <2>7. ASSUME g.last # A.size
        PROVE  A.pts[g.last] >= AudioTimeOf(V, A, f.last)
    <3>1. /\ g.last \in 0 .. A.size - 1 /\ g.last \in Nat /\ g.first \in Nat
          /\ f.last \in 0 .. V.size /\ f.last \in Nat /\ f.first \in Nat
      BY <2>2, <2>3, <2>7
    <3>2. /\ SyncOrdinal(A, g.last) \in Nat
          /\ SyncOrdinal(V, f.last) \in Nat
          /\ SyncOrdinal(A, g.first) \in Nat
      BY <3>1, SyncBeforeFinite
    <3>3. SyncOrdinal(A, g.first) = start /\ SyncOrdinal(V, f.first) = start
      BY <2>2, <2>3 DEF SampleNumbered
    <3>4. SyncOrdinal(A, g.last) >= SyncOrdinal(V, f.last)
      BY <2>5, <2>7, <3>2, <3>3
    <3> QED
      BY <2>2, <2>3, <2>4, <3>1, <3>4, CoveredTo
  <2> QED
    BY <2>6, <2>7 DEF f, g, V, A
<1> QED
  BY <1>1, ChoiceHolds, PTL

===============================================================================
