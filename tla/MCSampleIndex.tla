---------------------------- MODULE MCSampleIndex ----------------------------
(***************************************************************************)
(* SampleIndex on one track whose tables agree or do not, on a video and   *)
(* an audio track with different clocks in either order, and on audio      *)
(* alone. The clocks of the movie, the video and the audio have 5, 2 and 3 *)
(* ticks a second, so that converting times rounds.                        *)
(***************************************************************************)
EXTENDS SampleIndex

Runs(c, n) == [chunk |-> c, samples |-> n]
Span(n, d) == [count |-> n, duration |-> d]
Shift(n, o) == [count |-> n, offset |-> o]

\* Positions of the chunks, and how many samples each has.
Layout(stco, stsc) == [stco |-> stco, stsc |-> stsc]
Agreeing == {Layout(<<10>>, <<Runs(0, 3)>>), Layout(<<30, 10>>, <<Runs(0, 1), Runs(1, 2)>>),
             Layout(<<40, 10, 30>>, <<Runs(0, 3), Runs(1, 0)>>)}
Wrong == {Layout(<<>>, <<>>),
          Layout(<<10, 30>>, <<Runs(0, 1)>>), Layout(<<10, 30>>, <<Runs(0, 2)>>),
          Layout(<<10, 30>>, <<Runs(1, 2)>>), Layout(<<10, 30>>, <<Runs(1, 1), Runs(0, 2)>>),
          Layout(<<10>>, <<Runs(0, 1), Runs(2, 1)>>)}

Sized == {[sample_size |-> 0, sizes |-> <<3, 5, 4>>], [sample_size |-> 4, sizes |-> <<>>]}

Stts == {<<Span(a, 1), Span(b, 2)>> : a \in 0 .. 2, b \in 0 .. 3} \cup {<<Span(3, 2)>>, <<Span(3, 0)>>}
Ctts == {<<>>, <<Shift(2, 1), Shift(1, 2)>>, <<Shift(1, 1)>>, <<Shift(2, 1), Shift(2, 3)>>}
Stss == {<<>>, <<1>>, <<1, 3>>, <<2, 3>>, <<1, 3, 2>>, <<4>>, <<5>>, <<0>>}

Trak(kind, timescale, layout, size, stts, ctts, implicit, stss) ==
    [kind |-> kind, timescale |-> timescale, stco |-> layout.stco, stsc |-> layout.stsc,
     sample_size |-> size.sample_size, sizes |-> size.sizes,
     stts |-> stts, ctts |-> ctts, implicit |-> implicit, stss |-> stss]

Movie(mvex, traks) == [mvex |-> mvex, timescale |-> 5, traks |-> traks]

\* One track, any of whose tables may be wrong.
Singles ==
    {Movie(FALSE, <<Trak("vide", 2, l, z, t, c, FALSE, k)>>) :
        l \in Agreeing \cup Wrong, z \in Sized, t \in Stts, c \in Ctts, k \in {<<1>>}}
    \cup {Movie(FALSE, <<Trak("vide", 2, l, z, t, <<>>, FALSE, k)>>) :
        l \in Agreeing, z \in Sized, t \in Stts, k \in Stss}
    \cup {Movie(FALSE, <<Trak("vide", 2, l, z, t, <<>>, TRUE, <<>>)>>) :
        l \in Agreeing, z \in Sized, t \in Stts}

\* Tracks of n samples of 1 or 2 ticks, in one chunk.
Even(kind, timescale, n, implicit, stss) ==
    {Trak(kind, timescale, Layout(<<10>>, <<Runs(0, n)>>), [sample_size |-> 4, sizes |-> <<>>],
          [j \in 1 .. n |-> Span(1, d[j])], <<>>, implicit, stss) : d \in [1 .. n -> {1, 2}]}

Videos == UNION {Even("vide", 2, 3, FALSE, k) : k \in {<<1>>, <<1, 2>>, <<1, 3>>, <<2, 3>>}}
Unmarked(n) == Even("soun", 3, n, TRUE, <<>>)
Own == Even("soun", 3, 3, FALSE, <<2>>)

Pairs ==
    {Movie(x, <<v, a>>) : x \in BOOLEAN, v \in Videos, a \in Unmarked(4)}
    \cup {Movie(FALSE, <<a, v>>) : v \in Videos, a \in Unmarked(3) \cup Own}
    \cup {Movie(FALSE, <<v, Trak("soun", 3, Layout(<<>>, <<>>), [sample_size |-> 4, sizes |-> <<>>],
                                 <<>>, <<>>, TRUE, <<>>)>>) : v \in Videos}

\* Key frames whose times are 0 in the clock of the movie, or of the audio.
Coarse ==
    {[Movie(FALSE, <<v, a>>) EXCEPT !.timescale = x] :
        x \in {3, 7}, v \in Even("vide", 7, 3, FALSE, <<1, 2>>), a \in Unmarked(3)}

Alone == {Movie(FALSE, <<a>>) : a \in Even("soun", 1, 6, TRUE, <<>>) \cup Even("soun", 2, 6, TRUE, <<>>)}

MCMovies == Singles \cup Pairs \cup Coarse \cup Alone

===============================================================================
