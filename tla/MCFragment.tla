------------------------------ MODULE MCFragment ------------------------------
(***************************************************************************)
(* Fragment on small movies: a video track with any marks and an audio     *)
(* track that has copied marks or marks of its own, in either order, with  *)
(* a second audio or video track, or alone. Video has 2 ticks a second and *)
(* audio 3, so that converting times rounds.                               *)
(***************************************************************************)
EXTENDS Fragment

CONSTANTS VideoSize, AudioSize

SumTo(d, n) == LET sum[k \in 0 .. n] == IF k = 0 THEN 0 ELSE sum[k - 1] + d[k] IN sum[n]

Times(n, durations) == {[s \in 0 .. n |-> SumTo(d, s)] : d \in [1 .. n -> durations]}
Marks(n) == {[s \in 0 .. n |-> s = n \/ s \in m] : m \in SUBSET (0 .. n - 1)}

Track(kind, timescale, n, durations, marks) ==
    {[kind |-> kind, timescale |-> timescale, size |-> n, pts |-> p, sync |-> m] :
        p \in Times(n, durations), m \in marks}

Videos(sizes) == UNION {Track("vide", 2, n, {1, 2}, Marks(n)) : n \in sizes}
OwnAudios(sizes) == UNION {Track("soun", 3, n, {1, 3}, Marks(n)) : n \in sizes}
BareAudios(sizes) == UNION {Track("soun", 3, n, {1, 3}, {[s \in 0 .. n |-> s = n]}) : n \in sizes}

MCMovies ==
    {<<v, WithCopiedSync(v, a)>> : v \in Videos({VideoSize}), a \in BareAudios(1 .. AudioSize)}
    \cup {<<WithCopiedSync(v, a), v>> : v \in Videos({2}), a \in BareAudios({2})}
    \cup {<<v, a>> : v \in Videos({2}), a \in OwnAudios({3})}
    \cup {<<v, w, WithCopiedSync(w, a)>> : v \in Videos({1}), w \in Videos({2}), a \in BareAudios({3})}
    \cup {<<v, WithCopiedSync(w, a), w>> : v \in Videos({1}), w \in Videos({2}), a \in BareAudios({3})}
    \cup {<<v, WithCopiedSync(v, a), WithCopiedSync(v, a)>> : v \in Videos({2}), a \in BareAudios({3})}
    \cup {<<a>> : a \in OwnAudios({2})}

===============================================================================
