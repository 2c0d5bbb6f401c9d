------------------------------ MODULE MCPlaylist ------------------------------
(***************************************************************************)
(* Playlist on every track of at most MaxSize samples, with any marks, and *)
(* with sample durations that are shorter than, a tick short of, exactly   *)
(* and longer than the lengths, one of them within the 0.0005 s tolerance. *)
(***************************************************************************)
EXTENDS Playlist

CONSTANT MaxSize

\* At 2000 ticks a second, one tick is the tolerance.
MCTimescale == 2000
MCDurations == {1999, 2000, 3998, 6001}

SumTo(d, n) == LET sum[k \in 0 .. n] == IF k = 0 THEN 0 ELSE sum[k - 1] + d[k] IN sum[n]

MCTraksOfSize(n) ==
    {[size |-> n, timescale |-> MCTimescale,
      pts  |-> [s \in 0 .. n |-> SumTo(d, s)],
      sync |-> [s \in 0 .. n |-> s = n \/ s \in m]] :
        d \in [1 .. n -> MCDurations], m \in SUBSET (0 .. n - 1)}

MCTraks == UNION {MCTraksOfSize(n) : n \in 0 .. MaxSize}

===============================================================================
