----------------------------- MODULE MCHlsService -----------------------------
(***************************************************************************)
(* Two workers; players that ask for 1 s segments, for 3 s segments with   *)
(* another sound track, and for no length; others that ask for 5 s,        *)
(* which is 1 s in an unsigned int.                                        *)
(***************************************************************************)
EXTENDS HlsService, TLC

CONSTANTS w1, w2, short, long, plain

MCArg == short :> 1 @@ long :> 3 @@ plain :> NoArg
MCAudioArg == short :> 0 @@ long :> 2 @@ plain :> 1
MCLimit == "vide" :> 30 @@ "soun" :> 24

\* A sample every second, 10 bytes each.
Video(size, sync) ==
    [kind |-> "vide", size |-> size, timescale |-> 1, pts |-> [k \in 0 .. size |-> k],
     sync |-> [k \in 0 .. size |-> k = size \/ k \in sync], pos |-> [k \in 0 .. size |-> 10 * k + 1]]

\* A sample every half second, 4 bytes each, with the marks of a video track.
Sound(size, video) ==
    WithCopiedSync(video,
        [kind |-> "soun", size |-> size, timescale |-> 2, pts |-> [k \in 0 .. size |-> k],
         sync |-> [k \in 0 .. size |-> TRUE], pos |-> [k \in 0 .. size |-> 4 * k + 5]])

\* A key frame every second; every other second, and a late one; a track that
\* does not start with its key frame.
Regular == Video(4, 0 .. 4)
Uneven == Video(5, {0, 2, 4})
Late == Video(2, {1})
\* The third second takes 31 bytes.
Heavy == [Regular EXCEPT !.pos[3] = 52, !.pos[4] = 62]

MCMovies ==
    {<<Late>>, <<Heavy>>,
     <<Uneven, Sound(10, Uneven)>>,
     <<Regular, Sound(5, Regular), Sound(8, Regular)>>,     \* the first sound ends early
     <<Sound(8, Regular), Regular>>, <<Sound(4, Regular)>>} \* sound first, sound alone

===============================================================================
