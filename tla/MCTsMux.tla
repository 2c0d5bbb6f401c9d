-------------------------------- MODULE MCTsMux --------------------------------
(***************************************************************************)
(* TsMux on small fragments. Times have ten ticks a second: an audio       *)
(* sample lasts 0.3 s (the third finds the payload old) or 70 s (the       *)
(* tables are due again). Audio sizes leave room for three bytes of the    *)
(* next header, or take several payloads. Video samples are small, in      *)
(* order, or not in NAL units.                                             *)
(***************************************************************************)
EXTENDS TsMux

CONSTANTS AudioSize, PairedAudioSize, VideoSize

Durations(kind) == IF kind = "soun" THEN {3, 700} ELSE {4, 700}

Datas(kind) ==
    IF kind = "soun" THEN {[size |-> z, nal |-> TRUE] : z \in {50, 5864, 12000}}
    ELSE {[size |-> 20, nal |-> TRUE], [size |-> 1000, nal |-> TRUE], [size |-> 1000, nal |-> FALSE]}

SumTo(d, n) == LET sum[k \in 0 .. n] == IF k = 0 THEN 0 ELSE sum[k - 1] + d[k] IN sum[n]

\* A fragment of n samples from time `start`, lying at byte `base`.
Cut(kind, n, durations, datas, start, base) ==
    [kind |-> kind, timescale |-> 10, size |-> n,
     samples |-> [s \in 0 .. n |->
        [pts |-> start + SumTo(durations, s),
         cto |-> IF kind = "vide" /\ s = 0 THEN 1 ELSE 0,
         pos |-> base + SumTo([k \in 1 .. n |-> datas[k].size], s),
         size |-> IF s = n THEN 0 ELSE datas[s + 1].size,
         nal |-> s = n \/ datas[s + 1].nal]]]

Cuts(kind, n, start, base) ==
    {Cut(kind, n, d, z, start, base) : d \in [1 .. n -> Durations(kind)], z \in [1 .. n -> Datas(kind)]}

Pairs ==
    {<<v, a>> : v \in UNION {Cuts("vide", n, 0, 40) : n \in 1 .. VideoSize},
                a \in UNION {Cuts("soun", n, 1, 5000) : n \in 1 .. PairedAudioSize}}
    \cup {<<a, v>> : v \in Cuts("vide", 2, 2, 30000),
                     a \in UNION {Cuts("soun", n, 1, 60) : n \in 1 .. 2}}

\* Positions that do not grow, and none at all.
Broken(f) == [f EXCEPT !.samples[f.size].pos = 0]
Empty(f) == [f EXCEPT !.samples = [s \in 0 .. f.size |-> [@[s] EXCEPT !.pos = 0, !.size = 0]]]

MCInputs ==
    Pairs
    \cup {<<a>> : a \in Cuts("soun", AudioSize, 0, 40)}
    \cup {<<Broken(v)>> : v \in Cuts("vide", 1, 0, 40)}
    \cup {<<Empty(v)>> : v \in Cuts("vide", 1, 0, 0)}
    \cup {<<v, w>> : v \in Cuts("vide", 1, 0, 40), w \in Cuts("vide", 1, 1, 2000)}

===============================================================================
