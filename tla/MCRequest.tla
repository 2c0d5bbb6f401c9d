------------------------------- MODULE MCRequest -------------------------------
(***************************************************************************)
(* Request on a small movie of which one or two atoms are missing, there   *)
(* twice, too small, broken or unknown; on movies of several tracks; on    *)
(* tracks with all kinds of sample descriptions; on what can be at a path; *)
(* and on all short sequences of argument tokens.                          *)
(***************************************************************************)
EXTENDS Request

CONSTANT ArgLength

Box(type, fate) == [type |-> type, fate |-> fate, sps |-> <<>>, pps |-> <<>>, boxes |-> <<>>]
AvcC(sps, pps) == [Box("avcC", "good") EXCEPT !.sps = sps, !.pps = pps]
Wave1(box) == [Box("wave", "good") EXCEPT !.boxes = <<box>>]

Entry(fourcc, boxes) ==
    [fourcc |-> fourcc, fixed |-> TRUE, version |-> 0, extended |-> TRUE,
     channels |-> 2, rate |-> 44100, boxes |-> boxes]
Avc1 == Entry("avc1", <<AvcC(<<"s">>, <<"p">>)>>)
Mp4a == Entry("mp4a", <<Box("esds", "good")>>)

A(type, up, fate) ==
    [type |-> type, up |-> up, fate |-> fate,
     entries |-> IF type = "stsd" THEN <<Avc1>> ELSE <<>>]
G(type, up) == A(type, up, "good")

\* The smallest track, and one that has all kinds of atoms.
SmallTrak(handler) ==
    <<G("trak", 0), G("tkhd", 1), G("mdia", 1), G("mdhd", 3), A("hdlr", 3, handler),
      G("minf", 3), G("stbl", 6), G("stsd", 7), G("stts", 7), G("stsc", 7), G("stsz", 7), G("stco", 7)>>
LargeTrak ==
    <<G("trak", 0), G("edts", 1), G("elst", 2), G("mdia", 1), G("mdhd", 4), A("hdlr", 4, "vide"),
      G("minf", 4), G("vmhd", 7), G("dinf", 7), G("dref", 9), G("stbl", 7), G("stsd", 11),
      G("stts", 11), G("stss", 11), G("ctts", 11), G("stsc", 11), G("stsz", 11), G("co64", 11),
      G("tkhd", 1)>>
Mvex == <<G("mvex", 0), G("trex", 1)>>

\* Tree u behind tree t.
Beside(t, u) ==
    t \o [k \in 1 .. Len(u) |-> [u[k] EXCEPT !.up = IF @ = 0 THEN 0 ELSE @ + Len(t)]]

Joined(parts) == FoldLeft(Beside, <<>>, parts)

Mvhd == <<G("mvhd", 0)>>
Small == Joined(<<Mvhd, SmallTrak("vide")>>)
Large == Joined(<<Mvhd, LargeTrak, Mvex>>)

-------------------------------------------------------------------------------
(* What may be wrong. *)

Behind(t, k) == Min({Len(t) + 1} \cup {j \in k + 1 .. Len(t) : t[j].up < k})

WrongFates(type) ==
    {"broken"} \cup
    CASE type \in Containers \cup {"mdhd", "free"} -> {}
      [] type = "hdlr" -> {"hint", "short", "none"}
      [] type \in {"stco", "co64"} -> {"cut", "none", "empty"}
      [] type \in Tables \cup {"stsz"} -> {"cut", "none"}
      [] OTHER -> {"short", "none"}

Spoilt(t) ==
    UNION {{[t EXCEPT ![k].fate = f] : f \in WrongFates(t[k].type)} : k \in 1 .. Len(t)}

\* Room for n atoms in front of k, or with n < 0 no room for those up to k - 1.
Renumbered(atom, k, n) == [atom EXCEPT !.up = IF @ >= k THEN @ + n ELSE @]

Removed(t) ==
    {LET n == Behind(t, k) - k
     IN  SubSeq(t, 1, k - 1)
         \o [j \in 1 .. Len(t) - Behind(t, k) + 1 |->
               Renumbered(t[Behind(t, k) + j - 1], Behind(t, k), -n)] : k \in 1 .. Len(t)}

Doubled(t) ==
    {LET b == Behind(t, k)
         n == b - k
     IN  SubSeq(t, 1, b - 1)
         \o [j \in 1 .. n |-> Renumbered(t[k + j - 1], k, n)]
         \o [j \in 1 .. Len(t) - b + 1 |-> Renumbered(t[b + j - 1], b, n)] : k \in 1 .. Len(t)}

\* An atom no reader knows, at the end of a container.
Extended(t) ==
    UNION {{LET b == IF k = 0 THEN Len(t) + 1 ELSE Behind(t, k)
            IN  SubSeq(t, 1, b - 1) \o <<A("free", k, f)>>
                \o [j \in 1 .. Len(t) - b + 1 |-> Renumbered(t[b + j - 1], b, 1)] :
              k \in {0} \cup {j \in 1 .. Len(t) : t[j].type \in Containers \ {"dinf"}}} :
              f \in {"good", "large"}}

Wrong(t) == Spoilt(t) \cup Removed(t) \cup Doubled(t) \cup Extended(t)

Several ==
    {Joined(p) : p \in
        {<<Mvhd, SmallTrak(g), SmallTrak(h)>> : g, h \in {"vide", "soun", "hint"}}
        \cup {<<Mvhd, SmallTrak("vide"), SmallTrak("soun"), SmallTrak(h)>> : h \in {"soun", "hint"}}
        \cup {<<Mvhd, SmallTrak("vide"), Mvex \o <<G("trex", 1)>> \o x>> : x \in {<<>>, <<G("trex", 1)>>}}}

\* Tracks with other sample descriptions.
Boxes ==
    {AvcC(s, p) : s \in {<<>>, <<"s">>, <<"s", "r">>}, p \in {<<>>, <<"p">>, <<"p", "q">>}}
    \cup {Box(type, fate) : type \in {"avcC", "other", "wave"}, fate \in {"good", "broken"}}
    \cup {Box("esds", fate) : fate \in {"good", "broken", "refused"}}
    \cup {Wave1(Box("esds", fate)) : fate \in {"good", "broken", "refused"}}

MCEntries ==
    {Entry("avc1", bs) : bs \in UNION {[1 .. n -> Boxes] : n \in 0 .. 2}}
    \cup {Entry(f, <<b>>) : f \in {"ovc1", "owma"}, b \in Boxes}
    \cup {[Mp4a EXCEPT !.fixed = x, !.version = v, !.extended = e] :
            x, e \in BOOLEAN, v \in 0 .. 3}
    \cup {[Mp4a EXCEPT !.channels = c, !.rate = r] :
            c \in {1, 2, 3, 6, 7, 8}, r \in {48000, 44100, 8000, 7350, 22254, 0}}

WithEntries(handler, entries) ==
    LET t == Joined(<<Mvhd, SmallTrak(handler)>>)
    IN  [k \in 1 .. Len(t) |-> IF t[k].type = "stsd" THEN [t[k] EXCEPT !.entries = entries] ELSE t[k]]

Described ==
    {WithEntries(h, <<e>>) : h \in {"vide", "soun"}, e \in MCEntries}
    \cup {WithEntries(h, es) : h \in {"vide", "soun", "hint"},
            es \in {<<>>, <<Avc1, [Avc1 EXCEPT !.fixed = FALSE]>>, <<[Mp4a EXCEPT !.version = 3], Mp4a>>}}

MCTrees ==
    {Small, Large} \cup Wrong(Small) \cup UNION {Wrong(t) : t \in Wrong(Small)} \cup Wrong(Large)
    \cup Several \cup Wrong(Joined(<<Mvhd, SmallTrak("soun"), SmallTrak("vide")>>))

-------------------------------------------------------------------------------
(* Requests. *)

Get(tree, m3u8) ==
    [method |-> "GET", slash |-> FALSE, args |-> <<>>, m3u8 |-> m3u8, dot |-> TRUE,
     file |-> "file", box |-> "found", tree |-> tree]

MCWords == {"v", "length", "3", "hash", "input", "fl", "end", "bit", "audio"}
MCNames ==
    [w \in MCWords |->
        CASE w = "v" -> {"video"} [] w = "bit" -> {"bitrate"}
          [] w \in Keys -> {w} [] OTHER -> {}]
MCNumber == [w \in MCWords |-> IF w = "3" THEN 3 ELSE 0]

\* Words do not touch.
IsArgs(s) == \A k \in 1 .. Len(s) - 1 : s[k] \in MCWords => s[k + 1] \notin MCWords

Tokens == {"=", "&", "v", "length", "3"}
MCArgs ==
    {s \in UNION {[1 .. n -> Tokens] : n \in 0 .. ArgLength} : IsArgs(s)}
    \cup {<<w, "=", x, "&", y, "=", "3">> : w, y \in MCWords, x \in {"3", "fl"}}
    \cup {<<w, "=", "&", y, "=", "3">> : w, y \in MCWords}

MCRequests ==
    {Get(t, TRUE) : t \in MCTrees}
    \cup {Get(t, FALSE) : t \in {Small, Large} \cup Wrong(Small) \cup Several \cup Described}
    \cup {[Get(Small, TRUE) EXCEPT !.args = a, !.file = "missing"] : a \in MCArgs}
    \cup {[Get(Small, m) EXCEPT !.method = h, !.slash = s, !.dot = d, !.file = f, !.box = b] :
            m, d \in BOOLEAN, h \in {"GET", "HEAD", "POST"}, s \in BOOLEAN,
            f \in {"file", "directory", "missing", "forbidden", "error"},
            b \in {"found", "missing", "unreadable"}}

===============================================================================
