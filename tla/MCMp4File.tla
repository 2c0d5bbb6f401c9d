------------------------------ MODULE MCMp4File ------------------------------
(***************************************************************************)
(* Mp4File on files of up to three atoms: of 8 to 32 bytes, the last of    *)
(* which the file may cut short, against a window of 16 bytes and a limit  *)
(* of 24.                                                                  *)
(***************************************************************************)
EXTENDS Mp4File, Sequences

Kinds == {[type |-> "ftyp", size |-> 8, extended |-> FALSE],
          [type |-> "other", size |-> 24, extended |-> TRUE],
          [type |-> "moov", size |-> 20, extended |-> FALSE],
          [type |-> "moov", size |-> 32, extended |-> FALSE],
          [type |-> "mdat", size |-> 12, extended |-> FALSE],
          [type |-> "mdat", size |-> 20, extended |-> TRUE]}

EndOf(kinds, k) ==
    LET end[n \in 0 .. k] == IF n = 0 THEN 0 ELSE end[n - 1] + kinds[n].size IN end[k]

Laid(kinds) ==
    {[start |-> EndOf(kinds, k - 1), type |-> kinds[k].type, size |-> kinds[k].size,
      extended |-> kinds[k].extended] : k \in 1 .. Len(kinds)}

FileOf(kinds, missing) == [size |-> EndOf(kinds, Len(kinds)) - missing, atoms |-> Laid(kinds)]

MCFiles ==
    {FileOf(kinds, missing) : kinds \in [1 .. 2 -> Kinds] \cup [1 .. 3 -> Kinds], missing \in {0, 5}}

MCLookalikes ==
    {[start |-> 0, type |-> "other", size |-> 0, extended |-> FALSE],
     [start |-> 0, type |-> "moov", size |-> 10, extended |-> FALSE],
     [start |-> 0, type |-> "mdat", size |-> 40, extended |-> TRUE]}

MCRanges == {[pos |-> 9, size |-> 4], [pos |-> 28, size |-> 12], [pos |-> 30, size |-> 30]}

===============================================================================
