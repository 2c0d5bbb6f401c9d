------------------------------- MODULE AtomTree -------------------------------
(***************************************************************************)
(* moov_read (mp4_reader.h): the atoms inside moov become a tree of        *)
(* blocks. A container calls atom_reader, which reads each atom and hands  *)
(* what it made to the container's destination; a reader that fails ends   *)
(* the loop of its parent. Blocks are released by the exits (mp4_io.h),    *)
(* each of which releases what hangs on it.                                *)
(*                                                                         *)
(* The atoms are numbered in the order of the file, moov being 0; an atom  *)
(* has a type, the number `up` of the container it is in, a fate: what its *)
(* reader will find in it (see Fates), and, if it is an stsd, the sample   *)
(* descriptions (see SampleEntry). A block has the number of its atom.     *)
(* Each atom lies within its container, sizes are of 32 bits, and dinf     *)
(* holds no atom it does not know (it has no list for them).               *)
(***************************************************************************)
EXTENDS SampleEntry

CONSTANT MaxTracks      \* MAX_TRACKS

ASSUME MaxTracksAssumption == MaxTracks \in Nat \ {0}

\* For each container the atoms its atom_read_list names, and those without
\* which its reader fails.
MoovReads == [list |-> {"mvhd", "trak", "mvex"}, mandatory |-> {"mvhd", "trak"}]
TrakReads == [list |-> {"tkhd", "mdia", "edts"}, mandatory |-> {"tkhd", "mdia"}]
EdtsReads == [list |-> {"elst"}, mandatory |-> {}]

\* Faulty: a media without a minf is whole.
MdiaReadsNoMinf == [list |-> {"mdhd", "hdlr", "minf"}, mandatory |-> {"mdhd", "hdlr"}]

MdiaReads == [list |-> {"mdhd", "hdlr", "minf"}, mandatory |-> {"mdhd", "hdlr", "minf"}]

MinfReads == [list |-> {"vmhd", "smhd", "dinf", "stbl"}, mandatory |-> {"stbl"}]
DinfReads == [list |-> {"dref"}, mandatory |-> {"dref"}]
StblReads == [list |-> {"stsd", "stts", "stss", "stsc", "stsz", "stco", "co64", "ctts"},
              mandatory |-> {"stsd", "stts"}]
MvexReads == [list |-> {"trex"}, mandatory |-> {"trex"}]

Reads == [moov |-> MoovReads, trak |-> TrakReads, edts |-> EdtsReads, mdia |-> MdiaReads,
          minf |-> MinfReads, dinf |-> DinfReads, stbl |-> StblReads, mvex |-> MvexReads]
Containers == DOMAIN Reads

\* The readers of tables: the number of entries is compared with the size when
\* the block has been made.
OffsetTables == {"ctts", "stco", "co64"}
SampleTables == {"stsc", "stss"}
Tables == OffsetTables \cup SampleTables \cup {"stts"}

\* good; short: the payload is smaller than the fixed part; none: there is no
\* payload; cut: smaller than its entries; broken: a size below 8; for hdlr the
\* handler; a table may have no entries; large: an unknown atom of more than a
\* megabyte.
Fates == {"good", "short", "none", "cut", "broken", "vide", "soun", "hint",
          "empty", "large"}

IsTree(t) ==
    /\ Len(t) \in Nat
    /\ \A k \in 1 .. Len(t) :
        /\ t[k].up \in 0 .. k - 1 /\ t[k].fate \in Fates
        /\ \A j \in t[k].up + 1 .. k - 1 : t[j].up >= t[k].up
        /\ t[k].fate = "cut" => t[k].type \in Tables \cup {"stsz"}
        /\ t[k].type = "hdlr" => t[k].fate \in {"vide", "soun", "hint", "short", "none", "broken"}
        /\ t[k].type = "stsd" =>
             IsList(t[k].entries) /\ \A e \in ToSet(t[k].entries) : IsEntry(e)
        /\ t[k].up # 0 => t[t[k].up].type \in Containers \ {"moov"}
        /\ t[k].up # 0 /\ t[t[k].up].type = "dinf" => t[k].type = "dref"

None == -1

VARIABLES
    atoms,          \* the contents of moov
    open,           \* the containers being read, from moov inwards
    at,             \* the next atom
    result,         \* what atom_reader returns, once its loop has ended
    owner,          \* owner[k]: the block that points to block k, or None
    allocated, freed,
    parse           \* "loop", "ended", "parsed", "refused", "closed"

treeVars == <<atoms, open, at, result, owner, allocated, freed, parse>>

Atoms == 0 .. Len(atoms)
TypeOf(k) == IF k = 0 THEN "moov" ELSE atoms[k].type
IsContainer(k) == TypeOf(k) \in Containers

\* The atom behind k and all that is in it.
After(k) ==
    IF k = 0 THEN Len(atoms) + 1
    ELSE Min({Len(atoms) + 1} \cup {j \in k + 1 .. Len(atoms) : atoms[j].up < k})

\* The pointer, array or list of c that holds blocks of a type.
Slot(c, type) ==
    IF type \notin Reads[TypeOf(c)].list THEN "unknown"
    ELSE IF type = "co64" THEN "stco" ELSE type

Held(c, slot) == {k \in Atoms : owner[k] = c /\ Slot(c, TypeOf(k)) = slot}

\* The destinations: an array and the list of unknown atoms keep what they
\* hold, a pointer is overwritten.
Attached(c, k) ==
    LET slot == Slot(c, TypeOf(k))
        gone == IF slot \in {"trak", "trex", "unknown"} THEN {} ELSE Held(c, slot)
    IN  [j \in Atoms |-> IF j = k THEN c ELSE IF j \in gone THEN None ELSE owner[j]]

\* What an exit releases: the block and what hangs on it.
Reach(c) ==
    LET in[k \in Atoms] == k = c \/ (owner[k] \in 0 .. k - 1 /\ in[owner[k]])
    IN  {k \in Atoms : in[k]}

TreeInit(contents) ==
    /\ atoms = contents
    /\ open = <<0>> /\ at = 1
    /\ result = TRUE
    /\ owner = [k \in Atoms |-> None]
    /\ allocated = {0} /\ freed = {}
    /\ parse = "loop"

-------------------------------------------------------------------------------
(* atom_reader *)

cur == open[Len(open)]
More == parse = "loop" /\ at < After(cur)
Fate == atoms[at].fate
Known == atoms[at].type \in Reads[TypeOf(cur)].list

End(r) == parse' = "ended" /\ result' = r

HeaderBroken ==
    /\ More /\ Fate = "broken"
    /\ End(FALSE)
    /\ UNCHANGED <<atoms, open, at, owner, allocated, freed>>

\* unknown_atom_add_atom: a large atom makes the list of the others NULL.
Unknown ==
    /\ More /\ Fate # "broken" /\ ~ Known
    /\ IF Fate = "large"
       THEN /\ owner' = [k \in Atoms |-> IF k \in Held(cur, "unknown") THEN None ELSE owner[k]]
            /\ UNCHANGED allocated
       ELSE /\ owner' = Attached(cur, at)
            /\ allocated' = allocated \cup {at}
    /\ at' = After(at)
    /\ UNCHANGED <<atoms, open, result, freed, parse>>

OpenContainer ==
    /\ More /\ Fate # "broken" /\ Known /\ IsContainer(at)
    /\ open' = Append(open, at)
    /\ allocated' = allocated \cup {at}
    /\ at' = at + 1
    /\ UNCHANGED <<atoms, result, owner, freed, parse>>

\* mdhd_read looks at no size.
Unchecked == {"mdhd"}

Fails(k) == atoms[k].fate \in {"short", "none", "cut"} /\ TypeOf(k) \notin Unchecked

\* The arrays of moov and mvex are full.
Full(c, type) == type \in {"trak", "trex"} /\ Cardinality(Held(c, type)) = MaxTracks

ReadLeaf ==
    /\ More /\ Fate # "broken" /\ Known /\ ~ IsContainer(at)
    /\ ~ Fails(at) /\ ~ Full(cur, TypeOf(at))
    /\ owner' = Attached(cur, at)
    /\ allocated' = allocated \cup {at}
    /\ at' = at + 1
    /\ UNCHANGED <<atoms, open, result, freed, parse>>

\* The loop that breaks off at atom k has come to the end of the container: k is
\* the last atom in it, and has no payload.
Endmost(k) ==
    /\ After(k) = After(atoms[k].up)
    /\ IF IsContainer(k) THEN After(k) = k + 1 ELSE Fate = "none"

\* The readers that make their block before they look at the size.
MadeAtOnce == {"tkhd", "mvhd", "trex"}

MadeFirst(k) ==
    \/ TypeOf(k) \in MadeAtOnce
    \/ TypeOf(k) \in Tables \cup {"stsz"} /\ atoms[k].fate = "cut"

\* Of these only stsz_read releases its block.
StszReleases(k) == TypeOf(k) = "stsz" /\ MadeFirst(k)

LeafFails ==
    /\ More /\ Known /\ ~ IsContainer(at)
    /\ Fails(at)
    /\ allocated' = IF MadeFirst(at) THEN allocated \cup {at} ELSE allocated
    /\ freed' = IF StszReleases(at) THEN freed \cup {at} ELSE freed
    /\ End(Endmost(at))
    /\ UNCHANGED <<atoms, open, at, owner>>

\* mvex_add_trex
TrexTurnedAway ==
    /\ More /\ Fate # "broken" /\ Known /\ ~ IsContainer(at)
    /\ ~ Fails(at) /\ Full(cur, TypeOf(at))
    /\ allocated' = allocated \cup {at} /\ freed' = freed \cup {at}
    /\ End(FALSE)
    /\ UNCHANGED <<atoms, open, at, owner>>

LoopEnds ==
    /\ parse = "loop" /\ at = After(cur)
    /\ End(TRUE)
    /\ UNCHANGED <<atoms, open, at, owner, allocated, freed>>

-------------------------------------------------------------------------------
(* The readers of the containers, after atom_reader. *)

\* trak->mdia_->...: the block at the end of a path of pointers, as a set.
Follow(c, path) ==
    LET found[n \in 0 .. Len(path)] ==
          IF n = 0 THEN {c} ELSE UNION {Held(k, path[n]) : k \in found[n - 1]}
    IN  found[Len(path)]

Handler(t) == {atoms[h].fate : h \in Follow(t, <<"mdia", "hdlr">>)}

\* trak_read calls stsd_parse when all else is well.
StsdParsed(t) ==
    \A d \in Follow(t, <<"mdia", "minf", "stbl", "stsd">>) :
        \A handler \in Handler(t) : StsdAccepted(handler, atoms[d].entries)

Whole(c) ==
    /\ result
    /\ \A slot \in Reads[TypeOf(c)].mandatory : Held(c, slot) # {}
    /\ TypeOf(c) = "trak" => StsdParsed(c)

\* Faulty: a track that is not wanted is only forgotten.
ReleasedNone(c) == freed

Released(c) == freed \cup Reach(c)

Outer == SubSeq(open, 1, Len(open) - 1)

ContainerFails ==
    /\ parse = "ended" /\ ~ Whole(cur)
    /\ freed' = freed \cup Reach(cur)
    /\ open' = Outer
    /\ IF cur = 0 THEN parse' = "refused" /\ UNCHANGED result ELSE End(Endmost(cur))
    /\ UNCHANGED <<atoms, at, owner, allocated>>

\* moov_add_trak, with no room for the track.
TrakTurnedAway ==
    /\ parse = "ended" /\ Whole(cur) /\ cur # 0
    /\ Full(atoms[cur].up, TypeOf(cur))
    /\ freed' = Released(cur)
    /\ open' = Outer
    /\ End(FALSE)
    /\ UNCHANGED <<atoms, at, owner, allocated>>

\* moov_add_trak: neither video nor audio.
Ignored(c) == TypeOf(c) = "trak" /\ "hint" \in Handler(c)

Continue == open' = Outer /\ at' = After(cur) /\ parse' = "loop"

TrakIgnored ==
    /\ parse = "ended" /\ Whole(cur) /\ cur # 0
    /\ ~ Full(atoms[cur].up, TypeOf(cur)) /\ Ignored(cur)
    /\ freed' = Released(cur)
    /\ Continue
    /\ UNCHANGED <<atoms, result, owner, allocated>>

ContainerRead ==
    /\ parse = "ended" /\ Whole(cur) /\ cur # 0
    /\ ~ Full(atoms[cur].up, TypeOf(cur)) /\ ~ Ignored(cur)
    /\ owner' = Attached(atoms[cur].up, cur)
    /\ Continue
    /\ UNCHANGED <<atoms, result, allocated, freed>>

MoovRead ==
    /\ parse = "ended" /\ Whole(cur) /\ cur = 0
    /\ parse' = "parsed"
    /\ UNCHANGED <<atoms, open, at, result, owner, allocated, freed>>

TreeNext ==
    \/ HeaderBroken \/ Unknown \/ OpenContainer
    \/ ReadLeaf \/ LeafFails \/ TrexTurnedAway \/ LoopEnds
    \/ ContainerFails \/ TrakTurnedAway \/ TrakIgnored \/ ContainerRead \/ MoovRead

\* mp4_context_exit, of a movie that was read.
MoovExit ==
    /\ freed' = freed \cup Reach(0)
    /\ open' = <<>>
    /\ parse' = "closed"
    /\ UNCHANGED <<atoms, at, result, owner, allocated>>

-------------------------------------------------------------------------------
\* The tracks of moov->traks_, in the order of the array.
Traks == Held(0, "trak")

\* What the rest of the program takes to be there without looking.
Taken == {<<"tkhd">>, <<"mdia", "mdhd">>, <<"mdia", "hdlr">>,
          <<"mdia", "minf", "stbl", "stsd">>, <<"mdia", "minf", "stbl", "stts">>}

\* A tree that is returned has all that the program follows without a test, has
\* room for its tracks, and lacks no track of the file that is video or audio:
\* whatever atom fails, it is refused, not cut off behind that atom.
TreeWhole ==
    parse = "parsed" =>
        /\ Held(0, "mvhd") # {}
        /\ Cardinality(Traks) \in 1 .. MaxTracks
        /\ \A t \in Traks :
             /\ \A path \in Taken : Cardinality(Follow(t, path)) = 1
             /\ Handler(t) \in {{"vide"}, {"soun"}}
        /\ \A k \in 1 .. Len(atoms) :
             TypeOf(k) = "trak" /\ atoms[k].up = 0 /\ k \notin Traks =>
                 \/ \E h \in k + 1 .. After(k) - 1 : TypeOf(h) = "hdlr" /\ atoms[h].fate = "hint"
                 \/ After(k) = k + 1 /\ k = Len(atoms)

\* A block the readers lose: that of a leaf they made before they looked at its
\* size; one whose pointer the next atom of its type takes; unknown atoms before
\* a large one; and what hangs on such a block.
Lost ==
    LET lost[k \in Atoms] ==
          /\ k # 0
          /\ LET c == atoms[k].up
                 after == {j \in k + 1 .. Len(atoms) : atoms[j].up = c /\ Slot(c, TypeOf(j)) = Slot(c, TypeOf(k))}
             IN  \/ lost[c]
                 \/ Fails(k) /\ MadeFirst(k) /\ ~ StszReleases(k)
                 \/ Slot(c, TypeOf(k)) = "unknown" /\ \E j \in after : atoms[j].fate = "large"
                 \/ Slot(c, TypeOf(k)) \notin {"trak", "trex", "unknown"} /\ after # {}
    IN  {k \in Atoms : lost[k]}

\* However reading ends, nothing is released that is still in use, no more is
\* lost than that, and after the request nothing else is left.
Owned ==
    LET linked == UNION {Reach(open[i]) : i \in 1 .. Len(open)}
    IN  /\ freed \subseteq allocated
        /\ freed \cap linked = {}
        /\ linked \subseteq allocated
        /\ allocated \ freed \subseteq linked \cup Lost

===============================================================================
