--------------------------- MODULE Mp4Reader_proof ---------------------------
(***************************************************************************)
(* The reader of the file.                                                 *)
(*                                                                         *)
(* First the window of mp4_read, for files, buffers and atoms of any size. *)
(* The invariant is inductive only as its parts together: that a read is   *)
(* right follows from what the window holds, that again from no buffer     *)
(* having a size that has wrapped, and this from where the walk is: near   *)
(* enough to the end of the file that what is left behind it wraps to more *)
(* than any pool has. Then, for files whose atoms follow each other: the   *)
(* walk over them finds moov and mdat.                                     *)
(*                                                                         *)
(* Then the index of the samples, for any number of tracks and tables of   *)
(* any length. The loops are taken in three layers, each of which rests on *)
(* the one before it: LoopInv (where the counters are, so that no loop     *)
(* leaves its array), DataInv (what has been written up to there is what   *)
(* the tables say) and MarkInv (which samples of the audio the copy has    *)
(* marked up to there). What the tables say are sums over their entries;   *)
(* the lemmas on sums come first. Last, from DataInv and those lemmas, the *)
(* lookups that do without the index, and the cut made with them.          *)
(***************************************************************************)
EXTENDS Mp4File, SampleIndex, Segmentation_proof

(* The window and the walk over the atoms. *)

Allowed == {BufferSize, MaxBufferSize, Preamble} \cup {r.size : r \in Ranges}

WindowType ==
    /\ window \in [buffer : BOOLEAN, size : 0 .. SizeRange - 1, end : Nat, from : Nat, filled : Nat]
    /\ window.buffer => ~ NoRoom(window.size)
    /\ read \in [pos : Nat, size : Nat, ok : BOOLEAN, index : Int]
    /\ poisoned \in BOOLEAN /\ failures \in 0 .. MaxFailures

\* A size that was asked for is allowed, or has wrapped and got no buffer.
SizeKnown ==
    \/ \E n \in Allowed : window.size <= n
    \/ NoRoom(window.size) /\ ~ window.buffer

WindowInv == WindowType /\ file \in Files /\ WindowTrue /\ ReadsTrue /\ SizeKnown

WalkType ==
    /\ offset \in Nat
    /\ atom \in Atom
    /\ moov \in BOOLEAN /\ mdat \in BOOLEAN
    /\ phase \in {"walk", "extended", "box", "open", "data", "closed", "failed"}

\* A position from which the file's end is less than half the range away.
Near(pos) == 2 * (pos - file.size) < SizeRange

\* Where the walk is, of any file: what it read last was in the file.
PlaceInv ==
    /\ phase \in {"walk", "extended", "box"} => ~ poisoned
    /\ phase \in {"walk", "extended", "box", "data"} => ~ NoRoom(window.size)
    /\ phase = "walk" => Near(offset)
    /\ phase \in {"extended", "box"} => atom.start <= file.size
    /\ phase = "extended" => offset = atom.start + Preamble

IInv == WindowInv /\ WalkType /\ PlaceInv

-------------------------------------------------------------------------------
LEMMA AllowedNat == \A n \in Allowed : n \in Nat /\ ~ NoRoom(n)
BY SizesAssumption DEF Allowed, Preamble, NoRoom

\* What is left of the file at pos, as a size_t.
LEMMA LeftIs ==
    ASSUME NEW range \in Nat, NEW x \in Int, -range <= x, x < range, range > 0
    PROVE  x % range = IF x < 0 THEN x + range ELSE x
<1>1. PICK m \in Int : m = x % range
  OBVIOUS
<1>2. m \in 0 .. range - 1 /\ x = range * (x \div range) + m
  BY <1>1
<1>3. PICK q \in Int : q = x \div range
  OBVIOUS
<1>4. x = range * q + m /\ 0 <= m /\ m < range
  BY <1>2, <1>3
<1>5. range * q < range * 1 => q < 1
  OBVIOUS
<1>6. q \in {-1, 0}
  <2>1. CASE q >= 1
    <3>1. range * q >= range
      BY <2>1
    <3> QED  BY <1>4, <3>1
  <2>2. CASE q <= -2
    <3>1. range * q <= range * (-2)
      BY <2>2
    <3> QED  BY <1>4, <3>1
  <2> QED  BY <2>1, <2>2
<1>7. CASE q = 0
  BY <1>1, <1>4, <1>7
<1>8. CASE q = -1
  BY <1>1, <1>4, <1>8
<1> QED  BY <1>6, <1>7, <1>8

\* A window that is cut at the end of the file ends in it, and is too small for
\* the read only if the read leaves the file. Behind the end its size wraps.
LEMMA CutIs ==
    ASSUME WindowInv, NEW pos \in Nat, NEW size \in Nat, ~ NoRoom(size), Near(pos)
    PROVE  /\ Cut(pos, size) \in 0 .. SizeRange - 1
           /\ ~ NoRoom(Cut(pos, size)) =>
                /\ pos + Cut(pos, size) <= file.size
                /\ Cut(pos, size) >= size \/ pos + size > file.size
                /\ Cut(pos, size) <= window.size \/ Cut(pos, size) <= size
<1>1. /\ file.size \in Nat /\ 2 * file.size < SizeRange /\ SizeRange \in Nat
      /\ window.size \in Nat /\ window.size < SizeRange /\ 2 * size < SizeRange
  BY FilesAssumption, SizesAssumption DEF WindowInv, WindowType, NoRoom
<1>2. /\ Wanted(size) \in 0 .. SizeRange - 1
      /\ Wanted(size) >= size
      /\ Wanted(size) = window.size \/ Wanted(size) = size
  BY <1>1 DEF Wanted, Smaller
<1>3. PICK w \in 0 .. SizeRange - 1 : w = Wanted(size)
  BY <1>2
<1>4. Cut(pos, size) =
        IF pos + (IF 2 * w >= SizeRange THEN w - SizeRange ELSE w) > file.size
        THEN IF file.size - pos < 0 THEN file.size - pos + SizeRange ELSE file.size - pos
        ELSE w
  <2>1. (file.size - pos) % SizeRange
          = IF file.size - pos < 0 THEN file.size - pos + SizeRange ELSE file.size - pos
    <3>1. PICK x \in Int : x = file.size - pos
      BY <1>1
    <3>2. -SizeRange <= x /\ x < SizeRange /\ SizeRange > 0
      BY <1>1, <3>1 DEF Near
    <3>3. x % SizeRange = IF x < 0 THEN x + SizeRange ELSE x
      BY <1>1, <3>2, LeftIs
    <3> QED  BY <3>1, <3>3
  <2> QED  BY <1>3, <2>1 DEF Cut, Signed, NoRoom
<1>5. w >= size /\ (w = window.size \/ w = size)
  BY <1>2, <1>3
<1>6. 2 * (pos - file.size) < SizeRange
  BY DEF Near
<1>7. PICK c \in Int : c = Cut(pos, size)
  BY <1>1, <1>4
<1>8. c \in 0 .. SizeRange - 1
  BY <1>1, <1>4, <1>6, <1>7
<1>9. 2 * c < SizeRange =>
        /\ pos + c <= file.size
        /\ c >= size \/ pos + size > file.size
        /\ c <= w
  BY <1>1, <1>4, <1>5, <1>6, <1>7
<1> QED  BY <1>1, <1>5, <1>7, <1>8, <1>9 DEF NoRoom

-------------------------------------------------------------------------------
\* A read inside the window.
LEMMA HitSafe ==
    ASSUME WindowInv, NEW pos \in Nat, NEW size \in Nat, ReadHit(pos, size), UNCHANGED file
    PROVE  WindowInv'
<1> USE DEF ReadHit
<1>1. UNCHANGED <<window, poisoned, failures, file>>
  OBVIOUS
<1>2. window.buffer /\ window.size \in Nat /\ ~ NoRoom(window.size) /\ window.end \in Nat
  BY SizesAssumption DEF Hits, Kept, WindowInv, WindowType
<1>3. WindowTrue' /\ SizeKnown'
  BY <1>1 DEF WindowInv, WindowTrue, SizeKnown
<1>6. Start = window.end - window.size
  BY <1>2 DEF Start, Signed
<1>4. WindowType'
  <2>1. Start \in Int
    BY <1>2, <1>6
  <2> QED  BY <1>1, <2>1 DEF WindowInv, WindowType
<1>5. ReadsTrue'
  <2> SUFFICES ASSUME ~ poisoned PROVE ReadsTrue'
    BY <1>1 DEF ReadsTrue
  <2>1. /\ window.from = window.end - window.size
        /\ window.filled = window.size
    BY <1>2 DEF WindowInv, WindowTrue
  <2>2. pos + size <= window.end /\ pos > window.end - window.size
    BY <1>6 DEF Hits
  <2>3. /\ read'.index = pos - (window.end - window.size)
        /\ read'.pos = pos /\ read'.size = size
    BY <1>6
  <2> QED  BY <1>1, <1>2, <2>1, <2>2, <2>3 DEF ReadsTrue
<1> QED  BY <1>1, <1>3, <1>4, <1>5 DEF WindowInv

\* The size of a new window is bounded if that of the read is.
LEMMA SizeBounded ==
    ASSUME WindowInv, NEW pos \in Nat, NEW size \in Nat, Near(pos), NEW limit \in Allowed, size <= limit,
           ~ NoRoom(Cut(pos, size))
    PROVE  \E n \in Allowed : Cut(pos, size) <= n
<1>1. window.size \in Nat /\ SizeRange \in Nat /\ limit \in Nat /\ ~ NoRoom(limit)
  BY AllowedNat, SizesAssumption DEF WindowInv, WindowType
<1>2. ~ NoRoom(size)
  BY <1>1 DEF NoRoom
<1>3. Cut(pos, size) \in Nat /\ (Cut(pos, size) <= window.size \/ Cut(pos, size) <= size)
  BY <1>1, <1>2, CutIs
<1>4. CASE \E n \in Allowed : window.size <= n
  <2>1. PICK n \in Allowed : window.size <= n
    BY <1>4
  <2>2. n \in Nat
    BY AllowedNat
  <2> QED  BY <1>1, <1>3, <2>1, <2>2
<1>5. CASE NoRoom(window.size)
  <2>1. 2 * window.size >= SizeRange
    BY <1>5 DEF NoRoom
  <2>2. 2 * Cut(pos, size) < SizeRange
    BY <1>1, <1>3 DEF NoRoom
  <2>3. Cut(pos, size) <= size
    <3>1. ~ Smaller(size)
      BY <1>1, <1>2, <2>1 DEF Smaller, NoRoom
    <3>2. Wanted(size) = window.size
      BY <3>1 DEF Wanted
    <3>3. Signed(Wanted(size)) = window.size - SizeRange
      BY <1>5, <3>2 DEF Signed
    <3>4. file.size \in Nat /\ 2 * file.size < SizeRange /\ window.size < SizeRange
      BY <1>1, FilesAssumption DEF WindowInv, WindowType, NoRoom
    <3>5. pos + (window.size - SizeRange) > file.size
      BY <1>1, <2>1, <2>2, <3>2, <3>3 DEF Cut
    <3>6. pos > file.size
      BY <1>1, <3>4, <3>5
    <3>7. pos + Cut(pos, size) <= file.size
      BY <1>2, CutIs
    <3> QED  BY <1>3, <3>4, <3>6, <3>7
  <2> QED  BY <1>1, <1>3, <2>3
<1> QED  BY <1>4, <1>5 DEF WindowInv, SizeKnown

\* A read that has to fill the window anew.
LEMMA FillSafe ==
    ASSUME WindowInv, NEW pos \in Nat, NEW size \in Nat, Near(pos),
           NEW limit \in Allowed, size <= limit,
           ReadFill(pos, size), UNCHANGED file
    PROVE  WindowInv'
<1> USE DEF ReadFill
<1>0. ~ NoRoom(size)
  BY AllowedNat, SizesAssumption DEF NoRoom
<1>1. /\ Cut(pos, size) \in 0 .. SizeRange - 1 /\ ~ NoRoom(Cut(pos, size)) /\ SizeRange \in Nat
      /\ pos + Cut(pos, size) <= file.size
      /\ Cut(pos, size) >= size \/ pos + size > file.size
  BY <1>0, CutIs, SizesAssumption
<1>2. /\ window' = [buffer |-> TRUE, size |-> Cut(pos, size), end |-> pos + Cut(pos, size),
                    from |-> pos, filled |-> Cut(pos, size)]
      /\ read' = [pos |-> pos, size |-> size, ok |-> TRUE, index |-> 0]
  OBVIOUS
<1>3. WindowType'
  <2>1. poisoned' = FALSE /\ failures' = failures
    OBVIOUS
  <2>2. pos + Cut(pos, size) \in Nat /\ 0 \in Int
    BY <1>1
  <2> HIDE DEF ReadFill
  <2>3. window' \in [buffer : BOOLEAN, size : 0 .. SizeRange - 1, end : Nat, from : Nat, filled : Nat]
    BY <1>1, <1>2, <2>2
  <2>4. ~ NoRoom(window'.size)
    BY <1>1, <1>2
  <2>5. read' \in [pos : Nat, size : Nat, ok : BOOLEAN, index : Int]
    BY <1>2
  <2>6. poisoned' \in BOOLEAN /\ failures' \in 0 .. MaxFailures
    BY <2>1 DEF WindowInv, WindowType
  <2> QED  BY <2>3, <2>4, <2>5, <2>6 DEF WindowType
<1>4. WindowTrue'
  BY <1>1, <1>2 DEF WindowTrue
<1>5. ReadsTrue'
  BY <1>1, <1>2 DEF ReadsTrue
<1>6. SizeKnown'
  <2>1. \E n \in Allowed : window'.size <= n
    BY <1>1, <1>2, SizeBounded
  <2> QED  BY <2>1 DEF SizeKnown, Allowed
<1> QED  BY <1>3, <1>4, <1>5, <1>6 DEF WindowInv

\* A read for which there is no memory.
LEMMA NoMemorySafe ==
    ASSUME WindowInv, NEW pos \in Nat, NEW size \in Nat, Near(pos),
           NEW limit \in Allowed, size <= limit,
           ReadNoMemory(pos, size), UNCHANGED file
    PROVE  WindowInv'
<1>1. /\ window' = [window EXCEPT !.buffer = FALSE, !.size = Cut(pos, size)]
      /\ window \in [buffer : BOOLEAN, size : 0 .. SizeRange - 1, end : Nat, from : Nat, filled : Nat]
      /\ read' = [pos |-> pos, size |-> size, ok |-> FALSE, index |-> 0]
      /\ poisoned' = poisoned
      /\ failures' = failures \/ (failures < MaxFailures /\ failures' = failures + 1)
  <2>1. window' = [window EXCEPT !.buffer = FALSE, !.size = Cut(pos, size)] /\ poisoned' = poisoned
    BY DEF ReadNoMemory
  <2>2. read' = [pos |-> pos, size |-> size, ok |-> FALSE, index |-> 0]
    BY DEF ReadNoMemory, Failed
  <2>3. failures' = failures \/ (failures < MaxFailures /\ failures' = failures + 1)
    BY DEF ReadNoMemory
  <2>4. window \in [buffer : BOOLEAN, size : 0 .. SizeRange - 1, end : Nat, from : Nat, filled : Nat]
    BY DEF WindowInv, WindowType
  <2> QED  BY <2>1, <2>2, <2>3, <2>4
<1>2. ~ NoRoom(size) /\ Cut(pos, size) \in 0 .. SizeRange - 1
  <2>1. ~ NoRoom(size)
    BY AllowedNat, SizesAssumption DEF NoRoom
  <2> QED  BY <2>1, CutIs
<1>3. window'.buffer = FALSE /\ window'.size = Cut(pos, size)
  BY <1>1 DEF WindowInv, WindowType
<1>4. WindowType'
  <2>1. window' \in [buffer : BOOLEAN, size : 0 .. SizeRange - 1, end : Nat, from : Nat, filled : Nat]
    BY <1>1, <1>2 DEF WindowInv, WindowType
  <2>2. read' \in [pos : Nat, size : Nat, ok : BOOLEAN, index : Int]
    BY <1>1
  <2>3. poisoned' \in BOOLEAN /\ failures' \in 0 .. MaxFailures
    BY <1>1, SizesAssumption DEF WindowInv, WindowType
  <2> QED  BY <1>3, <2>1, <2>2, <2>3 DEF WindowType
<1>5. WindowTrue' /\ ReadsTrue'
  BY <1>1, <1>3 DEF WindowTrue, ReadsTrue
<1>6. SizeKnown'
  <2>1. CASE ~ NoRoom(Cut(pos, size))
    <3>1. \E n \in Allowed : window'.size <= n
      BY <1>3, <2>1, SizeBounded
    <3> QED  BY <3>1 DEF SizeKnown, Allowed
  <2>2. CASE NoRoom(Cut(pos, size))
    BY <1>3, <2>2 DEF SizeKnown, NoRoom
  <2> QED  BY <2>1, <2>2
<1> QED  BY <1>4, <1>5, <1>6 DEF WindowInv

\* A read that ngx_read_file does not finish.
LEMMA FailSafe ==
    ASSUME WindowInv, NEW pos \in Nat, NEW size \in Nat, Near(pos),
           NEW limit \in Allowed, size <= limit,
           ReadFails(pos, size), UNCHANGED file
    PROVE  WindowInv'
<1>1. Cut(pos, size) \in 0 .. SizeRange - 1 /\ ~ NoRoom(Cut(pos, size)) /\ SizeRange \in Nat
  <2>1. ~ NoRoom(size)
    BY AllowedNat, SizesAssumption DEF NoRoom
  <2> QED  BY <2>1, CutIs, SizesAssumption DEF ReadFails
<1>2. PICK n \in {0} \cup {Cut(pos, size) - 1, Cut(pos, size) \div 2} :
        /\ n >= 0
        /\ \E end \in {window.end, window.end + n} :
             window' = [buffer |-> TRUE, size |-> Cut(pos, size), end |-> end,
                        from |-> pos, filled |-> n]
  BY DEF ReadFails
<1>3. n \in Nat
  BY <1>1, <1>2
<1>4. PICK end \in {window.end, window.end + n} :
        window' = [buffer |-> TRUE, size |-> Cut(pos, size), end |-> end,
                   from |-> pos, filled |-> n]
  BY <1>2
<1>5. end \in Nat
  BY <1>3, <1>4 DEF WindowInv, WindowType
<1>6. /\ read' = [pos |-> pos, size |-> size, ok |-> FALSE, index |-> 0]
      /\ poisoned' = TRUE
      /\ failures < MaxFailures /\ failures' = failures + 1
  BY DEF ReadFails, Failed
<1>7. WindowType'
  BY <1>1, <1>3, <1>4, <1>5, <1>6, SizesAssumption DEF WindowInv, WindowType
<1>8. WindowTrue' /\ ReadsTrue'
  BY <1>6 DEF WindowTrue, ReadsTrue
<1>9. SizeKnown'
  <2>1. \E m \in Allowed : window'.size <= m
    BY <1>1, <1>4, SizeBounded
  <2> QED  BY <2>1 DEF SizeKnown, Allowed
<1> QED  BY <1>7, <1>8, <1>9 DEF WindowInv

LEMMA ReadSafe ==
    ASSUME WindowInv, NEW pos \in Nat, NEW size \in Nat, Near(pos),
           NEW limit \in Allowed, size <= limit,
           Mp4Read(pos, size), UNCHANGED file
    PROVE  WindowInv'
BY HitSafe, FillSafe, NoMemorySafe, FailSafe DEF Mp4Read

\* A read that succeeds leaves a buffer whose size has not wrapped; from a window
\* that is true it is one of bytes that are in the file.
LEMMA ReadPlaced ==
    ASSUME WindowInv, NEW pos \in Nat, NEW size \in Nat, Near(pos), ~ NoRoom(size),
           Mp4Read(pos, size), UNCHANGED file, read'.ok
    PROVE  /\ ~ NoRoom(window'.size)
           /\ ~ poisoned => ~ poisoned' /\ pos <= file.size
<1>1. window.size \in Nat /\ window.end \in Nat /\ file.size \in Nat /\ SizeRange \in Nat
  BY FilesAssumption, SizesAssumption DEF WindowInv, WindowType
<1>2. CASE ReadHit(pos, size)
  <2>1. window.buffer /\ UNCHANGED <<window, poisoned>> /\ pos + size <= window.end
    BY <1>2 DEF ReadHit, Hits, Kept
  <2>2. ~ NoRoom(window.size)
    BY <2>1 DEF WindowInv, WindowType
  <2>3. ~ poisoned => window.end <= file.size
    BY <2>1 DEF WindowInv, WindowTrue
  <2> QED  BY <1>1, <2>1, <2>2, <2>3
<1>3. CASE ReadFill(pos, size)
  <2>1. /\ ~ NoRoom(Cut(pos, size)) /\ poisoned' = FALSE
        /\ window'.size = Cut(pos, size)
    BY <1>3 DEF ReadFill
  <2>2. Cut(pos, size) \in Nat /\ pos + Cut(pos, size) <= file.size
    BY <1>1, <2>1, CutIs
  <2> QED  BY <1>1, <2>1, <2>2
<1>4. CASE ReadNoMemory(pos, size) \/ ReadFails(pos, size)
  BY <1>4 DEF ReadNoMemory, ReadFails, Failed
<1> QED  BY <1>2, <1>3, <1>4 DEF Mp4Read

-------------------------------------------------------------------------------
\* A header whose size is known.
LEMMA JudgeSafe ==
    ASSUME offset \in Nat, mdat \in BOOLEAN, NEW a \in Atom, Judge(a)
    PROVE  offset' \in Nat /\ mdat' \in BOOLEAN /\ phase' \in {"open", "box", "walk"}
<1>1. a.size \in Nat /\ a.start \in Nat
  BY DEF Atom
<1>2. CASE Past /\ phase' \in {"open", "box"}
  BY <1>2 DEF Past, Preamble
<1>3. CASE Seen(a) /\ phase' = "walk"
  BY <1>1, <1>3 DEF Seen
<1> QED  BY <1>2, <1>3 DEF Judge

\* ... and where it leaves the walk.
LEMMA JudgePlaced ==
    ASSUME WindowInv, WalkType, UNCHANGED file, NEW a \in Atom, atom' = a, a.start <= file.size, Judge(a),
           ~ poisoned', ~ NoRoom(window'.size)
    PROVE  PlaceInv'
<1>1. /\ a.size \in Nat /\ 2 * a.size < SizeRange /\ a.start \in Nat
      /\ file.size \in Nat /\ SizeRange \in Nat
  BY FilesAssumption, SizesAssumption DEF Atom, NoRoom, WindowInv
<1>2. CASE phase' = "open"
  BY <1>2 DEF PlaceInv
<1>3. CASE phase' = "box"
  BY <1>3 DEF PlaceInv
<1>4. CASE phase' = "walk" /\ Seen(a)
  <2>1. offset' = a.start + a.size
    BY <1>4 DEF Seen
  <2>2. Near(offset)'
    BY <1>1, <2>1 DEF Near
  <2> QED  BY <1>4, <2>2 DEF PlaceInv
<1> QED  BY <1>2, <1>3, <1>4 DEF Judge

\* Bytes that are not the file's are still read as an atom, and from where they are.
LEMMA HeaderType ==
    ASSUME file \in Files, NEW r, NEW w, NEW at \in Nat
    PROVE  HeaderIn(r, w, at) \in SUBSET {a \in Atom : a.start = at}
<1>1. file.atoms \in SUBSET Atom
  BY FilesAssumption
<1>2. \A g \in Lookalikes : [g EXCEPT !.start = at] \in {a \in Atom : a.start = at}
  BY LookalikesAssumption DEF Atom
<1> QED  BY <1>1, <1>2 DEF HeaderIn

LEMMA Initially == OpenInit => IInv
<1> SUFFICES ASSUME OpenInit PROVE IInv
  OBVIOUS
<1>1. WindowType
  <2>1. /\ window = [buffer |-> FALSE, size |-> BufferSize, end |-> 0, from |-> 0, filled |-> 0]
        /\ BufferSize \in 0 .. SizeRange - 1 /\ ~ NoRoom(BufferSize)
    BY SizesAssumption DEF OpenInit, NoRoom
  <2>2. window \in [buffer : BOOLEAN, size : 0 .. SizeRange - 1, end : Nat, from : Nat, filled : Nat]
        /\ ~ NoRoom(window.size)
    BY <2>1
  <2>3. read \in [pos : Nat, size : Nat, ok : BOOLEAN, index : Int]
    BY DEF OpenInit, NoRead
  <2>4. poisoned \in BOOLEAN /\ failures \in 0 .. MaxFailures
    <3>1. poisoned \in BOOLEAN
      BY Zenon DEF OpenInit
    <3>2. failures = 0 /\ MaxFailures \in Nat
      BY SizesAssumption DEF OpenInit
    <3>3. failures \in 0 .. MaxFailures
      BY <3>2
    <3> QED  BY <3>1, <3>3
  <2> QED  BY <2>2, <2>3, <2>4 DEF WindowType
<1>2. WindowTrue /\ ReadsTrue
  BY DEF OpenInit, WindowTrue, ReadsTrue, NoRead
<1>3. SizeKnown
  <2>1. window.size = BufferSize /\ BufferSize \in Nat /\ BufferSize \in Allowed
    BY SizesAssumption DEF OpenInit, Allowed
  <2> QED  BY <2>1 DEF SizeKnown
<1>4. WalkType
  <2>1. 0 \in {n \in Nat : ~ NoRoom(n)}
    BY SizesAssumption DEF NoRoom, Preamble
  <2>2. NoAtom \in Atom
    BY <2>1 DEF NoAtom, Atom
  <2> QED  BY <2>2 DEF OpenInit, WalkType
<1>5. PlaceInv
  <2>1. file.size \in Nat /\ SizeRange \in Nat /\ 2 * 8 < SizeRange
    BY FilesAssumption, SizesAssumption DEF OpenInit, NoRoom, Preamble
  <2>2. Near(0)
    BY <2>1 DEF Near
  <2>3. window.size = BufferSize
    BY DEF OpenInit
  <2> QED  BY <2>2, <2>3, SizesAssumption DEF OpenInit, PlaceInv
<1> QED  BY <1>1, <1>2, <1>3, <1>4, <1>5 DEF OpenInit, IInv, WindowInv

LEMMA Stepwise == IInv /\ [OpenNext]_openVars => IInv'
<1> SUFFICES ASSUME IInv, [OpenNext]_openVars PROVE IInv'
  OBVIOUS
<1>0. WindowInv /\ WalkType /\ PlaceInv
  BY DEF IInv
<1>7. file.size \in Nat /\ SizeRange \in Nat /\ 2 * 8 < SizeRange /\ 2 * Preamble < SizeRange
  BY <1>0, FilesAssumption, SizesAssumption DEF WindowInv, NoRoom, Preamble
<1>1. CASE ReadHeader
  <2>1. UNCHANGED file /\ moov' = moov
    BY <1>1 DEF ReadHeader
  <2>2. WindowInv'
    <3>1. PICK pos \in Nat : pos = offset
      BY <1>0 DEF WalkType
    <3>2. Mp4Read(pos, Preamble)
      BY <1>1, <3>1 DEF ReadHeader
    <3>3. Preamble \in Allowed /\ Preamble \in Nat /\ Preamble <= Preamble
      BY DEF Allowed, Preamble
    <3>4. Near(pos)
      BY <1>0, <1>1, <3>1 DEF ReadHeader, Walking, PlaceInv
    <3> QED  BY ONLY <1>0, <2>1, <3>2, <3>3, <3>4, ReadSafe
  <2>3. ASSUME ~ read'.ok PROVE WalkType' /\ PlaceInv'
    <3>1. Stop /\ mdat' = mdat
      BY <1>1, <2>3 DEF ReadHeader
    <3> QED  BY <1>0, <2>1, <3>1 DEF Stop, WalkType, PlaceInv
  <2>4. ASSUME read'.ok PROVE WalkType' /\ PlaceInv'
    <3>1. PICK a \in HeaderIn(read', window', offset) :
            /\ atom' = a
            /\ \/ a.extended /\ phase' = "extended" /\ Past
               \/ ~ a.extended /\ Judge(a)
      BY <1>1, <2>4 DEF ReadHeader
    <3>2. a \in Atom /\ a.start = offset
      BY <1>0, <3>1, HeaderType DEF WindowInv, WalkType
    <3>5. ~ NoRoom(window'.size) /\ ~ poisoned' /\ a.start <= file.size
      <4>1. PICK pos \in Nat : pos = offset
        BY <1>0 DEF WalkType
      <4>2. Mp4Read(pos, Preamble) /\ Near(pos) /\ ~ poisoned
        BY <1>0, <1>1, <4>1 DEF ReadHeader, Walking, PlaceInv
      <4>3. Preamble \in Nat /\ ~ NoRoom(Preamble)
        BY SizesAssumption DEF Preamble
      <4>4. ~ NoRoom(window'.size) /\ ~ poisoned' /\ pos <= file.size
        BY ONLY <1>0, <2>1, <2>4, <4>2, <4>3, ReadPlaced
      <4> QED  BY <3>2, <4>1, <4>4
    <3>3. CASE Judge(a)
      <4>1. offset' \in Nat /\ mdat' \in BOOLEAN /\ phase' \in {"open", "box", "walk"}
        <5>1. offset \in Nat /\ mdat \in BOOLEAN
          BY <1>0 DEF WalkType
        <5> QED  BY <3>2, <3>3, <5>1, JudgeSafe
      <4>2. PlaceInv'
        BY <1>0, <2>1, <3>1, <3>2, <3>3, <3>5, JudgePlaced
      <4> QED  BY <1>0, <2>1, <3>1, <3>2, <4>1, <4>2 DEF WalkType
    <3>4. CASE phase' = "extended" /\ Past
      <4>1. offset' \in Nat /\ mdat' = mdat
        BY <1>0, <3>4 DEF WalkType, Past, Preamble
      <4>2. PlaceInv'
        BY <2>1, <3>1, <3>2, <3>4, <3>5 DEF PlaceInv, Past
      <4> QED  BY <1>0, <2>1, <3>1, <3>2, <3>4, <4>1, <4>2 DEF WalkType
    <3> QED  BY <3>1, <3>3, <3>4
  <2> QED  BY <2>2, <2>3, <2>4 DEF IInv
<1>2. CASE ReadExtended
  <2>1. UNCHANGED file /\ moov' = moov
    BY <1>2 DEF ReadExtended
  <2>5. Near(offset) /\ ~ poisoned /\ atom.start <= file.size
    <3>1. /\ phase = "extended" /\ offset = atom.start + Preamble /\ atom.start <= file.size
          /\ atom.start \in Nat /\ ~ poisoned
      BY <1>0, <1>2 DEF ReadExtended, PlaceInv, WalkType, Atom
    <3> QED  BY <1>7, <3>1 DEF Near, Preamble
  <2>2. WindowInv'
    <3>1. PICK pos \in Nat : pos = offset
      BY <1>0 DEF WalkType
    <3>2. Mp4Read(pos, 8)
      BY <1>2, <3>1 DEF ReadExtended
    <3>3. Preamble \in Allowed /\ 8 <= Preamble
      BY DEF Allowed, Preamble
    <3> QED  BY ONLY <1>0, <2>1, <2>5, <3>1, <3>2, <3>3, ReadSafe
  <2>3. ASSUME ~ read'.ok PROVE WalkType' /\ PlaceInv'
    <3>1. Stop /\ mdat' = mdat
      BY <1>2, <2>3 DEF ReadExtended
    <3> QED  BY <1>0, <2>1, <3>1 DEF Stop, WalkType, PlaceInv
  <2>4. ASSUME read'.ok PROVE WalkType' /\ PlaceInv'
    <3>1. PICK a \in IF Complete(read', window') THEN {atom}
                     ELSE {[atom EXCEPT !.size = g.size] : g \in Lookalikes} :
            atom' = a /\ Judge(a)
      BY <1>2, <2>4 DEF ReadExtended
    <3>2. a \in Atom /\ a.start = atom.start
      <4>1. atom \in Atom
        BY <1>0 DEF WalkType
      <4>2. \A g \in Lookalikes : g.size \in {n \in Nat : ~ NoRoom(n)}
        BY LookalikesAssumption DEF Atom
      <4>3. ASSUME NEW g \in Lookalikes
            PROVE  [atom EXCEPT !.size = g.size] \in Atom /\ [atom EXCEPT !.size = g.size].start = atom.start
        <5>1. PICK n \in {m \in Nat : ~ NoRoom(m)} : n = g.size
          BY <4>2
        <5> QED  BY <4>1, <5>1 DEF Atom
      <4>5. CASE a = atom
        BY <4>1, <4>5
      <4>6. CASE \E g \in Lookalikes : a = [atom EXCEPT !.size = g.size]
        BY <4>3, <4>6
      <4> QED  BY <3>1, <4>5, <4>6
    <3>3. offset' \in Nat /\ mdat' \in BOOLEAN /\ phase' \in {"open", "box", "walk"}
      <4>1. offset \in Nat /\ mdat \in BOOLEAN
        BY <1>0 DEF WalkType
      <4> QED  BY <3>1, <3>2, <4>1, JudgeSafe
    <3>4. PlaceInv'
      <4>1. PICK pos \in Nat : pos = offset
        BY <1>0 DEF WalkType
      <4>2. Mp4Read(pos, 8) /\ Near(pos) /\ ~ NoRoom(8)
        BY <1>2, <1>7, <2>5, <4>1 DEF ReadExtended, NoRoom
      <4>3. ~ NoRoom(window'.size) /\ ~ poisoned'
        BY ONLY <1>0, <2>1, <2>4, <2>5, <4>2, ReadPlaced
      <4> QED  BY <1>0, <2>1, <2>5, <3>1, <3>2, <4>3, JudgePlaced
    <3> QED  BY <1>0, <2>1, <3>1, <3>2, <3>3, <3>4 DEF WalkType
  <2> QED  BY <2>2, <2>3, <2>4 DEF IInv
<1>3. CASE ReadBox
  <2>1. UNCHANGED file
    BY <1>3 DEF ReadBox
  <2>4. /\ atom.start \in Nat /\ atom.size \in Nat /\ ~ NoRoom(atom.size)
        /\ atom.start <= file.size /\ ~ poisoned
    BY <1>0, <1>3 DEF ReadBox, WalkType, Atom, PlaceInv
  <2>2. WindowInv'
    <3>1. atom.start \in Nat /\ atom.size \in Nat /\ atom.size <= MaxBufferSize
      BY <1>0, <1>3, SizesAssumption DEF ReadBox, BoxTooLarge, WalkType, Atom
    <3>2. PICK pos \in Nat, size \in Nat : pos = atom.start /\ size = atom.size
      BY <3>1
    <3>3. Mp4Read(pos, size)
      BY <1>3, <3>2 DEF ReadBox
    <3>4. MaxBufferSize \in Allowed /\ size <= MaxBufferSize
      BY <3>1, <3>2 DEF Allowed
    <3>5. Near(pos)
      BY <1>7, <2>4, <3>2 DEF Near
    <3> QED  BY ONLY <1>0, <2>1, <3>3, <3>4, <3>5, ReadSafe
  <2>3. WalkType'
    <3>1. offset \in Nat /\ moov \in BOOLEAN /\ mdat' = mdat /\ atom' = atom
      BY <1>0, <1>3 DEF ReadBox, WalkType
    <3>2. atom.start \in Nat /\ atom.size \in Nat
      BY <1>0 DEF WalkType, Atom
    <3>3. CASE phase' = "walk" /\ moov' = TRUE /\ offset' = atom.start + atom.size
      BY <1>0, <3>1, <3>2, <3>3 DEF WalkType
    <3>4. CASE phase' = "failed" /\ UNCHANGED <<moov, offset>>
      BY <1>0, <3>1, <3>4 DEF WalkType
    <3> QED  BY <1>3, <3>3, <3>4 DEF ReadBox
  <2>5. PlaceInv'
    <3>1. CASE phase' = "failed"
      BY <3>1 DEF PlaceInv
    <3>2. CASE read'.ok /\ phase' = "walk" /\ offset' = atom.start + atom.size
      <4>1. PICK pos \in Nat, size \in Nat : pos = atom.start /\ size = atom.size
        BY <2>4
      <4>2. Mp4Read(pos, size) /\ Near(pos) /\ ~ NoRoom(size)
        BY <1>3, <1>7, <2>4, <4>1 DEF ReadBox, Near
      <4>3. ~ NoRoom(window'.size) /\ ~ poisoned'
        BY ONLY <1>0, <2>1, <2>4, <3>2, <4>2, ReadPlaced
      <4>4. Near(offset)'
        BY <1>7, <2>1, <2>4, <3>2 DEF Near, NoRoom
      <4> QED  BY <3>2, <4>3, <4>4 DEF PlaceInv
    <3> QED  BY <1>3, <3>1, <3>2 DEF ReadBox
  <2> QED  BY <2>2, <2>3, <2>5 DEF IInv
<1>4. CASE ReadData
  <2>1. UNCHANGED file
    BY <1>4 DEF ReadData
  <2>2. PICK r \in Ranges : Mp4Read(r.pos, r.size)
    BY <1>4 DEF ReadData
  <2>3. /\ r.pos \in Nat /\ r.size \in Nat /\ r.size \in Allowed
        /\ ~ NoRoom(r.pos) /\ ~ NoRoom(r.size)
    BY SizesAssumption DEF Allowed
  <2>7. Near(r.pos)
    BY <1>7, <2>3 DEF Near, NoRoom
  <2>4. WindowInv'
    <3>1. r.size <= r.size
      BY <2>3
    <3> QED  BY ONLY <1>0, <2>1, <2>2, <2>3, <2>7, <3>1, ReadSafe
  <2>5. offset' \in Nat
    <3>1. read' \in [pos : Nat, size : Nat, ok : BOOLEAN, index : Int]
      BY <2>4 DEF WindowInv, WindowType
    <3>2. offset' = (IF read'.ok THEN offset + read'.size ELSE offset) /\ offset \in Nat
      BY <1>0, <1>4 DEF ReadData, WalkType
    <3> QED  BY <3>1, <3>2
  <2>6. WalkType'
    BY <1>0, <1>4, <2>5 DEF ReadData, WalkType
  <2>8. PlaceInv'
    <3>1. CASE read'.ok
      <4>1. ~ NoRoom(window'.size)
        BY ONLY <1>0, <2>1, <2>2, <2>3, <2>7, <3>1, ReadPlaced
      <4>2. phase' = "data"
        BY <1>4, <3>1 DEF ReadData
      <4> QED  BY <4>1, <4>2 DEF PlaceInv
    <3>2. CASE ~ read'.ok
      <4>1. phase' = "failed"
        BY <1>4, <3>2 DEF ReadData
      <4> QED  BY <4>1 DEF PlaceInv
    <3> QED  BY <3>1, <3>2
  <2> QED  BY <2>4, <2>6, <2>8 DEF IInv
<1>5. ASSUME UNCHANGED <<file, window, read, poisoned, failures, offset, atom, moov, mdat>>,
             phase' \in {"failed", "open", "closed", phase}
      PROVE  IInv'
  <2>1. WindowInv'
    BY <1>0, <1>5 DEF WindowInv, WindowType, WindowTrue, ReadsTrue, SizeKnown
  <2>2. WalkType'
    BY <1>0, <1>5 DEF WalkType
  <2>3. PlaceInv'
    BY <1>0, <1>5 DEF PlaceInv, Near
  <2> QED  BY <2>1, <2>2, <2>3 DEF IInv
<1>6. CASE RefuseBox \/ Opened \/ Close \/ UNCHANGED openVars
  BY <1>5, <1>6 DEF RefuseBox, Opened, Close, openVars
<1> QED  BY <1>1, <1>2, <1>3, <1>4, <1>6 DEF OpenNext

LEMMA Inductive == OpenSpec => []IInv
BY Initially, Stepwise, PTL DEF OpenSpec

\* The type invariant: above all that there is never a buffer whose size wrapped
\* when it was cut at the end of the file.
THEOREM TypeCorrect == OpenSpec => []TypeOK
<1>1. IInv => TypeOK
  BY DEF IInv, WindowInv, WindowType, WalkType, TypeOK
<1> QED  BY <1>1, Inductive, PTL

\* mp4_read finds the start of its window by subtracting its size from the offset
\* of the file: for every file and every order of reads that is where it starts.
THEOREM WindowKnown == OpenSpec => []WindowTrue
<1>1. IInv => WindowTrue
  BY DEF IInv, WindowInv
<1> QED  BY <1>1, Inductive, PTL

\* mp4_read gives the caller the bytes it asked for, from its window or anew.
THEOREM ReadsRight == OpenSpec => []ReadsTrue
<1>1. IInv => ReadsTrue
  BY DEF IInv, WindowInv
<1> QED  BY <1>1, Inductive, PTL

\* The buffer of a request stays within what the directives and the fragment allow.
THEOREM BufferLimit == OpenSpec => []BufferBounded
<1>1. IInv => BufferBounded
  BY DEF IInv, WindowInv, SizeKnown, WalkType, PlaceInv, BufferBounded, Allowed
<1> QED  BY <1>1, Inductive, PTL

-------------------------------------------------------------------------------
(* The walk over the atoms of a file finds moov and mdat. *)

\* The file of FindsBoth, while no read has failed.
Sound == failures = 0 /\ AtomsFollow /\ Has("moov") /\ Has("mdat")

\* The atoms that begin before p end there, and the walk has seen them.
PassedTo(p) ==
    \A a \in file.atoms :
        a.start < p =>
            /\ a.start + a.size <= p
            /\ a.type = "moov" => moov
            /\ a.type = "mdat" => mdat

AtAtom == atom \in file.atoms /\ PassedTo(atom.start)

\* Where the walk is in such a file.
OnTheWay ==
    /\ phase = "walk" => PassedTo(offset)
    /\ phase = "extended" => AtAtom /\ atom.extended /\ offset = atom.start + Preamble
    /\ phase = "box" => AtAtom /\ atom.type = "moov"
    /\ phase = "open" => moov /\ mdat

WalkInv ==
    /\ failures = 0 => ~ poisoned
    /\ Sound => OnTheWay

LEMMA AtomFacts ==
    ASSUME file \in Files, AtomsFollow, NEW a \in file.atoms
    PROVE  /\ a \in Atom /\ a.start \in Nat /\ a.size \in Nat
           /\ a.size >= Preamble
           /\ a.extended => a.size >= 16
           /\ a.start + a.size <= file.size /\ file.size \in Nat
           /\ a.start = 0 \/ \E b \in file.atoms : b.start + b.size = a.start
<1>1. a \in Atom /\ file.size \in Nat
  BY FilesAssumption
<1>2. a.start \in Nat /\ a.size \in Nat
  BY <1>1 DEF Atom
<1>3. /\ a.size >= (IF a.extended THEN 16 ELSE 8)
      /\ a.start = 0 \/ \E b \in file.atoms : b.start + b.size = a.start
      /\ a.start + a.size <= file.size
  BY DEF AtomsFollow
<1>4. a.size >= 8 /\ (a.extended => a.size >= 16)
  BY <1>2, <1>3
<1> QED  BY <1>1, <1>2, <1>3, <1>4 DEF Preamble

\* An atom that begins behind p, none between p and it: it begins at p.
LEMMA NextAtom ==
    ASSUME file \in Files, AtomsFollow, NEW p \in Nat, PassedTo(p),
           NEW b \in file.atoms, p <= b.start
    PROVE  \E a \in file.atoms : a.start = p
<1> DEFINE S == {a.start : a \in {x \in file.atoms : p <= x.start}}
<1>1. S \in SUBSET Nat /\ S # {}
  BY AtomFacts
<1>2. PICK m \in S : \A k \in S : m <= k
  <2> HIDE DEF S
  <2> QED  BY <1>1, LeastNumber
<1>3. PICK a \in file.atoms : p <= a.start /\ a.start = m
  OBVIOUS
<1>4. /\ a.start \in Nat
      /\ a.start = 0 \/ \E c \in file.atoms : c.start + c.size = a.start
  BY AtomFacts
<1>5. CASE a.start = 0
  BY <1>3, <1>4, <1>5
<1>6. CASE \E c \in file.atoms : c.start + c.size = a.start
  <2>1. PICK c \in file.atoms : c.start + c.size = a.start
    BY <1>6
  <2>2. c.start \in Nat /\ c.size \in Nat /\ c.size >= 8
    BY AtomFacts DEF Preamble
  <2>3. ~ (p <= c.start)
    <3> SUFFICES ASSUME p <= c.start PROVE FALSE
      OBVIOUS
    <3>1. c.start \in S
      OBVIOUS
    <3>2. a.start <= c.start
      BY <1>2, <1>3, <3>1
    <3> QED  BY <1>4, <2>1, <2>2, <3>2
  <2>4. c.start + c.size <= p
    <3>1. c.start < p
      BY <2>2, <2>3
    <3> QED  BY <3>1 DEF PassedTo
  <2> QED  BY <1>3, <1>4, <2>1, <2>4
<1> QED  BY <1>4, <1>5, <1>6

\* While the walk still looks for one of the two, there is an atom where it is.
LEMMA AtomThere ==
    ASSUME file \in Files, Sound, NEW p \in Nat, PassedTo(p),
           moov \in BOOLEAN, mdat \in BOOLEAN, ~ (moov /\ mdat)
    PROVE  \E a \in file.atoms : a.start = p
<1>1. PICK b \in file.atoms : ~ (b.start < p)
  <2> SUFFICES ASSUME \A b \in file.atoms : b.start < p PROVE FALSE
    OBVIOUS
  <2>1. moov
    BY DEF Sound, Has, PassedTo
  <2>2. mdat
    BY DEF Sound, Has, PassedTo
  <2> QED  BY <2>1, <2>2
<1>2. b.start \in Nat
  BY AtomFacts DEF Sound
<1>3. p <= b.start
  BY <1>1, <1>2
<1> QED  BY <1>3, NextAtom DEF Sound

\* Behind an atom at p, nothing begins before that atom ends.
LEMMA PassedAtom ==
    ASSUME file \in Files, AtomsFollow, NEW a \in file.atoms, PassedTo(a.start),
           UNCHANGED file, moov => moov', mdat => mdat',
           a.type = "moov" => moov', a.type = "mdat" => mdat'
    PROVE  PassedTo(a.start + a.size)'
<1>1. a.start \in Nat /\ a.size \in Nat /\ a.size >= 8
  BY AtomFacts DEF Preamble
<1> DEFINE q == a.start + a.size
           S == {x.start : x \in {y \in file.atoms : a.start < y.start /\ y.start < q}}
<1>2. S = {}
  <2> SUFFICES ASSUME S # {} PROVE FALSE
    OBVIOUS
  <2>1. S \in SUBSET Nat
    BY AtomFacts
  <2>2. PICK m \in S : \A k \in S : m <= k
    <3> HIDE DEF S
    <3> QED  BY <2>1, LeastNumber
  <2>3. PICK b \in file.atoms : a.start < b.start /\ b.start < q /\ b.start = m
    OBVIOUS
  <2>4. b.start \in Nat /\ b.start # 0
    BY <1>1, <2>3, AtomFacts
  <2>5. PICK c \in file.atoms : c.start + c.size = b.start
    BY <2>4, AtomFacts
  <2>6. c.start \in Nat /\ c.size \in Nat /\ c.size >= 8
    BY AtomFacts DEF Preamble
  <2>7. c.start < b.start
    BY <2>4, <2>5, <2>6
  <2>8. ~ (a.start < c.start)
    <3> SUFFICES ASSUME a.start < c.start PROVE FALSE
      OBVIOUS
    <3>1. c.start < q
      BY <1>1, <2>3, <2>4, <2>6, <2>7
    <3>2. c.start \in S
      BY <3>1
    <3>3. b.start <= c.start
      BY <2>2, <2>3, <3>2
    <3> QED  BY <2>4, <2>6, <2>7, <3>3
  <2>9. CASE c.start = a.start
    <3>1. c = a
      BY <2>9, FilesAssumption
    <3> QED  BY <1>1, <2>3, <2>5, <3>1, <2>4
  <2>10. CASE c.start < a.start
    <3>1. c.start + c.size <= a.start
      BY <2>10 DEF PassedTo
    <3> QED  BY <1>1, <2>3, <2>4, <2>5, <3>1
  <2> QED  BY <1>1, <2>6, <2>8, <2>9, <2>10
<1> SUFFICES ASSUME NEW b \in file.atoms, b.start < q
             PROVE  /\ b.start + b.size <= q
                    /\ b.type = "moov" => moov'
                    /\ b.type = "mdat" => mdat'
  BY DEF PassedTo
<1>3. b.start \in Nat /\ b.size \in Nat
  BY AtomFacts
<1>4. ~ (a.start < b.start)
  BY <1>2
<1>5. CASE b.start = a.start
  <2>1. b = a
    BY <1>5, FilesAssumption
  <2> QED  BY <1>1, <2>1
<1>6. CASE b.start < a.start
  <2>1. /\ b.start + b.size <= a.start
        /\ b.type = "moov" => moov
        /\ b.type = "mdat" => mdat
    BY <1>6 DEF PassedTo
  <2> QED  BY <1>1, <1>3, <2>1
<1> QED  BY <1>1, <1>3, <1>4, <1>5, <1>6

\* A read that does not fail: of the bytes a file has, it gives all.
LEMMA ReadWorks ==
    ASSUME IInv, IInv', WalkInv, NEW pos \in Nat, NEW size \in Nat, Mp4Read(pos, size),
           UNCHANGED file, failures' = 0, pos + size <= file.size,
           ~ NoRoom(window.size)
    PROVE  read'.ok /\ Complete(read', window')
<1>1. /\ failures \in Nat /\ file.size \in Nat /\ window.size \in Nat
      /\ SizeRange \in Nat /\ 2 * file.size < SizeRange /\ 2 * window.size < SizeRange
  BY SizesAssumption, FilesAssumption DEF IInv, WindowInv, WindowType, NoRoom
<1>2. failures = 0
  BY <1>1 DEF Mp4Read, ReadHit, ReadFill, ReadNoMemory, ReadFails
<1>3. ~ ReadFails(pos, size)
  BY <1>1, <1>2 DEF ReadFails
<1>4. ~ poisoned'
  BY <1>2, <1>3 DEF Mp4Read, ReadHit, ReadFill, ReadNoMemory, WalkInv
<1>5. read'.pos = pos /\ read'.size = size
  BY <1>3 DEF Mp4Read, ReadHit, ReadFill, ReadNoMemory, Failed
<1>6. read'.ok
  <2>1. Wanted(size) \in Nat /\ 2 * Wanted(size) < SizeRange
    BY <1>1 DEF Wanted, Smaller
  <2>4. Signed(Wanted(size)) = Wanted(size)
    BY <1>1, <2>1 DEF Signed, NoRoom
  <2>5. (file.size - pos) % SizeRange = file.size - pos
    BY <1>1, LeftIs
  <2>2. ~ NoRoom(Cut(pos, size))
    <3>1. Cut(pos, size) = file.size - pos \/ Cut(pos, size) = Wanted(size)
      BY <2>4, <2>5 DEF Cut
    <3> QED  BY <1>1, <2>1, <3>1 DEF NoRoom
  <2>3. ~ ReadNoMemory(pos, size)
    BY <1>1, <1>2, <2>2 DEF ReadNoMemory
  <2> QED  BY <1>3, <2>3 DEF Mp4Read, ReadHit, ReadFill
<1>7. Complete(read', window')
  <2>1. ReadsTrue'
    BY DEF IInv, WindowInv
  <2>2. read'.ok
    BY <1>6
  <2> QED  BY <1>1, <1>4, <1>5, <2>1, <2>2 DEF ReadsTrue, Complete
<1> QED  BY <1>6, <1>7

\* The history of failures, and what one read does to it.
LEMMA ReadHistory ==
    ASSUME IInv, WalkInv, NEW pos, NEW size, Mp4Read(pos, size)
    PROVE  /\ failures' = 0 => failures = 0 /\ ~ poisoned'
<1>1. failures \in Nat
  BY SizesAssumption DEF IInv, WindowInv, WindowType
<1>2. failures' = 0 => failures = 0 /\ ~ ReadFails(pos, size)
  BY <1>1 DEF Mp4Read, ReadHit, ReadFill, ReadNoMemory, ReadFails
<1> QED
  BY <1>2 DEF Mp4Read, ReadHit, ReadFill, ReadNoMemory, WalkInv

LEMMA WalkInitially == OpenInit => WalkInv
<1> SUFFICES ASSUME OpenInit PROVE WalkInv
  OBVIOUS
<1>1. ASSUME Sound PROVE OnTheWay
  <2>1. PassedTo(0)
    <3> SUFFICES ASSUME NEW a \in file.atoms PROVE ~ (a.start < 0)
      BY DEF PassedTo
    <3> QED  BY <1>1, AtomFacts DEF OpenInit, Sound
  <2> QED  BY <2>1, SizesAssumption DEF OpenInit, OnTheWay
<1>2. ~ poisoned
  BY DEF OpenInit
<1> QED  BY <1>1, <1>2 DEF WalkInv

\* What is judged is an atom of the file: the walk goes into it, or past it.
LEMMA JudgeOnTheWay ==
    ASSUME IInv, Sound, Sound', UNCHANGED <<file, moov>>,
           NEW a \in file.atoms, PassedTo(a.start), atom' = a, Judge(a)
    PROVE  OnTheWay'
<1>1. /\ file \in Files /\ AtomsFollow /\ moov \in BOOLEAN /\ mdat \in BOOLEAN
      /\ a.size \in Nat /\ a.size >= Preamble
  BY AtomFacts DEF IInv, WindowInv, WalkType, Sound
<1>2. CASE a.size < Preamble
  BY <1>1, <1>2 DEF Preamble
<1>3. CASE a.type = "moov" /\ phase' = "box" /\ Past
  <2>1. PassedTo(a.start)'
    BY <1>3 DEF PassedTo, Past
  <2>2. atom'.start = a.start /\ atom' \in file'.atoms /\ atom'.type = "moov"
    BY <1>3
  <2>3. AtAtom'
    BY <2>1, <2>2 DEF AtAtom, PassedTo
  <2> QED  BY <1>3, <2>2, <2>3 DEF OnTheWay
<1>4. CASE a.type # "moov" /\ phase' = "walk" /\ Seen(a)
  <2>1. /\ moov => moov'
        /\ mdat => mdat'
        /\ a.type = "moov" => moov'
        /\ a.type = "mdat" => mdat'
        /\ offset' = a.start + a.size
    BY <1>4 DEF Seen
  <2>2. PassedTo(a.start + a.size)'
    BY <1>1, <2>1, PassedAtom
  <2>3. PassedTo(offset)'
    BY <2>1, <2>2 DEF PassedTo
  <2> QED  BY <1>4, <2>3 DEF OnTheWay
<1> QED  BY <1>2, <1>3, <1>4 DEF Judge

LEMMA WalkStepwise == IInv /\ IInv' /\ WalkInv /\ [OpenNext]_openVars => WalkInv'
<1> SUFFICES ASSUME IInv, IInv', WalkInv, [OpenNext]_openVars
             PROVE  WalkInv'
  OBVIOUS
<1>0. /\ file \in Files /\ moov \in BOOLEAN /\ mdat \in BOOLEAN /\ offset \in Nat
      /\ failures \in Nat /\ failures' \in Nat
  BY SizesAssumption DEF IInv, WindowInv, WindowType, WalkType
<1>a. UNCHANGED file
  BY DEF OpenNext, ReadHeader, ReadExtended, RefuseBox, ReadBox, Opened, ReadData, Close, openVars
<1>b. failures' = 0 => failures = 0 /\ ~ poisoned'
  <2>1. CASE \E pos, size : Mp4Read(pos, size)
    BY <2>1, ReadHistory
  <2>2. CASE UNCHANGED <<failures, poisoned>>
    BY <2>2 DEF WalkInv
  <2> QED
    BY <2>1, <2>2 DEF OpenNext, ReadHeader, ReadExtended, RefuseBox, ReadBox, Opened, ReadData, Close, openVars
<1>c. Sound' => Sound
  BY <1>a, <1>b DEF Sound, AtomsFollow, Has
<1> SUFFICES ASSUME Sound' PROVE OnTheWay'
  BY <1>b DEF WalkInv
<1>d. Sound /\ OnTheWay /\ failures = 0 /\ failures' = 0 /\ AtomsFollow
  BY <1>c DEF WalkInv, Sound
<1>1. CASE ReadHeader
  <2> USE <1>1 DEF ReadHeader
  <2>1. PassedTo(offset) /\ ~ NoRoom(window.size) /\ ~ (moov /\ mdat)
    BY <1>d DEF Walking, OnTheWay, IInv, PlaceInv
  <2>2. PICK a \in file.atoms : a.start = offset
    BY <1>0, <1>d, <2>1, AtomThere
  <2>3. /\ a.size \in Nat /\ a.size >= Preamble /\ (a.extended => a.size >= 16)
        /\ offset + a.size <= file.size /\ file.size \in Nat
    BY <1>0, <1>d, <2>2, AtomFacts
  <2>4. offset + Preamble <= file.size /\ Preamble \in Nat
    BY <1>0, <2>3 DEF Preamble
  <2>5. read'.ok /\ Complete(read', window')
    BY <1>0, <1>a, <1>d, <2>1, <2>4, ReadWorks
  <2>6. HeaderIn(read', window', offset) = {b \in file.atoms : b.start = offset}
    BY <1>a, <2>2, <2>5 DEF HeaderIn
  <2>7. PICK b \in file.atoms : /\ b.start = offset /\ atom' = b
                                /\ \/ b.extended /\ phase' = "extended" /\ Past
                                   \/ ~ b.extended /\ Judge(b)
    BY <2>5, <2>6
  <2>8. CASE b.extended /\ phase' = "extended" /\ Past
    <3>1. UNCHANGED <<moov, mdat>> /\ offset' = offset + Preamble
      BY <2>8 DEF Past
    <3>2. atom'.start = offset /\ atom' \in file'.atoms /\ atom'.extended
      BY <1>a, <2>7, <2>8
    <3>3. AtAtom' /\ offset' = atom'.start + Preamble
      BY <1>a, <2>1, <3>1, <3>2 DEF AtAtom, PassedTo
    <3> QED  BY <2>5, <2>8, <3>2, <3>3 DEF OnTheWay
  <2>9. CASE ~ b.extended /\ Judge(b)
    <3>1. PassedTo(b.start)
      BY <2>1, <2>7
    <3> QED  BY <1>a, <1>d, <2>5, <2>7, <2>9, <3>1, JudgeOnTheWay
  <2> QED  BY <2>7, <2>8, <2>9
<1>2. CASE ReadExtended
  <2> USE <1>2 DEF ReadExtended
  <2>1. /\ atom \in file.atoms /\ PassedTo(atom.start) /\ atom.extended
        /\ offset = atom.start + Preamble /\ ~ NoRoom(window.size)
    BY <1>d DEF OnTheWay, AtAtom, IInv, PlaceInv
  <2>2. /\ atom.start \in Nat /\ atom.size \in Nat /\ atom.size >= 16
        /\ atom.start + atom.size <= file.size /\ file.size \in Nat
    BY <1>0, <1>d, <2>1, AtomFacts
  <2>3. offset + 8 <= file.size
    BY <2>1, <2>2 DEF Preamble
  <2>4. read'.ok /\ Complete(read', window')
    BY <1>0, <1>a, <1>d, <2>1, <2>3, ReadWorks
  <2>5. atom' = atom /\ Judge(atom)
    BY <2>4
  <2> QED  BY <1>a, <1>d, <2>1, <2>4, <2>5, JudgeOnTheWay
<1>3. CASE RefuseBox
  BY <1>3 DEF RefuseBox, OnTheWay
<1>4. CASE ReadBox
  <2> USE <1>4 DEF ReadBox
  <2>1. /\ atom \in file.atoms /\ PassedTo(atom.start) /\ atom.type = "moov"
        /\ ~ NoRoom(window.size)
    BY <1>d DEF OnTheWay, AtAtom, IInv, PlaceInv
  <2>2. /\ atom.start \in Nat /\ atom.size \in Nat /\ atom.start + atom.size <= file.size
    BY <1>0, <1>d, <2>1, AtomFacts
  <2>3. read'.ok
    BY <1>0, <1>a, <1>d, <2>1, <2>2, ReadWorks
  <2>4. CASE phase' = "failed"
    BY <2>4 DEF OnTheWay
  <2>5. CASE phase' = "walk" /\ moov' = TRUE /\ offset' = atom.start + atom.size
    <3>1. PassedTo(atom.start + atom.size)'
      BY <1>0, <1>a, <1>d, <2>1, <2>5, PassedAtom
    <3>2. PassedTo(offset)'
      BY <1>a, <2>5, <3>1 DEF PassedTo
    <3> QED  BY <2>3, <2>5, <3>2 DEF OnTheWay
  <2> QED  BY <2>4, <2>5
<1>5. CASE Opened
  BY <1>5 DEF Opened, OnTheWay
<1>6. CASE ReadData
  BY <1>6 DEF ReadData, OnTheWay
<1>7. CASE Close
  BY <1>7 DEF Close, OnTheWay
<1>8. CASE UNCHANGED openVars
  BY <1>8, <1>d DEF openVars, OnTheWay, AtAtom, PassedTo
<1> QED  BY <1>1, <1>2, <1>3, <1>4, <1>5, <1>6, <1>7, <1>8 DEF OpenNext

LEMMA WalkHolds == OpenSpec => [](IInv /\ WalkInv)
BY Inductive, WalkInitially, WalkStepwise, PTL DEF OpenSpec

\* mp4_open finds moov and mdat wherever they are among the atoms, whatever the
\* sizes of the file, its atoms and the buffer.
THEOREM WalkFinds == OpenSpec => []FindsBoth
<1>1. WalkInv => FindsBoth
  BY DEF WalkInv, OnTheWay, Sound, FindsBoth
<1> QED  BY <1>1, WalkHolds, PTL

-------------------------------------------------------------------------------
(* Sums, by induction over the number of values. *)

\* A set with 0, and with every number the next, has every number.
LEMMA Counting ==
    ASSUME NEW S, 0 \in S, \A n \in Nat : n \in S => n + 1 \in S
    PROVE  Nat \subseteq S
<1> DEFINE T == Nat \ S
<1>1. SUFFICES ASSUME T # {} PROVE FALSE
  OBVIOUS
<1>2. PICK m \in T : \A k \in T : m <= k
  <2>1. T \in SUBSET Nat
    OBVIOUS
  <2> HIDE DEF T
  <2> QED
    BY <1>1, <2>1, LeastNumber
<1>3. m \in Nat /\ m # 0 /\ m \notin S
  OBVIOUS
<1>4. m - 1 \in Nat /\ m - 1 + 1 = m /\ ~ (m <= m - 1)
  BY <1>3
<1>5. m - 1 \in S
  BY <1>2, <1>4
<1> QED
  BY <1>3, <1>4, <1>5

IsSum(f, n, sum) == sum = [k \in 0 .. n |-> IF k = 0 THEN 0 ELSE sum[k - 1] + f[k - 1]]

LEMMA SumExists ==
    ASSUME NEW f, NEW n \in Nat
    PROVE  \E sum : IsSum(f, n, sum)
<1> DEFINE S == {k \in Nat : \E sum : IsSum(f, k, sum)}
<1>1. 0 \in S
  <2> DEFINE g == [k \in 0 .. 0 |-> 0]
             h == [k \in 0 .. 0 |-> IF k = 0 THEN 0 ELSE g[k - 1] + f[k - 1]]
  <2>1. \A k \in 0 .. 0 : k = 0
    OBVIOUS
  <2>2. g = h
    BY <2>1
  <2>3. IsSum(f, 0, g)
    BY <2>2 DEF IsSum
  <2> QED
    BY <2>3
<1>2. ASSUME NEW m \in Nat, m \in S PROVE m + 1 \in S
  <2>1. PICK g : IsSum(f, m, g)
    BY <1>2
  <2> DEFINE next == [k \in 0 .. m + 1 |-> IF k <= m THEN g[k] ELSE g[m] + f[m]]
             h == [k \in 0 .. m + 1 |-> IF k = 0 THEN 0 ELSE next[k - 1] + f[k - 1]]
  <2>2. \A k \in 0 .. m : g[k] = IF k = 0 THEN 0 ELSE g[k - 1] + f[k - 1]
    BY <2>1 DEF IsSum
  <2>3. ASSUME NEW k \in 0 .. m + 1 PROVE next[k] = h[k]
    <3>1. CASE k = 0
      BY <2>2, <3>1
    <3>2. CASE k # 0 /\ k <= m
      <4>1. k \in 0 .. m /\ k - 1 \in 0 .. m + 1 /\ k - 1 <= m
        BY <3>2
      <4>2. next[k] = g[k] /\ next[k - 1] = g[k - 1]
        BY <3>2, <4>1
      <4>3. h[k] = next[k - 1] + f[k - 1]
        BY <3>2
      <4> HIDE DEF next, h
      <4> QED
        BY <2>2, <3>2, <4>1, <4>2, <4>3
    <3>3. CASE k = m + 1
      <4>1. m \in 0 .. m + 1 /\ k - 1 = m /\ k # 0 /\ ~ (k <= m)
        BY <3>3
      <4>2. next[m] = g[m] /\ next[k] = g[m] + f[m]
        BY <4>1
      <4>3. h[k] = next[k - 1] + f[k - 1]
        BY <4>1
      <4> HIDE DEF next, h
      <4> QED
        BY <4>1, <4>2, <4>3
    <3> QED
      BY <3>1, <3>2, <3>3
  <2>4. next = [k \in 0 .. m + 1 |-> next[k]] /\ h = [k \in 0 .. m + 1 |-> h[k]]
    OBVIOUS
  <2>5. next = h
    <3> HIDE DEF next, h
    <3> QED
      BY <2>3, <2>4
  <2>6. IsSum(f, m + 1, next)
    BY <2>5 DEF IsSum
  <2> QED
    BY <2>6
<1> HIDE DEF S
<1>3. n \in S
  BY <1>1, <1>2, Counting
<1> QED
  BY <1>3 DEF S

SameBelow(f, h, n) == \A i \in 0 .. n - 1 : f[i] = h[i]

LEMMA SumAgrees ==
    ASSUME NEW f, NEW h, NEW n \in Nat, NEW m \in Nat, NEW a, NEW b, n <= m,
           IsSum(f, n, a), IsSum(h, m, b), SameBelow(f, h, n)
    PROVE  \A k \in 0 .. n : a[k] = b[k]
<1> DEFINE S == {k \in Nat : k <= n => a[k] = b[k]}
<1> USE DEF SameBelow
<1>1. \A k \in 0 .. n : a[k] = IF k = 0 THEN 0 ELSE a[k - 1] + f[k - 1]
  BY DEF IsSum
<1>2. \A k \in 0 .. m : b[k] = IF k = 0 THEN 0 ELSE b[k - 1] + h[k - 1]
  BY DEF IsSum
<1>3. 0 \in S
  BY <1>1, <1>2
<1>4. ASSUME NEW k \in Nat, k \in S PROVE k + 1 \in S
  <2> SUFFICES ASSUME k + 1 <= n PROVE a[k + 1] = b[k + 1]
    OBVIOUS
  <2>1. /\ k + 1 \in 0 .. n /\ k + 1 \in 0 .. m /\ k + 1 # 0 /\ k + 1 - 1 = k
        /\ k \in 0 .. n - 1 /\ k <= n
    OBVIOUS
  <2>2. a[k + 1] = a[k] + f[k] /\ b[k + 1] = b[k] + h[k]
    BY <1>1, <1>2, <2>1
  <2>3. a[k] = b[k] /\ f[k] = h[k]
    BY <1>4, <2>1
  <2> QED
    BY <2>2, <2>3
<1> HIDE DEF S
<1>5. Nat \subseteq S
  BY <1>3, <1>4, Counting
<1> QED
  BY <1>5 DEF S

LEMMA SumIs ==
    ASSUME NEW f, NEW n \in Nat
    PROVE  \E sum : IsSum(f, n, sum) /\ SumOf(f, n) = sum[n]
<1> DEFINE sum == CHOOSE g : IsSum(f, n, g)
<1>1. IsSum(f, n, sum)
  <2>1. PICK g : IsSum(f, n, g)
    BY SumExists
  <2> QED
    BY <2>1
<1>2. SumOf(f, n) = sum[n]
  BY DEF SumOf, IsSum
<1> QED
  BY <1>1, <1>2

\* What the recursion says, for any number of values.
LEMMA SumStep ==
    ASSUME NEW f, NEW n \in Nat
    PROVE  SumOf(f, 0) = 0 /\ SumOf(f, n + 1) = SumOf(f, n) + f[n]
<1>1. SumOf(f, 0) = 0
  <2>1. PICK sum : IsSum(f, 0, sum) /\ SumOf(f, 0) = sum[0]
    BY SumIs
  <2>2. \A k \in 0 .. 0 : sum[k] = IF k = 0 THEN 0 ELSE sum[k - 1] + f[k - 1]
    BY <2>1 DEF IsSum
  <2> QED
    BY <2>1, <2>2
<1>2. PICK a : IsSum(f, n, a) /\ SumOf(f, n) = a[n]
  BY SumIs
<1>3. PICK b : IsSum(f, n + 1, b) /\ SumOf(f, n + 1) = b[n + 1]
  BY SumIs
<1>4. a[n] = b[n]
  <2>1. PICK m \in Nat : m = n + 1
    OBVIOUS
  <2>2. n <= m /\ n \in 0 .. n
    BY <2>1
  <2>3. IsSum(f, n, a) /\ IsSum(f, m, b)
    BY <1>2, <1>3, <2>1
  <2>s. SameBelow(f, f, n)
    BY DEF SameBelow
  <2>4. \A k \in 0 .. n : a[k] = b[k]
    BY <2>1, <2>2, <2>3, <2>s, SumAgrees
  <2> QED
    BY <2>2, <2>4
<1>5. b[n + 1] = b[n] + f[n]
  <2>1. \A k \in 0 .. n + 1 : b[k] = IF k = 0 THEN 0 ELSE b[k - 1] + f[k - 1]
    BY <1>3 DEF IsSum
  <2>2. n + 1 \in 0 .. n + 1 /\ n + 1 # 0 /\ n + 1 - 1 = n
    OBVIOUS
  <2> QED
    BY <2>1, <2>2
<1> QED
  BY <1>1, <1>2, <1>3, <1>4, <1>5

\* Only the first n values count.
LEMMA SumEqual ==
    ASSUME NEW f, NEW h, NEW n \in Nat, \A i \in 0 .. n - 1 : f[i] = h[i]
    PROVE  SumOf(f, n) = SumOf(h, n)
<1>1. PICK a : IsSum(f, n, a) /\ SumOf(f, n) = a[n]
  BY SumIs
<1>2. PICK b : IsSum(h, n, b) /\ SumOf(h, n) = b[n]
  BY SumIs
<1>3. n <= n /\ n \in 0 .. n
  OBVIOUS
<1>s. SameBelow(f, h, n)
  BY DEF SameBelow
<1>4. \A k \in 0 .. n : a[k] = b[k]
  BY <1>1, <1>2, <1>3, <1>s, SumAgrees
<1> QED
  BY <1>1, <1>2, <1>3, <1>4

LEMMA SumType ==
    ASSUME NEW f, NEW n \in Nat, \A i \in 0 .. n - 1 : f[i] \in Nat
    PROVE  SumOf(f, n) \in Nat
<1> DEFINE S == {k \in Nat : k <= n => SumOf(f, k) \in Nat}
<1>1. 0 \in S
  BY SumStep
<1>2. ASSUME NEW k \in Nat, k \in S PROVE k + 1 \in S
  <2>1. SumOf(f, k + 1) = SumOf(f, k) + f[k]
    BY SumStep
  <2> QED
    BY <1>2, <2>1
<1> HIDE DEF S
<1>3. n \in S
  BY <1>1, <1>2, Counting
<1> QED
  BY <1>3 DEF S

LEMMA SumMonotone ==
    ASSUME NEW f, NEW b \in Nat, NEW a \in 0 .. b, \A i \in 0 .. b - 1 : f[i] \in Nat
    PROVE  SumOf(f, a) <= SumOf(f, b)
<1> DEFINE S == {k \in Nat : a + k <= b => SumOf(f, a) <= SumOf(f, a + k)}
<1>1. \A k \in 0 .. b : SumOf(f, k) \in Nat
  <2> SUFFICES ASSUME NEW k \in 0 .. b PROVE SumOf(f, k) \in Nat
    OBVIOUS
  <2>1. k \in Nat /\ \A i \in 0 .. k - 1 : f[i] \in Nat
    OBVIOUS
  <2> QED
    BY <2>1, SumType
<1>2. 0 \in S
  <2>1. a + 0 = a /\ a \in 0 .. b
    OBVIOUS
  <2> QED
    BY <1>1, <2>1
<1>3. ASSUME NEW k \in Nat, k \in S PROVE k + 1 \in S
  <2> SUFFICES ASSUME a + (k + 1) <= b PROVE SumOf(f, a) <= SumOf(f, a + (k + 1))
    OBVIOUS
  <2>1. a + k \in Nat /\ a + k \in 0 .. b - 1 /\ a + k \in 0 .. b /\ a + (k + 1) = a + k + 1
    OBVIOUS
  <2>2. SumOf(f, a + k + 1) = SumOf(f, a + k) + f[a + k]
    BY <2>1, SumStep
  <2>3. SumOf(f, a) <= SumOf(f, a + k)
    BY <1>3, <2>1
  <2>4. SumOf(f, a) \in Nat /\ SumOf(f, a + k) \in Nat /\ f[a + k] \in Nat
    BY <1>1, <2>1
  <2> QED
    BY <2>1, <2>2, <2>3, <2>4
<1> HIDE DEF S
<1>4. b - a \in Nat /\ a + (b - a) = b
  OBVIOUS
<1>5. b - a \in S
  BY <1>2, <1>3, <1>4, Counting
<1> QED
  BY <1>4, <1>5 DEF S

\* Over a stretch of equal values the sum grows evenly.
Steady(f, a, n, d) ==
    /\ \A i \in 0 .. a - 1 : f[i] \in Nat
    /\ \A i \in a .. a + n - 1 : f[i] = d

LEMMA SumStretch ==
    ASSUME NEW f, NEW a \in Nat, NEW n \in Nat, NEW d \in Nat, Steady(f, a, n, d)
    PROVE  SumOf(f, a + n) = SumOf(f, a) + n * d
<1> USE DEF Steady
<1> DEFINE S == {k \in Nat : k <= n => SumOf(f, a + k) = SumOf(f, a) + k * d}
<1>1. SumOf(f, a) \in Nat
  BY SumType
<1>2. 0 \in S
  <2>1. a + 0 = a /\ 0 * d = 0
    OBVIOUS
  <2> QED
    BY <1>1, <2>1
<1>3. ASSUME NEW k \in Nat, k \in S PROVE k + 1 \in S
  <2> SUFFICES ASSUME k + 1 <= n PROVE SumOf(f, a + (k + 1)) = SumOf(f, a) + (k + 1) * d
    OBVIOUS
  <2>1. a + k \in Nat /\ a + k \in a .. a + n - 1 /\ a + (k + 1) = a + k + 1
    OBVIOUS
  <2>2. SumOf(f, a + k + 1) = SumOf(f, a + k) + f[a + k]
    BY <2>1, SumStep
  <2>3. SumOf(f, a + k) = SumOf(f, a) + k * d
    BY <1>3
  <2>4. (k + 1) * d = k * d + d
    OBVIOUS
  <2>5. k * d \in Nat
    OBVIOUS
  <2> QED
    BY <1>1, <2>1, <2>2, <2>3, <2>4, <2>5
<1> HIDE DEF S
<1>4. n \in S
  BY <1>2, <1>3, Counting
<1> QED
  BY <1>4 DEF S

-------------------------------------------------------------------------------
(* What the tables of a track count. *)

\* Entries whose counts can be added.
Counts(table) == Len(table) \in Nat /\ \A e \in 1 .. Len(table) : table[e].count \in Nat

LEMMA CountedIs ==
    ASSUME NEW table, Counts(table)
    PROVE  /\ Counted(table, 0) = 0
           /\ \A e \in 0 .. Len(table) : Counted(table, e) \in Nat
           /\ \A e \in 1 .. Len(table) : Counted(table, e) = Counted(table, e - 1) + table[e].count
           /\ \A a, b \in 0 .. Len(table) : a <= b => Counted(table, a) <= Counted(table, b)
<1> DEFINE n == Len(table)
           f == [i \in 0 .. n - 1 |-> table[i + 1].count]
<1>1. n \in Nat /\ \A e \in 1 .. n : table[e].count \in Nat
  BY DEF Counts
<1>2. \A i \in 0 .. n - 1 : f[i] \in Nat /\ f[i] = table[i + 1].count
  <2> SUFFICES ASSUME NEW i \in 0 .. n - 1 PROVE f[i] \in Nat /\ f[i] = table[i + 1].count
    OBVIOUS
  <2>1. i + 1 \in 1 .. n
    BY <1>1
  <2> QED
    BY <1>1, <2>1
<1>3. \A e : Counted(table, e) = SumOf(f, e)
  BY DEF Counted
<1> HIDE DEF f
<1>4. Counted(table, 0) = 0
  BY <1>3, SumStep
<1>5. ASSUME NEW e \in 0 .. n PROVE Counted(table, e) \in Nat
  <2>1. e \in Nat /\ \A i \in 0 .. e - 1 : f[i] \in Nat
    BY <1>1, <1>2
  <2> QED
    BY <1>3, <2>1, SumType
<1>6. ASSUME NEW e \in 1 .. n PROVE Counted(table, e) = Counted(table, e - 1) + table[e].count
  <2>1. PICK d \in Nat : d = e - 1
    BY <1>1
  <2>2. d + 1 = e /\ d \in 0 .. n - 1
    BY <1>1, <2>1
  <2>3. SumOf(f, d + 1) = SumOf(f, d) + f[d] /\ f[d] = table[d + 1].count
    BY <1>2, <2>1, <2>2, SumStep
  <2> QED
    BY <1>3, <2>1, <2>2, <2>3
<1>7. ASSUME NEW a \in 0 .. n, NEW b \in 0 .. n, a <= b
      PROVE  Counted(table, a) <= Counted(table, b)
  <2>1. b \in Nat /\ a \in 0 .. b /\ \A i \in 0 .. b - 1 : f[i] \in Nat
    BY <1>1, <1>2, <1>7
  <2> QED
    BY <1>3, <2>1, SumMonotone
<1> QED
  BY <1>4, <1>5, <1>6, <1>7

\* No sample is counted by two entries,
LEMMA EntryIs ==
    ASSUME NEW table, Counts(table), NEW e \in 1 .. Len(table), NEW k \in Nat,
           Counted(table, e - 1) <= k, k < Counted(table, e)
    PROVE  EntryOf(table, k) = e
<1> DEFINE n == Len(table)
           Holds(x) == Counted(table, x - 1) <= k /\ k < Counted(table, x)
<1>1. n \in Nat
  BY DEF Counts
<1>2. ASSUME NEW x \in 1 .. n, Holds(x) PROVE x = e
  <2>1. /\ x - 1 \in 0 .. n /\ x \in 0 .. n /\ e - 1 \in 0 .. n /\ e \in 0 .. n
        /\ x \in Int /\ e \in Int
    BY <1>1
  <2>2. /\ Counted(table, x - 1) \in Nat /\ Counted(table, x) \in Nat
        /\ Counted(table, e - 1) \in Nat /\ Counted(table, e) \in Nat
    BY <2>1, CountedIs
  <2>3. ~ (x <= e - 1)
    <3> SUFFICES ASSUME x <= e - 1 PROVE FALSE
      OBVIOUS
    <3>1. Counted(table, x) <= Counted(table, e - 1)
      BY <2>1, CountedIs
    <3> QED
      BY <1>2, <2>2, <3>1
  <2>4. ~ (e <= x - 1)
    <3> SUFFICES ASSUME e <= x - 1 PROVE FALSE
      OBVIOUS
    <3>1. Counted(table, e) <= Counted(table, x - 1)
      BY <2>1, CountedIs
    <3> QED
      BY <1>2, <2>2, <3>1
  <2> QED
    BY <2>1, <2>3, <2>4
<1>3. Holds(e) /\ e \in 1 .. n
  OBVIOUS
<1>4. EntryOf(table, k) = CHOOSE x \in 1 .. n : Holds(x)
  BY DEF EntryOf
<1> HIDE DEF Holds, n
<1> QED
  BY <1>2, <1>3, <1>4

\* and each of those counted is by one.
LEMMA EntryExists ==
    ASSUME NEW table, Counts(table), NEW k \in Nat, k < Total(table)
    PROVE  \E e \in 1 .. Len(table) : Counted(table, e - 1) <= k /\ k < Counted(table, e)
<1> DEFINE n == Len(table)
           S == {e \in 0 .. n : k < Counted(table, e)}
<1>1. n \in Nat /\ k < Counted(table, n)
  BY DEF Counts, Total
<1>2. PICK e \in S : \A x \in S : e <= x
  <2>1. S \in SUBSET Nat /\ n \in S
    BY <1>1
  <2> HIDE DEF S
  <2> QED
    BY <2>1, LeastNumber
<1>3. e \in 0 .. n /\ k < Counted(table, e)
  OBVIOUS
<1>4. e # 0
  BY <1>3, CountedIs
<1>5. e \in 1 .. n /\ e - 1 \in 0 .. n /\ ~ (e <= e - 1)
  BY <1>1, <1>3, <1>4
<1>6. e - 1 \notin S
  BY <1>2, <1>5
<1>7. Counted(table, e - 1) \in Nat
  BY <1>5, CountedIs
<1>8. Counted(table, e - 1) <= k
  BY <1>5, <1>6, <1>7
<1> QED
  BY <1>3, <1>5, <1>8

LEMMA Elements ==
    ASSUME NEW S, NEW q \in Seq(S)
    PROVE  Len(q) \in Nat /\ \A e \in 1 .. Len(q) : q[e] \in S
OBVIOUS

LEMMA TablesAre ==
    ASSUME NEW t, IsTables(t)
    PROVE  /\ Len(t.stco) \in Nat /\ Len(t.stsc) \in Nat /\ Len(t.sizes) \in Nat
           /\ Len(t.stts) \in Nat /\ Len(t.ctts) \in Nat /\ Len(t.stss) \in Nat
           /\ \A c \in 1 .. Len(t.stco) : t.stco[c] \in Nat
           /\ \A e \in 1 .. Len(t.stsc) : t.stsc[e].chunk \in Nat /\ t.stsc[e].samples \in Nat
           /\ \A k \in 1 .. Len(t.sizes) : t.sizes[k] \in Nat
           /\ \A e \in 1 .. Len(t.stts) : t.stts[e].count \in Nat /\ t.stts[e].duration \in Nat
           /\ \A e \in 1 .. Len(t.ctts) : t.ctts[e].count \in Nat /\ t.ctts[e].offset \in Int
<1>1. /\ t.stco \in Seq(Nat) /\ t.sizes \in Seq(Nat) /\ t.stss \in Seq(Nat)
      /\ t.stsc \in Seq([chunk : Nat, samples : Nat])
      /\ t.stts \in Seq([count : Nat, duration : Nat])
      /\ t.ctts \in Seq([count : Nat, offset : Int])
  BY DEF IsTables
<1>2. Len(t.stco) \in Nat /\ \A c \in 1 .. Len(t.stco) : t.stco[c] \in Nat
  BY <1>1, Elements
<1>3. Len(t.sizes) \in Nat /\ \A c \in 1 .. Len(t.sizes) : t.sizes[c] \in Nat
  BY <1>1, Elements
<1>4. Len(t.stsc) \in Nat /\ \A e \in 1 .. Len(t.stsc) : t.stsc[e] \in [chunk : Nat, samples : Nat]
  BY <1>1, Elements
<1>5. Len(t.stts) \in Nat /\ \A e \in 1 .. Len(t.stts) : t.stts[e] \in [count : Nat, duration : Nat]
  BY <1>1, Elements
<1>6. Len(t.ctts) \in Nat /\ \A e \in 1 .. Len(t.ctts) : t.ctts[e] \in [count : Nat, offset : Int]
  BY <1>1, Elements
<1>7. Len(t.stss) \in Nat
  BY <1>1, Elements
<1> QED
  BY <1>2, <1>3, <1>4, <1>5, <1>6, <1>7

LEMMA TablesCount ==
    ASSUME NEW t, IsTables(t)
    PROVE  /\ Counts(t.stts) /\ Counts(t.ctts)
           /\ \A e \in 1 .. Len(t.stts) : t.stts[e].duration \in Nat
           /\ \A e \in 1 .. Len(t.ctts) : t.ctts[e].offset \in Int
BY TablesAre DEF Counts

Durations(t) == [j \in 0 .. Total(t.stts) - 1 |-> t.stts[EntryOf(t.stts, j)].duration]

LEMMA DurationsAre ==
    ASSUME NEW t, IsTables(t)
    PROVE  /\ Total(t.stts) \in Nat
           /\ \A j \in 0 .. Total(t.stts) - 1 : Durations(t)[j] \in Nat
           /\ \A k \in 0 .. Total(t.stts) : TimeOf(t, k) = SumOf(Durations(t), k)
<1>1. Counts(t.stts)
  BY TablesCount
<1>2. Total(t.stts) \in Nat
  BY <1>1, CountedIs DEF Total, Counts
<1>3. ASSUME NEW j \in 0 .. Total(t.stts) - 1 PROVE Durations(t)[j] \in Nat
  <2>1. j \in Nat /\ j < Total(t.stts)
    BY <1>2
  <2>2. PICK e \in 1 .. Len(t.stts) : Counted(t.stts, e - 1) <= j /\ j < Counted(t.stts, e)
    BY <1>1, <2>1, EntryExists
  <2>3. EntryOf(t.stts, j) = e
    BY <1>1, <2>1, <2>2, EntryIs
  <2>4. Durations(t)[j] = t.stts[e].duration
    BY <2>3 DEF Durations
  <2> QED
    BY <2>4, TablesCount
<1>4. ASSUME NEW k \in 0 .. Total(t.stts) PROVE TimeOf(t, k) = SumOf(Durations(t), k)
  <2> DEFINE f == [j \in 0 .. k - 1 |-> t.stts[EntryOf(t.stts, j)].duration]
  <2>1. TimeOf(t, k) = SumOf(f, k)
    BY DEF TimeOf
  <2>2. k \in Nat /\ \A j \in 0 .. k - 1 : f[j] = Durations(t)[j]
    <3>1. k \in Nat /\ \A j \in 0 .. k - 1 : j \in 0 .. Total(t.stts) - 1
      BY <1>2
    <3> QED
      BY <3>1 DEF Durations
  <2> HIDE DEF f
  <2>3. SumOf(f, k) = SumOf(Durations(t), k)
    BY <2>2, SumEqual
  <2> QED
    BY <2>1, <2>3
<1> QED
  BY <1>2, <1>3, <1>4

\* The times begin with 0 and are in order.
LEMMA TimesInOrder ==
    ASSUME NEW t, IsTables(t)
    PROVE  /\ Total(t.stts) \in Nat
           /\ TimeOf(t, 0) = 0
           /\ \A k \in 0 .. Total(t.stts) : TimeOf(t, k) \in Nat
           /\ \A a, b \in 0 .. Total(t.stts) : a <= b => TimeOf(t, a) <= TimeOf(t, b)
<1> DEFINE n == Total(t.stts)
           f == Durations(t)
<1>1. /\ n \in Nat
      /\ \A j \in 0 .. n - 1 : f[j] \in Nat
      /\ \A k \in 0 .. n : TimeOf(t, k) = SumOf(f, k)
  BY DurationsAre
<1> HIDE DEF n, f
<1>2. TimeOf(t, 0) = 0
  BY <1>1, SumStep
<1>3. ASSUME NEW k \in 0 .. n PROVE TimeOf(t, k) \in Nat
  <2>1. k \in Nat /\ \A i \in 0 .. k - 1 : f[i] \in Nat
    BY <1>1
  <2> QED
    BY <1>1, <2>1, SumType
<1>4. ASSUME NEW a \in 0 .. n, NEW b \in 0 .. n, a <= b
      PROVE  TimeOf(t, a) <= TimeOf(t, b)
  <2>1. b \in Nat /\ a \in 0 .. b /\ \A i \in 0 .. b - 1 : f[i] \in Nat
    BY <1>1, <1>4
  <2> QED
    BY <1>1, <2>1, SumMonotone
<1> QED
  BY <1>1, <1>2, <1>3, <1>4 DEF n

\* Within an entry of stts they are its duration apart.
LEMMA TimesEven ==
    ASSUME NEW t, IsTables(t), NEW e \in 1 .. Len(t.stts), NEW i \in 0 .. t.stts[e].count
    PROVE  TimeOf(t, Counted(t.stts, e - 1) + i)
               = TimeOf(t, Counted(t.stts, e - 1)) + i * t.stts[e].duration
<1> DEFINE n == Total(t.stts)
           f == Durations(t)
           a == Counted(t.stts, e - 1)
           d == t.stts[e].duration
<1>1. Counts(t.stts) /\ d \in Nat /\ Len(t.stts) \in Nat /\ t.stts[e].count \in Nat
  BY TablesCount DEF Counts
<1>2. /\ a \in Nat /\ Counted(t.stts, e) = a + t.stts[e].count /\ a + t.stts[e].count <= n
  <2>1. e - 1 \in 0 .. Len(t.stts) /\ e \in 0 .. Len(t.stts) /\ Len(t.stts) \in 0 .. Len(t.stts) /\ e <= Len(t.stts)
    BY <1>1
  <2> QED
    BY <1>1, <2>1, CountedIs DEF Total
<1>3. /\ n \in Nat
      /\ \A j \in 0 .. n - 1 : f[j] \in Nat
      /\ \A k \in 0 .. n : TimeOf(t, k) = SumOf(f, k)
  BY DurationsAre
<1>4. i \in Nat /\ a + i \in 0 .. n /\ a \in 0 .. n
  BY <1>1, <1>2, <1>3
<1>5. ASSUME NEW j \in a .. a + i - 1 PROVE f[j] = d
  <2>1. j \in Nat /\ a <= j /\ j < Counted(t.stts, e) /\ j \in 0 .. n - 1
    BY <1>1, <1>2, <1>3
  <2>2. EntryOf(t.stts, j) = e
    BY <1>1, <2>1, EntryIs
  <2> QED
    BY <2>1, <2>2 DEF Durations
<1>6. \A j \in 0 .. a - 1 : f[j] \in Nat
  BY <1>3, <1>4
<1> HIDE DEF n, f, a, d
<1>s. Steady(f, a, i, d)
  BY <1>5, <1>6 DEF Steady
<1>7. SumOf(f, a + i) = SumOf(f, a) + i * d
  BY <1>1, <1>2, <1>4, <1>s, SumStretch
<1>8. TimeOf(t, a + i) = TimeOf(t, a) + i * d
  BY <1>3, <1>4, <1>7
<1> QED
  BY <1>8 DEF a, d

-------------------------------------------------------------------------------
(* The chunks. *)

\* The runs are in the order of the chunks.
LEMMA RunsOrdered ==
    ASSUME NEW t, IsTables(t), ChunksMapped(t)
    PROVE  \A a, b \in 1 .. Len(t.stsc) : a < b => t.stsc[a].chunk < t.stsc[b].chunk
<1> DEFINE n == Len(t.stsc)
<1>1. n \in Nat /\ \A e \in 1 .. n : t.stsc[e].chunk \in Nat
  BY TablesAre
<1> SUFFICES ASSUME NEW a \in 1 .. n PROVE \A b \in 1 .. n : a < b => t.stsc[a].chunk < t.stsc[b].chunk
  OBVIOUS
<1> DEFINE S == {k \in Nat : a + k + 1 \in 1 .. n => t.stsc[a].chunk < t.stsc[a + k + 1].chunk}
<1>2. \A e \in 2 .. n : t.stsc[e - 1].chunk < t.stsc[e].chunk
  BY DEF ChunksMapped
<1>3. 0 \in S
  <2> SUFFICES ASSUME a + 0 + 1 \in 1 .. n PROVE t.stsc[a].chunk < t.stsc[a + 0 + 1].chunk
    OBVIOUS
  <2>1. PICK b \in 2 .. n : b = a + 0 + 1
    BY <1>1
  <2>2. b - 1 = a
    BY <1>1, <2>1
  <2> QED
    BY <1>2, <2>1, <2>2
<1>4. ASSUME NEW k \in Nat, k \in S PROVE k + 1 \in S
  <2> SUFFICES ASSUME a + (k + 1) + 1 \in 1 .. n
               PROVE  t.stsc[a].chunk < t.stsc[a + (k + 1) + 1].chunk
    OBVIOUS
  <2>1. PICK b \in 2 .. n : b = a + (k + 1) + 1
    BY <1>1
  <2>2. b - 1 = a + k + 1 /\ b - 1 \in 1 .. n /\ b \in 1 .. n
    BY <1>1, <2>1
  <2>3. t.stsc[a].chunk < t.stsc[b - 1].chunk
    BY <1>4, <2>2
  <2>4. t.stsc[b - 1].chunk < t.stsc[b].chunk
    BY <1>2
  <2>5. t.stsc[a].chunk \in Nat /\ t.stsc[b - 1].chunk \in Nat /\ t.stsc[b].chunk \in Nat
    BY <1>1, <2>2
  <2>6. t.stsc[a].chunk < t.stsc[b].chunk
    BY <2>3, <2>4, <2>5
  <2> QED
    BY <2>1, <2>6
<1> SUFFICES ASSUME NEW b \in 1 .. n, a < b PROVE t.stsc[a].chunk < t.stsc[b].chunk
  OBVIOUS
<1>5. PICK k \in Nat : a + k + 1 = b
  <2>1. b - a - 1 \in Nat /\ a + (b - a - 1) + 1 = b
    BY <1>1
  <2> QED
    BY <2>1
<1>6. k \in S
  <2> HIDE DEF S
  <2> QED
    BY <1>3, <1>4, Counting
<1> QED
  BY <1>5, <1>6

\* The run of chunk c.
InRun(t, e, c) ==
    /\ t.stsc[e].chunk <= c
    /\ e < Len(t.stsc) => c < t.stsc[e + 1].chunk

LEMMA RunExists ==
    ASSUME NEW t, IsTables(t), ChunksMapped(t), NEW c \in Nat
    PROVE  \E e \in 1 .. Len(t.stsc) : InRun(t, e, c)
<1> DEFINE n == Len(t.stsc)
           S == {e \in 1 .. n : e < n => c < t.stsc[e + 1].chunk}
<1>1. n \in Nat /\ n # 0 /\ (\A e \in 1 .. n : t.stsc[e].chunk \in Nat) /\ t.stsc[1].chunk = 0
  BY TablesAre DEF ChunksMapped
<1>2. PICK e \in S : \A x \in S : e <= x
  <2>1. S \in SUBSET Nat /\ n \in S
    BY <1>1
  <2> HIDE DEF S
  <2> QED
    BY <2>1, LeastNumber
<1>3. e \in 1 .. n /\ (e < n => c < t.stsc[e + 1].chunk)
  OBVIOUS
<1>4. t.stsc[e].chunk <= c
  <2>1. CASE e = 1
    BY <1>1, <2>1
  <2>2. CASE e # 1
    <3>1. e - 1 \in 1 .. n /\ e - 1 < n /\ e - 1 + 1 = e /\ ~ (e <= e - 1)
      BY <1>1, <1>3, <2>2
    <3>2. e - 1 \notin S
      BY <1>2, <3>1
    <3>3. ~ (c < t.stsc[e].chunk)
      BY <3>1, <3>2
    <3> QED
      BY <1>1, <1>3, <3>3
  <2> QED
    BY <2>1, <2>2
<1> QED
  BY <1>3, <1>4 DEF InRun

LEMMA ChunkSizeIs ==
    ASSUME NEW t, IsTables(t), ChunksMapped(t), NEW c \in Nat,
           NEW e \in 1 .. Len(t.stsc), InRun(t, e, c)
    PROVE  ChunkSize(t, c) = t.stsc[e].samples
<1> DEFINE n == Len(t.stsc)
           S == {x \in 1 .. n : t.stsc[x].chunk <= c}
<1>1. n \in Nat /\ (\A x \in 1 .. n : t.stsc[x].chunk \in Nat) /\ S \in SUBSET Int
  BY TablesAre
<1>2. e \in S
  BY DEF InRun
<1>3. ASSUME NEW x \in S PROVE e >= x
  <2> SUFFICES ASSUME e < x PROVE FALSE
    BY <1>1
  <2>1. e < n /\ e + 1 \in 1 .. n /\ x \in 1 .. n
    BY <1>1
  <2>2. c < t.stsc[e + 1].chunk
    BY <2>1 DEF InRun
  <2>3. t.stsc[e + 1].chunk <= t.stsc[x].chunk
    <3>1. CASE x = e + 1
      BY <1>1, <2>1, <3>1
    <3>2. CASE e + 1 < x
      <4>1. t.stsc[e + 1].chunk < t.stsc[x].chunk
        BY <2>1, <3>2, RunsOrdered
      <4> QED
        BY <1>1, <2>1, <4>1
    <3> QED
      BY <1>1, <2>1, <3>1, <3>2
  <2>4. t.stsc[x].chunk <= c /\ t.stsc[x].chunk \in Nat /\ t.stsc[e + 1].chunk \in Nat
    BY <1>1, <2>1
  <2> QED
    BY <2>2, <2>3, <2>4
<1>4. ASSUME NEW x \in S, \A y \in S : x >= y PROVE x = e
  <2>1. x >= e /\ e >= x /\ x \in Int /\ e \in Int
    BY <1>1, <1>2, <1>3, <1>4
  <2> QED
    BY <2>1
<1>5. Max(S) = e
  <2> HIDE DEF S
  <2> QED
    BY <1>2, <1>3, <1>4 DEF Max
<1>6. ChunkSize(t, c) = t.stsc[Max(S)].samples
  BY DEF ChunkSize
<1> QED
  BY <1>5, <1>6

LEMMA ChunksStart ==
    ASSUME NEW t, IsTables(t), ChunksMapped(t)
    PROVE  /\ ChunkStart(t, 0) = 0
           /\ \A c \in Nat : /\ ChunkSize(t, c) \in Nat /\ ChunkStart(t, c) \in Nat
                             /\ ChunkStart(t, c + 1) = ChunkStart(t, c) + ChunkSize(t, c)
           /\ \A a, b \in Nat : a <= b => ChunkStart(t, a) <= ChunkStart(t, b)
<1> DEFINE f == [d \in Nat |-> ChunkSize(t, d)]
<1>1. ASSUME NEW c \in Nat PROVE ChunkSize(t, c) \in Nat
  <2>1. PICK e \in 1 .. Len(t.stsc) : InRun(t, e, c)
    BY RunExists
  <2>2. t.stsc[e].samples \in Nat
    BY TablesAre
  <2> QED
    BY <2>1, <2>2, ChunkSizeIs
<1>2. ASSUME NEW c \in Nat PROVE ChunkStart(t, c) = SumOf(f, c)
  <2> DEFINE g == [d \in 0 .. c - 1 |-> ChunkSize(t, d)]
  <2>1. ChunkStart(t, c) = SumOf(g, c)
    BY DEF ChunkStart
  <2>2. \A d \in 0 .. c - 1 : g[d] = f[d]
    OBVIOUS
  <2> HIDE DEF f, g
  <2>3. SumOf(g, c) = SumOf(f, c)
    BY <2>2, SumEqual
  <2> QED
    BY <2>1, <2>3
<1>3. \A c \in Nat : f[c] \in Nat /\ f[c] = ChunkSize(t, c)
  BY <1>1
<1> HIDE DEF f
<1>4. ChunkStart(t, 0) = 0
  BY <1>2, SumStep
<1>5. ASSUME NEW c \in Nat
      PROVE  ChunkStart(t, c) \in Nat /\ ChunkStart(t, c + 1) = ChunkStart(t, c) + ChunkSize(t, c)
  <2>1. c + 1 \in Nat /\ \A i \in 0 .. c - 1 : f[i] \in Nat
    BY <1>3
  <2>2. SumOf(f, c) \in Nat /\ SumOf(f, c + 1) = SumOf(f, c) + f[c]
    BY <2>1, SumType, SumStep
  <2> QED
    BY <1>2, <1>3, <2>1, <2>2
<1>6. ASSUME NEW a \in Nat, NEW b \in Nat, a <= b PROVE ChunkStart(t, a) <= ChunkStart(t, b)
  <2>1. a \in 0 .. b /\ \A i \in 0 .. b - 1 : f[i] \in Nat
    BY <1>3, <1>6
  <2>2. SumOf(f, a) <= SumOf(f, b)
    BY <2>1, SumMonotone
  <2> QED
    BY <1>2, <2>2
<1> QED
  BY <1>1, <1>4, <1>5, <1>6

LEMMA ChunkIs ==
    ASSUME NEW t, IsTables(t), ChunksMapped(t), NEW k \in Nat,
           NEW c \in 0 .. Len(t.stco) - 1, ChunkStart(t, c) <= k, k < ChunkStart(t, c + 1)
    PROVE  ChunkOf(t, k) = c
<1> DEFINE n == Len(t.stco)
           Holds(x) == ChunkStart(t, x) <= k /\ k < ChunkStart(t, x + 1)
<1>1. n \in Nat
  BY TablesAre
<1>2. ASSUME NEW x \in 0 .. n - 1, Holds(x) PROVE x = c
  <2>1. x \in Nat /\ c \in Nat /\ x + 1 \in Nat /\ c + 1 \in Nat
    BY <1>1
  <2>2. /\ ChunkStart(t, x) \in Nat /\ ChunkStart(t, x + 1) \in Nat
        /\ ChunkStart(t, c) \in Nat /\ ChunkStart(t, c + 1) \in Nat
    BY <2>1, ChunksStart
  <2>3. ~ (x + 1 <= c)
    <3> SUFFICES ASSUME x + 1 <= c PROVE FALSE
      OBVIOUS
    <3>1. ChunkStart(t, x + 1) <= ChunkStart(t, c)
      BY <2>1, ChunksStart
    <3> QED
      BY <1>2, <2>2, <3>1
  <2>4. ~ (c + 1 <= x)
    <3> SUFFICES ASSUME c + 1 <= x PROVE FALSE
      OBVIOUS
    <3>1. ChunkStart(t, c + 1) <= ChunkStart(t, x)
      BY <2>1, ChunksStart
    <3> QED
      BY <1>2, <2>2, <3>1
  <2> QED
    BY <2>1, <2>3, <2>4
<1>3. Holds(c) /\ c \in 0 .. n - 1
  OBVIOUS
<1>4. ChunkOf(t, k) = CHOOSE x \in 0 .. n - 1 : Holds(x)
  BY DEF ChunkOf
<1> HIDE DEF Holds, n
<1> QED
  BY <1>2, <1>3, <1>4

LEMMA BytesAre ==
    ASSUME NEW t, IsTables(t), ChunksMapped(t)
    PROVE  SizeOf(t) \in Nat /\ \A k \in 0 .. SizeOf(t) - 1 : BytesOf(t, k) \in Nat
<1>1. Len(t.stco) \in Nat /\ Len(t.sizes) \in Nat /\ \A k \in 1 .. Len(t.sizes) : t.sizes[k] \in Nat
  BY TablesAre
<1>2. t.sample_size \in Nat
  BY DEF IsTables
<1>3. CASE t.sample_size = 0
  <2>1. SizeOf(t) = Len(t.sizes) /\ \A k : BytesOf(t, k) = t.sizes[k + 1]
    BY <1>3 DEF SizeOf, BytesOf
  <2>2. \A k \in 0 .. SizeOf(t) - 1 : k + 1 \in 1 .. Len(t.sizes)
    BY <1>1, <2>1
  <2> QED
    BY <1>1, <2>1, <2>2
<1>4. CASE t.sample_size # 0
  <2>1. SizeOf(t) = ChunkStart(t, Len(t.stco)) /\ \A k : BytesOf(t, k) = t.sample_size
    BY <1>4 DEF SizeOf, BytesOf
  <2> QED
    BY <1>1, <1>2, <2>1, ChunksStart
<1> QED
  BY <1>3, <1>4

\* The place of the first sample of a chunk, and that behind any other.
LEMMA PlaceIs ==
    ASSUME NEW t, IsTables(t), ChunksMapped(t), NEW c \in 0 .. Len(t.stco) - 1
    PROVE  /\ Place(t, c, ChunkStart(t, c)) = t.stco[c + 1]
           /\ \A k \in Nat : ChunkStart(t, c) <= k /\ k < SizeOf(t) =>
                Place(t, c, k + 1) = Place(t, c, k) + BytesOf(t, k)
<1> DEFINE a == ChunkStart(t, c)
           f == [j \in Nat |-> BytesOf(t, a + j)]
<1>1. c \in Nat /\ a \in Nat /\ t.stco[c + 1] \in Nat
  <2>1. Len(t.stco) \in Nat /\ \A i \in 1 .. Len(t.stco) : t.stco[i] \in Nat
    BY TablesAre
  <2>2. c \in Nat /\ c + 1 \in 1 .. Len(t.stco)
    BY <2>1
  <2> QED
    BY <2>1, <2>2, ChunksStart
<1>2. ASSUME NEW k \in Nat, a <= k PROVE Place(t, c, k) = t.stco[c + 1] + SumOf(f, k - a)
  <2> DEFINE g == [j \in 0 .. k - a - 1 |-> BytesOf(t, a + j)]
  <2>1. Place(t, c, k) = t.stco[c + 1] + SumOf(g, k - a)
    BY DEF Place
  <2>2. PICK n \in Nat : n = k - a
    BY <1>1, <1>2
  <2>3. \A j \in 0 .. n - 1 : g[j] = f[j]
    BY <2>2
  <2> HIDE DEF f, g, a
  <2>4. SumOf(g, n) = SumOf(f, n)
    BY <2>3, SumEqual
  <2> QED
    BY <2>1, <2>2, <2>4
<1>3. Place(t, c, a) = t.stco[c + 1]
  <2>1. a <= a /\ a - a = 0
    BY <1>1
  <2>2. SumOf(f, 0) = 0
    <3> HIDE DEF f
    <3> QED
      BY SumStep
  <2> HIDE DEF f, a
  <2> QED
    BY <1>1, <1>2, <2>1, <2>2
<1>4. ASSUME NEW k \in Nat, a <= k, k < SizeOf(t)
      PROVE  Place(t, c, k + 1) = Place(t, c, k) + BytesOf(t, k)
  <2>1. PICK n \in Nat : n = k - a
    BY <1>1, <1>4
  <2>2. PICK m \in Nat : m = k + 1
    OBVIOUS
  <2>3. a <= m /\ m - a = n + 1 /\ a + n = k
    BY <1>1, <1>4, <2>1, <2>2
  <2>4. \A j \in 0 .. n : a + j \in 0 .. SizeOf(t) - 1
    BY <1>1, <1>4, <2>3, BytesAre
  <2>5. \A j \in 0 .. n : f[j] \in Nat
    <3>1. \A j \in 0 .. n : f[j] = BytesOf(t, a + j)
      OBVIOUS
    <3> HIDE DEF f, a
    <3> QED
      BY <2>4, <3>1, BytesAre
  <2>6. f[n] = BytesOf(t, k)
    BY <2>3
  <2> HIDE DEF f, a
  <2>7. SumOf(f, n + 1) = SumOf(f, n) + BytesOf(t, k) /\ BytesOf(t, k) \in Nat
    BY <2>5, <2>6, SumStep
  <2>8. SumOf(f, n) \in Nat
    <3>1. \A j \in 0 .. n - 1 : f[j] \in Nat
      BY <2>5
    <3> QED
      BY <3>1, SumType
  <2>9. Place(t, c, k) = t.stco[c + 1] + SumOf(f, n)
    BY <1>2, <1>4, <2>1
  <2>10. Place(t, c, m) = t.stco[c + 1] + SumOf(f, n + 1)
    BY <1>2, <2>2, <2>3
  <2> QED
    BY <1>1, <2>2, <2>7, <2>8, <2>9, <2>10
<1> QED
  BY <1>3, <1>4

-------------------------------------------------------------------------------
(* The loops stay within the arrays. *)

Samples(n) ==
    [kind : {"vide", "soun"}, timescale : Nat \ {0}, size : {n}, bytes : [0 .. n -> Nat],
     pts : [0 .. n -> Nat], cto : [0 .. n -> Int], pos : [0 .. n -> Nat],
     sync : [0 .. n -> BOOLEAN]]

IsArray(a) == a.size \in Nat /\ a \in Samples(a.size)

IsChunk == [pos : Nat, size : Nat, sample : Nat]

Building == pc \in {"stsc", "stts", "ctts", "pos"}

TypesKept ==
    /\ movie \in Movies
    /\ pc \in {"trak", "stsc", "stts", "ctts", "pos", "copy", "indexed", "failed"}
    /\ track \in 1 .. Len(movie.traks) + 1
    /\ entry \in Nat /\ chunk \in Nat /\ s \in Nat /\ last \in Nat /\ acc \in Int
    /\ pc # "ctts" => acc \in Nat
    /\ Building =>
         track \in Tracks /\ tab.stco # <<>> /\ chunks \in [0 .. Chunks - 1 -> IsChunk]
    /\ pc \in {"stts", "ctts", "pos"} =>
         /\ IsArray(samples)
         /\ samples.kind = tab.kind /\ samples.timescale = tab.timescale

Arrays == UNION {Samples(n) : n \in Nat}

IndexKept ==
    /\ index \in Seq(Arrays)
    /\ Len(index) = IF pc \in {"copy", "indexed"} THEN Len(movie.traks) ELSE track - 1
    /\ \A k \in 1 .. Len(index) :
         index[k].kind = movie.traks[k].kind /\ index[k].timescale = movie.traks[k].timescale

\* An entry of stsc that begins behind the next one.
Disorder(t) ==
    \E e \in 1 .. Len(t.stsc) :
        t.stsc[e].chunk > (IF e < Len(t.stsc) THEN t.stsc[e + 1].chunk ELSE Len(t.stco))

CountersKept ==
    /\ pc = "stsc" =>
         /\ entry <= Len(tab.stsc)
         /\ last = IF entry < Len(tab.stsc) THEN tab.stsc[entry + 1].chunk ELSE Chunks
         /\ last <= Chunks \/ Disorder(tab)
    /\ pc = "stts" =>
         entry \in 1 .. Len(tab.stts) + 1 /\ s = Counted(tab.stts, entry - 1)
    /\ pc = "ctts" =>
         entry \in 1 .. Len(tab.ctts) + 1 /\ s <= samples.size
    /\ pc = "pos" => chunk <= Chunks /\ s <= samples.size

LoopInv == TypesKept /\ IndexKept /\ CountersKept /\ InBounds

LEMMA LoopsBegin == Init => LoopInv
<1> SUFFICES ASSUME Init PROVE LoopInv
  OBVIOUS
<1> USE DEF Init
<1>1. Len(movie.traks) \in Nat
  BY IndexAssumption
<1>2. TypesKept
  <2>2. pc = "trak" /\ movie \in Movies /\ track = 1 /\ entry = 0 /\ chunk = 0 /\ s = 0 /\ acc = 0 /\ last = 0
    OBVIOUS
  <2> QED
    BY ONLY <1>1, <2>2 DEF TypesKept, Building
<1>3. IndexKept
  BY <1>1 DEF IndexKept
<1>4. CountersKept /\ InBounds
  BY DEF CountersKept, InBounds
<1> QED
  BY <1>2, <1>3, <1>4 DEF LoopInv

\* The tables of the track whose turn it is.
LEMMA TabIs ==
    ASSUME TypesKept, track \in Tracks
    PROVE  /\ IsTables(tab) /\ Len(movie.traks) \in Nat
           /\ Chunks \in Nat /\ (tab.stco # <<>> => Chunks > 0)
<1>1. movie \in Movies
  BY DEF TypesKept
<1>2. IsTables(tab) /\ Len(movie.traks) \in Nat
  BY <1>1, IndexAssumption DEF Tracks, tab
<1>3. tab.stco \in Seq(Nat)
  BY <1>2 DEF IsTables
<1> QED
  BY <1>2, <1>3 DEF Chunks

LEMMA BeginKeeps == ASSUME LoopInv, ~ outside, NoChunks \/ BeginTrak PROVE LoopInv'
<1>1. TypesKept /\ IndexKept
  BY DEF LoopInv
<1>2. CASE NoChunks
  <2> USE <1>2 DEF NoChunks
  <2>1. TypesKept'
    BY <1>1 DEF TypesKept, Building, Tracks
  <2>2. IndexKept'
    BY <1>1 DEF IndexKept
  <2>3. CountersKept' /\ InBounds'
    BY DEF CountersKept, InBounds
  <2> QED
    BY <2>1, <2>2, <2>3 DEF LoopInv
<1>3. CASE BeginTrak
  <2> USE <1>3 DEF BeginTrak
  <2>1. IsTables(tab) /\ Chunks \in Nat /\ Chunks > 0 /\ tab' = tab /\ Chunks' = Chunks /\ Tracks' = Tracks
    BY <1>1, TabIs DEF tab, Chunks, Tracks
  <2>2. Len(tab.stsc) \in Nat /\ \A c \in 0 .. Chunks - 1 : tab.stco[c + 1] \in Nat
    BY <2>1, TablesAre DEF Chunks
  <2>3. chunks' \in [0 .. Chunks - 1 -> IsChunk]
    <3>1. PICK left \in [0 .. Chunks - 1 -> Garbage] :
            chunks' = [c \in 0 .. Chunks - 1 |->
                         [pos |-> tab.stco[c + 1], size |-> left[c], sample |-> 0]]
      OBVIOUS
    <3>2. \A c \in 0 .. Chunks - 1 : left[c] \in Nat
      BY IndexAssumption
    <3> QED
      BY <2>2, <3>1, <3>2 DEF IsChunk
  <2>4. TypesKept'
    BY <1>1, <2>1, <2>2, <2>3 DEF TypesKept, Building
  <2>5. IndexKept'
    BY <1>1 DEF IndexKept
  <2>6. CountersKept' /\ InBounds'
    BY <2>1, <2>2 DEF CountersKept, InBounds
  <2> QED
    BY <2>4, <2>5, <2>6 DEF LoopInv
<1> QED
  BY <1>2, <1>3

LEMMA MapKeeps == ASSUME LoopInv, ~ outside, MapChunks PROVE LoopInv'
<1> USE DEF MapChunks
<1>1. TypesKept /\ IndexKept /\ CountersKept
  BY DEF LoopInv
<1>2. track \in Tracks /\ tab' = tab /\ Chunks' = Chunks /\ Tracks' = Tracks
  BY <1>1 DEF tab, Chunks, Tracks, TypesKept, Building
<1>3. IsTables(tab) /\ Chunks \in Nat
  BY <1>1, <1>2, TabIs
<1> DEFINE e == tab.stsc[entry]
<1>4. /\ entry \in 1 .. Len(tab.stsc) /\ Len(tab.stsc) \in Nat
      /\ e.chunk \in Nat /\ e.samples \in Nat /\ last \in Nat /\ entry - 1 \in Nat
  <2>1. /\ Len(tab.stsc) \in Nat
        /\ \A i \in 1 .. Len(tab.stsc) :
             tab.stsc[i].chunk \in Nat /\ tab.stsc[i].samples \in Nat
    BY <1>3, TablesAre
  <2>2. entry \in Nat /\ last \in Nat
    BY <1>1 DEF TypesKept
  <2>3. entry <= Len(tab.stsc)
    BY <1>1 DEF CountersKept
  <2> HIDE DEF MapChunks
  <2>4. entry > 0
    BY DEF MapChunks
  <2>5. entry \in 1 .. Len(tab.stsc) /\ entry - 1 \in Nat
    BY <2>1, <2>2, <2>3, <2>4
  <2> QED
    BY <2>1, <2>2, <2>5
<1>5. chunks' \in [0 .. Chunks - 1 -> IsChunk]
  <2>1. chunks \in [0 .. Chunks - 1 -> IsChunk]
    BY <1>1 DEF TypesKept, Building
  <2>2. \A c \in 0 .. Chunks - 1 : chunks[c] \in IsChunk /\ [chunks[c] EXCEPT !.size = e.samples] \in IsChunk
    BY <2>1, <1>4 DEF IsChunk
  <2> HIDE DEF e
  <2>3. chunks' = [c \in 0 .. Chunks - 1 |->
                     IF c \in e.chunk .. last - 1 THEN [chunks[c] EXCEPT !.size = e.samples] ELSE chunks[c]]
    BY <2>1 DEF e
  <2> QED
    BY <2>2, <2>3
<1>6. TypesKept'
  BY <1>1, <1>2, <1>4, <1>5 DEF TypesKept, Building
<1>7. IndexKept'
  BY <1>1 DEF IndexKept
<1>8. last' = e.chunk /\ entry' = entry - 1 /\ pc' = "stsc"
  OBVIOUS
<1>o. outside' => last > Chunks
  BY Zenon
<1>9. last = IF entry < Len(tab.stsc) THEN tab.stsc[entry + 1].chunk ELSE Chunks
  BY <1>1 DEF CountersKept
<1>10. last <= Chunks \/ Disorder(tab)
  BY <1>1 DEF CountersKept
<1>11. e.chunk <= Chunks \/ Disorder(tab)
  <2>1. CASE e.chunk > last
    BY <1>4, <1>9, <2>1 DEF Disorder, Chunks
  <2>2. CASE e.chunk <= last
    BY <1>3, <1>4, <1>10, <2>2
  <2> QED
    BY <1>4, <2>1, <2>2
<1>12. CountersKept'
  <2>1. entry - 1 < Len(tab.stsc) /\ entry - 1 + 1 = entry
    BY <1>4
  <2>2. movie' = movie /\ track' = track
    OBVIOUS
  <2>3. entry' <= Len(tab.stsc) /\ e.chunk = tab.stsc[entry' + 1].chunk
    BY <1>4, <1>8, <2>1
  <2> HIDE DEF e, MapChunks
  <2> QED
    BY <1>4, <1>8, <1>11, <2>1, <2>2, <2>3 DEF CountersKept, tab, Chunks
<1>13. InBounds'
  <2>1. outside' => Disorder(tab)
    BY <1>3, <1>4, <1>o, <1>10
  <2> QED
    BY <1>2, <2>1 DEF InBounds, Disorder, tab
<1> QED
  BY <1>6, <1>7, <1>12, <1>13 DEF LoopInv

\* The fields of an array, and arrays that differ in one of them.
LEMMA ArrayIs ==
    ASSUME NEW a, IsArray(a)
    PROVE  /\ a.size \in Nat /\ a.kind \in {"vide", "soun"} /\ a.timescale \in Nat \ {0}
           /\ a.bytes \in [0 .. a.size -> Nat] /\ a.pts \in [0 .. a.size -> Nat]
           /\ a.cto \in [0 .. a.size -> Int] /\ a.pos \in [0 .. a.size -> Nat]
           /\ a.sync \in [0 .. a.size -> BOOLEAN]
BY DEF IsArray, Samples

SameBut(a, b) ==
    /\ b.size = a.size /\ b.kind = a.kind /\ b.timescale = a.timescale /\ b.bytes = a.bytes

LEMMA ArrayPts ==
    ASSUME NEW a, IsArray(a), NEW f \in [0 .. a.size -> Nat], NEW b, b = [a EXCEPT !.pts = f]
    PROVE  IsArray(b) /\ SameBut(a, b) /\ b.pts = f /\ b.cto = a.cto /\ b.pos = a.pos /\ b.sync = a.sync
BY DEF IsArray, Samples, SameBut

LEMMA ArrayCto ==
    ASSUME NEW a, IsArray(a), NEW f \in [0 .. a.size -> Int], NEW b, b = [a EXCEPT !.cto = f]
    PROVE  IsArray(b) /\ SameBut(a, b) /\ b.cto = f /\ b.pts = a.pts /\ b.pos = a.pos /\ b.sync = a.sync
BY DEF IsArray, Samples, SameBut

LEMMA ArrayPos ==
    ASSUME NEW a, IsArray(a), NEW f \in [0 .. a.size -> Nat], NEW b, b = [a EXCEPT !.pos = f]
    PROVE  IsArray(b) /\ SameBut(a, b) /\ b.pos = f /\ b.pts = a.pts /\ b.cto = a.cto /\ b.sync = a.sync
BY DEF IsArray, Samples, SameBut

LEMMA ArraySync ==
    ASSUME NEW a, IsArray(a), NEW f \in [0 .. a.size -> BOOLEAN], NEW b, b = [a EXCEPT !.sync = f]
    PROVE  IsArray(b) /\ SameBut(a, b) /\ b.sync = f /\ b.pts = a.pts /\ b.cto = a.cto /\ b.pos = a.pos
BY DEF IsArray, Samples, SameBut

\* The samples the chunks have.
LEMMA BeforeIs ==
    ASSUME NEW n \in Nat, chunks \in [0 .. n - 1 -> IsChunk]
    PROVE  \A c \in 0 .. n : SamplesBefore(c) \in Nat
<1> SUFFICES ASSUME NEW c \in 0 .. n PROVE SamplesBefore(c) \in Nat
  OBVIOUS
<1> DEFINE f == [d \in DOMAIN chunks |-> chunks[d].size]
<1>1. c \in Nat /\ \A d \in 0 .. c - 1 : f[d] \in Nat
  BY DEF IsChunk
<1>2. SamplesBefore(c) = SumOf(f, c)
  BY DEF SamplesBefore
<1> HIDE DEF f
<1> QED
  BY <1>1, <1>2, SumType

\* What a track's turn gives: its tables, and that they stay.
LEMMA TurnIs ==
    ASSUME LoopInv, Building, movie' = movie, track' = track
    PROVE  /\ TypesKept /\ IndexKept /\ CountersKept /\ track \in Tracks
           /\ IsTables(tab) /\ Chunks \in Nat /\ Chunks > 0 /\ Len(movie.traks) \in Nat
           /\ tab' = tab /\ Chunks' = Chunks /\ Tracks' = Tracks
           /\ chunks \in [0 .. Chunks - 1 -> IsChunk]
<1>1. TypesKept /\ IndexKept /\ CountersKept
  BY DEF LoopInv
<1>2. track \in Tracks /\ tab.stco # <<>> /\ chunks \in [0 .. Chunks - 1 -> IsChunk]
  BY <1>1 DEF TypesKept
<1>3. IsTables(tab) /\ Chunks \in Nat /\ Chunks > 0 /\ Len(movie.traks) \in Nat
  BY <1>1, <1>2, TabIs
<1>4. tab' = tab /\ Chunks' = Chunks /\ Tracks' = Tracks
  BY DEF tab, Chunks, Tracks
<1> QED
  BY <1>1, <1>2, <1>3, <1>4

LEMMA AllocType ==
    ASSUME LoopInv, AllocSamples
    PROVE  /\ chunks' \in [0 .. Chunks - 1 -> IsChunk]
           /\ \A c \in 0 .. Chunks - 1 : chunks'[c].pos = chunks[c].pos /\ chunks'[c].size = chunks[c].size
           /\ IsArray(samples') /\ samples'.size = SamplesSize
           /\ samples'.kind = tab.kind /\ samples'.timescale = tab.timescale
           /\ \A k \in 0 .. SamplesSize - 1 : samples'.bytes[k] = SampleBytes(k)
           /\ \A k \in 0 .. SamplesSize : samples'.cto[k] = 0
<1> USE DEF AllocSamples
<1>1. /\ IsTables(tab) /\ Chunks \in Nat /\ chunks \in [0 .. Chunks - 1 -> IsChunk]
  BY TurnIs DEF Building
<1>2. \A c \in 0 .. Chunks : SamplesBefore(c) \in Nat
  BY <1>1, BeforeIs
<1>3. /\ chunks' \in [0 .. Chunks - 1 -> IsChunk]
      /\ \A c \in 0 .. Chunks - 1 : chunks'[c].pos = chunks[c].pos /\ chunks'[c].size = chunks[c].size
  <2>1. chunks' = [c \in 0 .. Chunks - 1 |-> [chunks[c] EXCEPT !.sample = SamplesBefore(c)]]
    BY <1>1
  <2>2. \A c \in 0 .. Chunks - 1 : chunks[c] \in IsChunk /\ SamplesBefore(c) \in Nat
    BY <1>1, <1>2
  <2>3. ASSUME NEW c \in 0 .. Chunks - 1, NEW x \in Nat
        PROVE  LET d == [chunks[c] EXCEPT !.sample = x]
               IN  d \in IsChunk /\ d.pos = chunks[c].pos /\ d.size = chunks[c].size
    BY <2>2 DEF IsChunk
  <2>4. ASSUME NEW c \in 0 .. Chunks - 1
        PROVE  chunks'[c] \in IsChunk /\ chunks'[c].pos = chunks[c].pos /\ chunks'[c].size = chunks[c].size
    BY <2>1, <2>2, <2>3
  <2> QED
    BY <2>1, <2>4
<1> DEFINE n == SamplesSize
<1>4. n \in Nat /\ \A k \in 0 .. n - 1 : SampleBytes(k) \in Nat
  <2>1. Len(tab.sizes) \in Nat /\ \A k \in 1 .. Len(tab.sizes) : tab.sizes[k] \in Nat
    BY <1>1, TablesAre
  <2>2. tab.sample_size \in Nat
    BY <1>1 DEF IsTables
  <2>3. SamplesBefore(Chunks) \in Nat
    BY <1>1, <1>2
  <2>4. CASE tab.sample_size = 0
    <3>1. n = Len(tab.sizes) /\ \A k : SampleBytes(k) = tab.sizes[k + 1]
      BY <2>4 DEF SamplesSize, SampleBytes
    <3> HIDE DEF n
    <3>2. \A k \in 0 .. n - 1 : k + 1 \in 1 .. Len(tab.sizes)
      BY <2>1, <3>1
    <3> QED
      BY <2>1, <3>1, <3>2
  <2>5. CASE tab.sample_size # 0
    BY <2>2, <2>3, <2>5 DEF SamplesSize, SampleBytes
  <2> QED
    BY <2>4, <2>5
<1> DEFINE zero == [k \in 0 .. n |-> 0]
           bytes == [k \in 0 .. n |-> IF k < n THEN SampleBytes(k) ELSE 0]
           sync == [k \in 0 .. n |-> FALSE]
<1>5. /\ samples' = [kind |-> tab.kind, timescale |-> tab.timescale, size |-> n, bytes |-> bytes,
                     pts |-> zero, cto |-> zero, pos |-> zero, sync |-> sync]
  OBVIOUS
<1>6. /\ zero \in [0 .. n -> Nat] /\ zero \in [0 .. n -> Int]
      /\ bytes \in [0 .. n -> Nat] /\ sync \in [0 .. n -> BOOLEAN]
  <2>1. zero \in [0 .. n -> Nat] /\ zero \in [0 .. n -> Int]
    OBVIOUS
  <2>2. bytes \in [0 .. n -> Nat]
    <3>1. \A k \in 0 .. n : k < n => k \in 0 .. n - 1
      BY <1>4
    <3> QED
      BY <1>4, <3>1
  <2>3. sync \in [0 .. n -> BOOLEAN]
    BY Zenon
  <2> QED
    BY <2>1, <2>2, <2>3
<1>7. \A k \in 0 .. n - 1 : bytes[k] = SampleBytes(k)
  BY <1>4
<1>8. \A k \in 0 .. n : zero[k] = 0
  OBVIOUS
<1>9. tab.kind \in {"vide", "soun"} /\ tab.timescale \in Nat \ {0}
  BY <1>1 DEF IsTables
<1> HIDE DEF n, zero, bytes, sync, AllocSamples
<1>10. /\ IsArray(samples') /\ samples'.size = n /\ samples'.bytes = bytes /\ samples'.cto = zero
       /\ samples'.kind = tab.kind /\ samples'.timescale = tab.timescale
  BY <1>4, <1>5, <1>6, <1>9 DEF IsArray, Samples
<1> QED
  BY <1>3, <1>7, <1>8, <1>10 DEF n

LEMMA AllocKeeps == ASSUME LoopInv, ~ outside, AllocSamples PROVE LoopInv'
<1>0. /\ pc = "stsc" /\ pc' = "stts" /\ entry' = 1 /\ s' = 0 /\ acc' = 0
      /\ movie' = movie /\ track' = track /\ chunk' = chunk /\ last' = last /\ index' = index
      /\ outside' = outside
  BY DEF AllocSamples
<1>1. /\ TypesKept /\ IndexKept /\ track \in Tracks /\ IsTables(tab) /\ Chunks \in Nat
      /\ tab' = tab /\ Chunks' = Chunks /\ Tracks' = Tracks /\ tab.stco # <<>>
  BY <1>0, TurnIs DEF Building, TypesKept
<1>2. TypesKept'
  BY <1>0, <1>1, AllocType DEF TypesKept, Building
<1>3. IndexKept'
  BY <1>0, <1>1 DEF IndexKept
<1>4. CountersKept'
  <2>1. Counted(tab.stts, 0) = 0 /\ Len(tab.stts) \in Nat
    BY <1>1, TablesCount, CountedIs, TablesAre
  <2> QED
    BY <1>0, <1>1, <2>1 DEF CountersKept
<1>5. InBounds'
  BY <1>0 DEF InBounds
<1> QED
  BY <1>2, <1>3, <1>4, <1>5 DEF LoopInv

LEMMA TimesNat == ASSUME NEW i \in Nat, NEW d \in Nat PROVE i * d \in Nat
OBVIOUS

\* What one entry of stts writes.
LEMMA TimeWrites ==
    ASSUME LoopInv, TimeEntry
    PROVE  LET e == tab.stts[entry]
           IN  /\ IsArray(samples') /\ SameBut(samples, samples')
               /\ samples'.cto = samples.cto /\ samples'.pos = samples.pos
               /\ entry \in 1 .. Len(tab.stts) /\ e.count \in Nat /\ e.duration \in Nat
               /\ s = Counted(tab.stts, entry - 1) /\ s \in Nat /\ acc \in Nat
               /\ s + e.count = Counted(tab.stts, entry) /\ s + e.count <= Total(tab.stts)
               /\ acc + e.count * e.duration \in Nat
               /\ \A k \in 0 .. samples.size :
                    samples'.pts[k] = IF k \in s .. s + e.count - 1
                                      THEN acc + (k - s) * e.duration ELSE samples.pts[k]
<1>0. pc = "stts" /\ entry <= Len(tab.stts) /\ movie' = movie /\ track' = track
  BY DEF TimeEntry
<1>1. TypesKept /\ CountersKept /\ IsTables(tab)
  BY <1>0, TurnIs DEF Building
<1> DEFINE e == tab.stts[entry]
           n == samples.size
<1>2. /\ IsArray(samples) /\ entry \in 1 .. Len(tab.stts) /\ s = Counted(tab.stts, entry - 1)
      /\ s \in Nat /\ acc \in Nat /\ Len(tab.stts) \in Nat
  <2>1. Len(tab.stts) \in Nat
    BY <1>1, TablesAre
  <2> QED
    BY <1>0, <1>1, <2>1 DEF TypesKept, CountersKept
<1>3. e.count \in Nat /\ e.duration \in Nat /\ Counts(tab.stts)
  BY <1>1, <1>2, TablesAre, TablesCount
<1>4. s + e.count = Counted(tab.stts, entry) /\ s + e.count <= Total(tab.stts)
  <2>1. entry \in 0 .. Len(tab.stts) /\ Len(tab.stts) \in 0 .. Len(tab.stts) /\ entry <= Len(tab.stts)
    BY <1>2
  <2> QED
    BY <1>2, <1>3, <2>1, CountedIs DEF Total
<1>5. n \in Nat /\ samples.pts \in [0 .. n -> Nat]
  BY <1>2, ArrayIs
<1>b. PICK b : b = s + e.count
  OBVIOUS
<1> DEFINE f == [k \in 0 .. n |-> IF k \in s .. b - 1 THEN acc + (k - s) * e.duration
                                                      ELSE samples.pts[k]]
<1>6. samples' = [samples EXCEPT !.pts = f]
  <2>1. DOMAIN samples.pts = 0 .. n
    BY <1>5
  <2>2. samples' = [samples EXCEPT !.pts = Fill(samples.pts, s, b, LAMBDA k : acc + (k - s) * e.duration)]
    BY <1>b DEF TimeEntry
  <2>3. Fill(samples.pts, s, b, LAMBDA k : acc + (k - s) * e.duration) = f
    BY <2>1 DEF Fill
  <2> QED
    BY <2>2, <2>3
<1>7. f \in [0 .. n -> Nat]
  <2>1. ASSUME NEW k \in 0 .. n PROVE f[k] \in Nat
    <3>1. CASE k \in s .. b - 1
      <4>1. k - s \in Nat
        BY <1>2, <1>3, <1>b, <3>1
      <4>2. (k - s) * e.duration \in Nat
        BY <1>3, <4>1, TimesNat
      <4>3. f[k] = acc + (k - s) * e.duration
        BY <3>1
      <4> HIDE DEF f
      <4> QED
        BY <1>2, <4>2, <4>3
    <3>2. CASE ~ (k \in s .. b - 1)
      BY <1>5, <3>2
    <3> QED
      BY <3>1, <3>2
  <2>2. f = [k \in 0 .. n |-> f[k]]
    OBVIOUS
  <2> HIDE DEF f
  <2> QED
    BY <2>1, <2>2
<1>8. \A k \in 0 .. n : f[k] = IF k \in s .. b - 1 THEN acc + (k - s) * e.duration ELSE samples.pts[k]
  OBVIOUS
<1>9. acc + e.count * e.duration \in Nat
  <2>1. e.count * e.duration \in Nat
    BY <1>3, TimesNat
  <2> QED
    BY <1>2, <2>1
<1> HIDE DEF f
<1>10. /\ IsArray(samples') /\ SameBut(samples, samples') /\ samples'.pts = f
       /\ samples'.cto = samples.cto /\ samples'.pos = samples.pos
  BY <1>2, <1>6, <1>7, ArrayPts DEF n
<1> QED
  BY <1>2, <1>3, <1>4, <1>8, <1>9, <1>10, <1>b

LEMMA TimeKeeps == ASSUME LoopInv, ~ outside, TimeEntry PROVE LoopInv'
<1> DEFINE e == tab.stts[entry]
<1>0. /\ pc = "stts" /\ pc' = "stts" /\ entry' = entry + 1 /\ s' = s + e.count
      /\ acc' = acc + e.count * e.duration
      /\ movie' = movie /\ track' = track /\ chunk' = chunk /\ last' = last /\ index' = index
      /\ chunks' = chunks
  BY DEF TimeEntry
<1>o. outside' => s' > samples.size + 1
  <2>1. outside' = (s' > samples.size + 1)
    BY DEF TimeEntry
  <2> QED
    BY <2>1, Zenon
<1>1. /\ TypesKept /\ IndexKept /\ track \in Tracks /\ IsTables(tab) /\ Chunks \in Nat
      /\ tab' = tab /\ Chunks' = Chunks /\ Tracks' = Tracks /\ tab.stco # <<>>
      /\ chunks \in [0 .. Chunks - 1 -> IsChunk]
  BY <1>0, TurnIs DEF Building, TypesKept
<1>2. /\ IsArray(samples') /\ SameBut(samples, samples') /\ s \in Nat
      /\ entry \in 1 .. Len(tab.stts) /\ e.count \in Nat
      /\ s + e.count = Counted(tab.stts, entry) /\ s + e.count <= Total(tab.stts)
      /\ acc + e.count * e.duration \in Nat
  BY TimeWrites
<1>3. samples.kind = tab.kind /\ samples.timescale = tab.timescale /\ IsArray(samples) /\ samples.size \in Nat
  BY <1>0, <1>1 DEF TypesKept, IsArray
<1>l. Len(tab.stts) \in Nat
  BY <1>1, TablesAre
<1> HIDE DEF e
<1>4. TypesKept'
  BY <1>0, <1>o, <1>1, <1>2, <1>3, <1>l DEF TypesKept, Building, SameBut
<1>5. IndexKept'
  BY <1>0, <1>1 DEF IndexKept
<1>6. CountersKept'
  <2>1. entry + 1 \in 1 .. Len(tab.stts) + 1 /\ entry + 1 - 1 = entry
    BY <1>2, <1>l
  <2> QED
    BY <1>0, <1>1, <1>2, <2>1 DEF CountersKept
<1>7. InBounds'
  <2>1. outside' => Total(tab.stts) > samples'.size
    <3>1. Total(tab.stts) \in Nat
      BY <1>1, DurationsAre
    <3> QED
      BY <1>0, <1>o, <1>2, <1>3, <3>1 DEF SameBut
  <2> QED
    BY <1>0, <1>1, <2>1 DEF InBounds, tab
<1> QED
  BY <1>4, <1>5, <1>6, <1>7 DEF LoopInv

LEMMA EndTimesWrites ==
    ASSUME LoopInv, EndTimes
    PROVE  /\ IsArray(samples') /\ SameBut(samples, samples')
           /\ samples'.cto = samples.cto /\ samples'.pos = samples.pos
           /\ s = Total(tab.stts) /\ Len(tab.stts) \in Nat /\ entry = Len(tab.stts) + 1
           /\ \A k \in 0 .. samples.size :
                samples'.pts[k] = IF k = s THEN acc ELSE samples.pts[k]
<1>0. pc = "stts" /\ entry > Len(tab.stts) /\ movie' = movie /\ track' = track
  BY DEF EndTimes
<1>1. TypesKept /\ CountersKept /\ IsTables(tab)
  BY <1>0, TurnIs DEF Building
<1> DEFINE n == samples.size
<1>2. /\ IsArray(samples) /\ s \in Nat /\ acc \in Nat
      /\ s = Total(tab.stts) /\ Len(tab.stts) \in Nat /\ entry = Len(tab.stts) + 1
  <2>1. Len(tab.stts) \in Nat
    BY <1>1, TablesAre
  <2>2. entry \in 1 .. Len(tab.stts) + 1 /\ s = Counted(tab.stts, entry - 1)
    BY <1>0, <1>1 DEF CountersKept
  <2>3. entry = Len(tab.stts) + 1 /\ entry - 1 = Len(tab.stts)
    BY <1>0, <2>1, <2>2
  <2> QED
    BY <1>0, <1>1, <2>1, <2>2, <2>3 DEF TypesKept, Total
<1>3. n \in Nat /\ samples.pts \in [0 .. n -> Nat]
  BY <1>2, ArrayIs
<1>b. PICK b : b = s + 1
  OBVIOUS
<1> DEFINE f == [k \in 0 .. n |-> IF k \in s .. b - 1 THEN acc ELSE samples.pts[k]]
<1>4. samples' = [samples EXCEPT !.pts = f]
  <2>1. DOMAIN samples.pts = 0 .. n
    BY <1>3
  <2>2. samples' = [samples EXCEPT !.pts = Fill(samples.pts, s, b, LAMBDA k : acc)]
    BY <1>b DEF EndTimes
  <2>3. Fill(samples.pts, s, b, LAMBDA k : acc) = f
    BY <2>1 DEF Fill
  <2> QED
    BY <2>2, <2>3
<1>5. f \in [0 .. n -> Nat] /\ \A k \in 0 .. n : f[k] = IF k = s THEN acc ELSE samples.pts[k]
  BY <1>2, <1>3, <1>b
<1> HIDE DEF f
<1>6. /\ IsArray(samples') /\ SameBut(samples, samples') /\ samples'.pts = f
      /\ samples'.cto = samples.cto /\ samples'.pos = samples.pos
  BY <1>2, <1>4, <1>5, ArrayPts DEF n
<1> QED
  BY <1>2, <1>5, <1>6

\* A step that writes the arrays of the track keeps the types.
LEMMA StepTypes ==
    ASSUME LoopInv, Building, pc' \in {"stts", "ctts", "pos"},
           movie' = movie, track' = track, index' = index,
           chunks' \in [0 .. Chunks - 1 -> IsChunk],
           entry' \in Nat, chunk' \in Nat, s' \in Nat, last' \in Nat, acc' \in Int,
           pc' # "ctts" => acc' \in Nat,
           IsArray(samples'), samples'.kind = tab.kind, samples'.timescale = tab.timescale
    PROVE  TypesKept' /\ IndexKept'
<1>1. /\ TypesKept /\ IndexKept /\ track \in Tracks
      /\ tab' = tab /\ Chunks' = Chunks /\ Tracks' = Tracks /\ tab.stco # <<>>
  BY TurnIs DEF TypesKept
<1>2. TypesKept'
  BY <1>1 DEF TypesKept, Building
<1>3. IndexKept'
  BY <1>1 DEF IndexKept, Building
<1> QED
  BY <1>2, <1>3

\* The arrays of the track before a step that writes them.
LEMMA ArraysBefore ==
    ASSUME LoopInv, pc \in {"stts", "ctts", "pos"}
    PROVE  /\ IsArray(samples) /\ samples.kind = tab.kind /\ samples.timescale = tab.timescale
           /\ samples.size \in Nat /\ chunks \in [0 .. Chunks - 1 -> IsChunk]
           /\ entry \in Nat /\ chunk \in Nat /\ s \in Nat /\ last \in Nat /\ acc \in Int
           /\ pc # "ctts" => acc \in Nat
           /\ track \in Tracks /\ tab.stco # <<>> /\ IsTables(tab) /\ Chunks \in Nat /\ Chunks > 0
<1>1. TypesKept
  BY DEF LoopInv
<1> QED
  BY <1>1, TabIs DEF TypesKept, Building, IsArray

LEMMA EndTimesKeeps == ASSUME LoopInv, ~ outside, EndTimes PROVE LoopInv'
<1>0. /\ pc = "stts" /\ pc' = "ctts" /\ entry' = 1 /\ s' = 0 /\ acc' = 0
      /\ movie' = movie /\ track' = track /\ chunk' = chunk /\ last' = last /\ index' = index
      /\ chunks' = chunks
  BY DEF EndTimes
<1>o. outside' => s > samples.size
  <2>1. outside' = (s > samples.size)
    BY DEF EndTimes
  <2> QED
    BY <2>1, Zenon
<1>1. /\ IsArray(samples') /\ SameBut(samples, samples') /\ s = Total(tab.stts)
  BY EndTimesWrites
<1>2. /\ IsArray(samples) /\ samples.kind = tab.kind /\ samples.timescale = tab.timescale
      /\ chunks \in [0 .. Chunks - 1 -> IsChunk] /\ IsTables(tab)
      /\ chunk \in Nat /\ last \in Nat /\ samples.size \in Nat
  BY <1>0, ArraysBefore
<1>3. TypesKept' /\ IndexKept'
  BY <1>0, <1>1, <1>2, StepTypes DEF Building, SameBut
<1>4. tab' = tab /\ Len(tab.ctts) \in Nat
  BY <1>0, <1>2, TablesAre DEF tab
<1>5. CountersKept'
  BY <1>0, <1>1, <1>2, <1>4 DEF CountersKept, SameBut
<1>6. InBounds'
  BY <1>0, <1>o, <1>1, <1>4 DEF InBounds, tab, SameBut
<1> QED
  BY <1>3, <1>5, <1>6 DEF LoopInv

LEMMA StopIs ==
    ASSUME NEW e, e.count \in Nat, s \in Nat, samples.size \in Nat, s <= samples.size
    PROVE  /\ OffsetStop(e) \in s .. samples.size
           /\ s + e.count <= samples.size => OffsetStop(e) = s + e.count
<1> DEFINE a == s + e.count
           b == samples.size
           S == {a, b}
           m == IF a <= b THEN a ELSE b
<1>1. a \in Nat /\ b \in Nat /\ m \in Nat
  OBVIOUS
<1> HIDE DEF a, b
<1>2. m \in S /\ \A y \in S : m <= y
  BY <1>1
<1>3. ASSUME NEW x \in S, \A y \in S : x <= y PROVE x = m
  <2>1. x <= m /\ m <= x /\ x \in Nat
    BY <1>1, <1>2, <1>3
  <2> QED
    BY <1>1, <2>1
<1>4. Min(S) = m
  <2> HIDE DEF S, m
  <2> QED
    BY <1>2, <1>3 DEF Min
<1>5. OffsetStop(e) = m
  BY <1>4 DEF OffsetStop, a, b
<1> QED
  BY <1>1, <1>5 DEF a, b

LEMMA OffsetWrites ==
    ASSUME LoopInv, OffsetEntry
    PROVE  LET e == tab.ctts[entry]
           IN  /\ IsArray(samples') /\ SameBut(samples, samples')
               /\ samples'.pts = samples.pts /\ samples'.pos = samples.pos
               /\ entry \in 1 .. Len(tab.ctts) /\ e.count \in Nat /\ e.offset \in Int
               /\ s \in 0 .. samples.size /\ OffsetStop(e) \in s .. samples.size
               /\ s + e.count <= samples.size => OffsetStop(e) = s + e.count
               /\ \A k \in 0 .. samples.size :
                    samples'.cto[k] = IF k \in s .. OffsetStop(e) - 1 THEN e.offset ELSE samples.cto[k]
<1>0. pc = "ctts" /\ entry <= Len(tab.ctts)
  BY DEF OffsetEntry
<1>1. IsArray(samples) /\ samples.size \in Nat /\ s \in Nat /\ IsTables(tab) /\ entry \in Nat
  BY <1>0, ArraysBefore
<1> DEFINE e == tab.ctts[entry]
           n == samples.size
<1>2. entry \in 1 .. Len(tab.ctts) /\ s \in 0 .. n
  <2>1. Len(tab.ctts) \in Nat
    BY <1>1, TablesAre
  <2> QED
    BY <1>0, <1>1, <2>1 DEF LoopInv, CountersKept
<1>3. e.count \in Nat /\ e.offset \in Int
  BY <1>1, <1>2, TablesAre
<1>4. OffsetStop(e) \in s .. n /\ (s + e.count <= n => OffsetStop(e) = s + e.count)
  BY <1>1, <1>2, <1>3, StopIs
<1>5. samples.cto \in [0 .. n -> Int]
  BY <1>1, ArrayIs
<1>b. PICK b : b = OffsetStop(e)
  OBVIOUS
<1> DEFINE f == [k \in 0 .. n |-> IF k \in s .. b - 1 THEN e.offset ELSE samples.cto[k]]
<1>6. samples' = [samples EXCEPT !.cto = f]
  <2>1. DOMAIN samples.cto = 0 .. n
    BY <1>5
  <2>2. samples' = [samples EXCEPT !.cto = Fill(samples.cto, s, b, LAMBDA k : e.offset)]
    BY <1>b DEF OffsetEntry
  <2>3. Fill(samples.cto, s, b, LAMBDA k : e.offset) = f
    BY <2>1 DEF Fill
  <2> QED
    BY <2>2, <2>3
<1>7. f \in [0 .. n -> Int] /\ \A k \in 0 .. n : f[k] = IF k \in s .. b - 1 THEN e.offset ELSE samples.cto[k]
  BY <1>3, <1>5
<1> HIDE DEF f
<1>8. /\ IsArray(samples') /\ SameBut(samples, samples') /\ samples'.cto = f
      /\ samples'.pts = samples.pts /\ samples'.pos = samples.pos
  BY <1>1, <1>6, <1>7, ArrayCto DEF n
<1> QED
  BY <1>2, <1>3, <1>4, <1>b, <1>7, <1>8

LEMMA OffsetKeeps == ASSUME LoopInv, ~ outside, OffsetEntry PROVE LoopInv'
<1> DEFINE e == tab.ctts[entry]
<1>0. /\ pc = "ctts" /\ pc' = "ctts" /\ entry' = entry + 1 /\ s' = OffsetStop(e) /\ acc' = e.offset
      /\ movie' = movie /\ track' = track /\ chunk' = chunk /\ last' = last /\ index' = index
      /\ chunks' = chunks
  BY DEF OffsetEntry
<1>o. outside' => s' > samples.size + 1
  <2>1. outside' = (s' > samples.size + 1)
    BY DEF OffsetEntry
  <2> QED
    BY <2>1, Zenon
<1>1. /\ IsArray(samples') /\ SameBut(samples, samples')
      /\ entry \in 1 .. Len(tab.ctts) /\ e.offset \in Int
      /\ s \in 0 .. samples.size /\ OffsetStop(e) \in s .. samples.size
  BY OffsetWrites
<1>2. /\ IsArray(samples) /\ samples.kind = tab.kind /\ samples.timescale = tab.timescale
      /\ chunks \in [0 .. Chunks - 1 -> IsChunk] /\ IsTables(tab)
      /\ chunk \in Nat /\ last \in Nat /\ samples.size \in Nat
  BY <1>0, ArraysBefore
<1> HIDE DEF e
<1>3. TypesKept' /\ IndexKept'
  <2>1. entry' \in Nat /\ s' \in Nat
    BY <1>0, <1>1, <1>2
  <2> QED
    BY <1>0, <1>1, <1>2, <2>1, StepTypes DEF Building, SameBut
<1>4. tab' = tab /\ Len(tab.ctts) \in Nat
  BY <1>0, <1>2, TablesAre DEF tab
<1>5. CountersKept'
  BY <1>0, <1>1, <1>2, <1>4 DEF CountersKept, SameBut
<1>6. InBounds'
  <2>1. ~ outside'
    BY <1>0, <1>o, <1>1, <1>2
  <2> QED
    BY <2>1 DEF InBounds
<1> QED
  BY <1>3, <1>5, <1>6 DEF LoopInv

LEMMA EndOffsetsWrites ==
    ASSUME LoopInv, EndOffsets
    PROVE  /\ IsArray(samples') /\ SameBut(samples, samples')
           /\ samples'.pts = samples.pts /\ samples'.pos = samples.pos
           /\ s \in 0 .. samples.size /\ entry = Len(tab.ctts) + 1
           /\ \A k \in 0 .. samples.size :
                samples'.cto[k] = IF k = s THEN acc ELSE samples.cto[k]
<1>0. pc = "ctts" /\ entry > Len(tab.ctts)
  BY DEF EndOffsets
<1>1. IsArray(samples) /\ samples.size \in Nat /\ s \in Nat /\ IsTables(tab) /\ acc \in Int
  BY <1>0, ArraysBefore
<1> DEFINE n == samples.size
<1>2. entry = Len(tab.ctts) + 1 /\ s \in 0 .. n
  <2>1. Len(tab.ctts) \in Nat
    BY <1>1, TablesAre
  <2> QED
    BY <1>0, <1>1, <2>1 DEF LoopInv, CountersKept
<1>3. samples.cto \in [0 .. n -> Int]
  BY <1>1, ArrayIs
<1>b. PICK b : b = s + 1
  OBVIOUS
<1> DEFINE f == [k \in 0 .. n |-> IF k \in s .. b - 1 THEN acc ELSE samples.cto[k]]
<1>4. samples' = [samples EXCEPT !.cto = f]
  <2>1. DOMAIN samples.cto = 0 .. n
    BY <1>3
  <2>2. samples' = [samples EXCEPT !.cto = Fill(samples.cto, s, b, LAMBDA k : acc)]
    BY <1>b DEF EndOffsets
  <2>3. Fill(samples.cto, s, b, LAMBDA k : acc) = f
    BY <2>1 DEF Fill
  <2> QED
    BY <2>2, <2>3
<1>5. f \in [0 .. n -> Int] /\ \A k \in 0 .. n : f[k] = IF k = s THEN acc ELSE samples.cto[k]
  BY <1>1, <1>3, <1>b
<1> HIDE DEF f
<1>6. /\ IsArray(samples') /\ SameBut(samples, samples') /\ samples'.cto = f
      /\ samples'.pts = samples.pts /\ samples'.pos = samples.pos
  BY <1>1, <1>4, <1>5, ArrayCto DEF n
<1> QED
  BY <1>2, <1>5, <1>6

LEMMA EndOffsetsKeeps == ASSUME LoopInv, ~ outside, EndOffsets PROVE LoopInv'
<1>0. /\ pc = "ctts" /\ pc' = "pos" /\ chunk' = 0 /\ entry' = 0 /\ s' = 0 /\ acc' = chunks[0].pos
      /\ movie' = movie /\ track' = track /\ last' = last /\ index' = index /\ chunks' = chunks
  BY DEF EndOffsets
<1>o. outside' => s > samples.size
  <2>1. outside' = (s > samples.size)
    BY DEF EndOffsets
  <2> QED
    BY <2>1, Zenon
<1>1. /\ IsArray(samples') /\ SameBut(samples, samples') /\ s \in 0 .. samples.size
  BY EndOffsetsWrites
<1>2. /\ IsArray(samples) /\ samples.kind = tab.kind /\ samples.timescale = tab.timescale
      /\ chunks \in [0 .. Chunks - 1 -> IsChunk] /\ IsTables(tab) /\ Chunks \in Nat /\ Chunks > 0
      /\ last \in Nat /\ samples.size \in Nat
  BY <1>0, ArraysBefore
<1>3. acc' \in Nat
  <2>1. 0 \in 0 .. Chunks - 1
    BY <1>2
  <2>2. chunks[0] \in IsChunk
    BY <1>2, <2>1
  <2> QED
    BY <1>0, <2>2 DEF IsChunk
<1>4. TypesKept' /\ IndexKept'
  BY <1>0, <1>1, <1>2, <1>3, StepTypes DEF Building, SameBut
<1>5. Chunks' = Chunks
  BY <1>0 DEF tab, Chunks
<1>6. CountersKept'
  BY <1>0, <1>1, <1>2, <1>5 DEF CountersKept, SameBut
<1>7. InBounds'
  <2>1. ~ outside'
    BY <1>o, <1>1, <1>2
  <2> QED
    BY <2>1 DEF InBounds
<1> QED
  BY <1>4, <1>6, <1>7 DEF LoopInv

LEMMA PlaceWrites ==
    ASSUME LoopInv, PlaceSample
    PROVE  /\ IsArray(samples') /\ SameBut(samples, samples')
           /\ samples'.pts = samples.pts /\ samples'.cto = samples.cto
           /\ s \in 0 .. samples.size - 1 /\ samples.bytes[s] \in Nat /\ acc \in Nat
           /\ \A k \in 0 .. samples.size :
                samples'.pos[k] = IF k = s THEN acc ELSE samples.pos[k]
<1>0. pc = "pos" /\ s < samples.size
  BY DEF PlaceSample
<1>1. IsArray(samples) /\ samples.size \in Nat /\ s \in Nat /\ acc \in Nat
  BY <1>0, ArraysBefore
<1> DEFINE n == samples.size
           f == [samples.pos EXCEPT ![s] = acc]
<1>2. samples.pos \in [0 .. n -> Nat] /\ samples.bytes \in [0 .. n -> Nat] /\ s \in 0 .. n
  BY <1>0, <1>1, ArrayIs
<1>3. samples' = [samples EXCEPT !.pos = f]
  BY DEF PlaceSample
<1>4. f \in [0 .. n -> Nat] /\ \A k \in 0 .. n : f[k] = IF k = s THEN acc ELSE samples.pos[k]
  BY <1>1, <1>2
<1> HIDE DEF f
<1>5. /\ IsArray(samples') /\ SameBut(samples, samples') /\ samples'.pos = f
      /\ samples'.pts = samples.pts /\ samples'.cto = samples.cto
  BY <1>1, <1>3, <1>4, ArrayPos DEF n
<1> QED
  BY <1>0, <1>1, <1>2, <1>4, <1>5

LEMMA PlaceKeeps == ASSUME LoopInv, ~ outside, PlaceSample PROVE LoopInv'
<1>0. /\ pc = "pos" /\ pc' = "pos" /\ chunk < Chunks /\ entry' = entry + 1 /\ s' = s + 1
      /\ acc' = acc + samples.bytes[s]
      /\ movie' = movie /\ track' = track /\ last' = last /\ index' = index /\ chunks' = chunks
      /\ chunk' = chunk /\ outside' = outside
  BY DEF PlaceSample
<1>1. /\ IsArray(samples') /\ SameBut(samples, samples') /\ s \in 0 .. samples.size - 1
      /\ samples.bytes[s] \in Nat /\ acc \in Nat
  BY PlaceWrites
<1>2. /\ IsArray(samples) /\ samples.kind = tab.kind /\ samples.timescale = tab.timescale
      /\ chunks \in [0 .. Chunks - 1 -> IsChunk] /\ IsTables(tab) /\ Chunks \in Nat
      /\ last \in Nat /\ samples.size \in Nat /\ entry \in Nat /\ chunk \in Nat
  BY <1>0, ArraysBefore
<1>3. TypesKept' /\ IndexKept'
  <2>1. entry' \in Nat
    BY <1>0, <1>2
  <2>2. s \in Nat /\ s' \in Nat
    BY <1>0, <1>1, <1>2
  <2>3. acc' \in Nat
    <3>1. PICK b \in Nat : b = samples.bytes[s]
      BY <1>1
    <3>2. acc' = acc + b
      BY <1>0, <3>1
    <3> QED
      BY <1>1, <3>2
  <2> QED
    BY <1>0, <1>1, <1>2, <2>1, <2>2, <2>3, StepTypes DEF Building, SameBut
<1>4. Chunks' = Chunks
  BY <1>0 DEF tab, Chunks
<1>5. CountersKept'
  BY <1>0, <1>1, <1>2, <1>4 DEF CountersKept, SameBut
<1>6. InBounds'
  BY <1>0 DEF InBounds
<1> QED
  BY <1>3, <1>5, <1>6 DEF LoopInv

LEMMA NextChunkKeeps == ASSUME LoopInv, ~ outside, NextChunk PROVE LoopInv'
<1>0. /\ pc = "pos" /\ pc' = "pos" /\ chunk < Chunks /\ entry' = 0 /\ s' = s /\ chunk' = chunk + 1
      /\ acc' = IF chunk + 1 < Chunks THEN chunks[chunk + 1].pos ELSE acc
      /\ movie' = movie /\ track' = track /\ last' = last /\ index' = index /\ chunks' = chunks
      /\ samples' = samples /\ outside' = outside
  BY DEF NextChunk
<1>2. /\ IsArray(samples) /\ samples.kind = tab.kind /\ samples.timescale = tab.timescale
      /\ chunks \in [0 .. Chunks - 1 -> IsChunk] /\ IsTables(tab) /\ Chunks \in Nat
      /\ last \in Nat /\ samples.size \in Nat /\ chunk \in Nat /\ acc \in Nat /\ s \in Nat
  BY <1>0, ArraysBefore
<1>3. acc' \in Nat
  <2>1. CASE chunk + 1 < Chunks
    <3>1. chunk + 1 \in 0 .. Chunks - 1
      BY <1>2, <2>1
    <3>2. chunks[chunk + 1] \in IsChunk
      BY <1>2, <3>1
    <3> QED
      BY <1>0, <2>1, <3>2 DEF IsChunk
  <2>2. CASE ~ (chunk + 1 < Chunks)
    BY <1>0, <1>2, <2>2
  <2> QED
    BY <2>1, <2>2
<1>4. TypesKept' /\ IndexKept'
  <2>1. chunk' \in Nat
    BY <1>0, <1>2
  <2> QED
    BY <1>0, <1>2, <1>3, <2>1, StepTypes DEF Building
<1>5. Chunks' = Chunks
  BY <1>0 DEF tab, Chunks
<1>6. CountersKept'
  <2>1. s <= samples.size
    BY <1>0 DEF LoopInv, CountersKept
  <2> QED
    BY <1>0, <1>2, <1>5, <2>1 DEF CountersKept
<1>7. InBounds'
  BY <1>0 DEF InBounds
<1> QED
  BY <1>4, <1>6, <1>7 DEF LoopInv

LEMMA ArraysAre == ASSUME NEW a PROVE a \in Arrays <=> IsArray(a)
<1>1. ASSUME a \in Arrays PROVE IsArray(a)
  <2>1. PICK n \in Nat : a \in Samples(n)
    BY <1>1 DEF Arrays
  <2>2. a.size = n
    BY <2>1 DEF Samples
  <2> QED
    BY <2>1, <2>2 DEF IsArray
<1>2. ASSUME IsArray(a) PROVE a \in Arrays
  BY <1>2 DEF IsArray, Arrays
<1> QED
  BY <1>1, <1>2

\* The end of a track: the array that is left.
LEMMA EndTrakWrites ==
    ASSUME LoopInv, EndTrak
    PROVE  \E a : /\ IsArray(a) /\ SameBut(samples, a)
                  /\ a.pts = samples.pts /\ a.cto = samples.cto
                  /\ s \in 0 .. samples.size
                  /\ \A k \in 0 .. samples.size : a.pos[k] = IF k = s THEN acc ELSE samples.pos[k]
                  /\ a.sync = Marked
                  /\ index' = Append(index, a)
<1>0. pc = "pos"
  BY DEF EndTrak
<1>1. IsArray(samples) /\ samples.size \in Nat /\ s \in Nat /\ acc \in Nat
  BY <1>0, ArraysBefore
<1> DEFINE n == samples.size
           f == [samples.pos EXCEPT ![s] = acc]
           b == [samples EXCEPT !.pos = f]
           a == [b EXCEPT !.sync = Marked]
<1>2. s \in 0 .. n
  BY <1>0, <1>1 DEF LoopInv, CountersKept
<1>3. samples.pos \in [0 .. n -> Nat]
  BY <1>1, ArrayIs
<1>4. f \in [0 .. n -> Nat] /\ \A k \in 0 .. n : f[k] = IF k = s THEN acc ELSE samples.pos[k]
  BY <1>1, <1>2, <1>3
<1>5. Marked \in [0 .. n -> BOOLEAN]
  BY Zenon DEF Marked, Numbers
<1>6. index' = Append(index, a)
  <2>1. index' = Append(index, [samples EXCEPT !.pos[s] = acc, !.sync = Marked])
    BY DEF EndTrak
  <2>2. [samples EXCEPT !.pos[s] = acc, !.sync = Marked] = a
    <3> HIDE DEF Marked
    <3>1. samples \in Samples(n)
      BY <1>1 DEF IsArray
    <3> QED
      BY <3>1 DEF Samples
  <2> QED
    BY <2>1, <2>2
<1> HIDE DEF f
<1>7. /\ IsArray(b) /\ SameBut(samples, b) /\ b.pos = f /\ b.pts = samples.pts /\ b.cto = samples.cto
  BY <1>1, <1>4, ArrayPos DEF n
<1> HIDE DEF b
<1>8. b.size = n
  BY <1>7 DEF SameBut
<1>9. /\ IsArray(a) /\ SameBut(b, a) /\ a.sync = Marked /\ a.pts = b.pts /\ a.cto = b.cto /\ a.pos = b.pos
  BY <1>5, <1>7, <1>8, ArraySync
<1> HIDE DEF a
<1>10. SameBut(samples, a)
  BY <1>7, <1>9 DEF SameBut
<1> QED
  BY <1>2, <1>4, <1>6, <1>7, <1>9, <1>10

LEMMA EndTrakKeeps == ASSUME LoopInv, ~ outside, EndTrak PROVE LoopInv'
<1>0. /\ pc = "pos" /\ pc' = "trak" /\ chunk = Chunks /\ entry' = 0 /\ s' = 0 /\ acc' = 0
      /\ track' = track + 1
      /\ movie' = movie /\ last' = last /\ chunks' = chunks /\ samples' = samples /\ chunk' = chunk
  BY DEF EndTrak
<1>o. outside' => \E n \in 1 .. Len(tab.stss) : tab.stss[n] \notin 1 .. samples.size + 1
  <2>1. outside' = (\E n \in 1 .. Len(tab.stss) : tab.stss[n] \notin 1 .. samples.size + 1)
    BY DEF EndTrak
  <2> QED
    BY <2>1, Zenon
<1>1. PICK a : /\ IsArray(a) /\ SameBut(samples, a) /\ index' = Append(index, a)
  BY EndTrakWrites
<1>2. /\ TypesKept /\ IndexKept /\ IsArray(samples)
      /\ samples.kind = tab.kind /\ samples.timescale = tab.timescale
      /\ track \in Tracks /\ Len(movie.traks) \in Nat
  BY <1>0, ArraysBefore, TabIs DEF LoopInv
<1>3. TypesKept'
  BY <1>0, <1>2 DEF TypesKept, Building, Tracks
<1>4. IndexKept'
  <2>1. index \in Seq(Arrays) /\ Len(index) = track - 1 /\ track \in Nat
    BY <1>0, <1>2 DEF IndexKept, Tracks
  <2>2. a \in Arrays
    BY <1>1, ArraysAre
  <2>3. /\ index' \in Seq(Arrays) /\ Len(index') = track /\ index'[track] = a
        /\ \A k \in 1 .. track - 1 : index'[k] = index[k]
    BY <1>1, <2>1, <2>2
  <2>4. a.kind = movie.traks[track].kind /\ a.timescale = movie.traks[track].timescale
    BY <1>1, <1>2 DEF SameBut, tab
  <2>5. ASSUME NEW k \in 1 .. track
        PROVE  index'[k].kind = movie.traks[k].kind /\ index'[k].timescale = movie.traks[k].timescale
    <3>1. CASE k = track
      BY <2>3, <2>4, <3>1
    <3>2. CASE k \in 1 .. track - 1
      BY <1>2, <2>1, <2>3, <3>2 DEF IndexKept
    <3> QED
      BY <2>1, <3>1, <3>2
  <2>6. track' - 1 = track
    BY <1>0, <2>1
  <2> QED
    BY <1>0, <2>3, <2>5, <2>6 DEF IndexKept
<1>5. CountersKept'
  BY <1>0 DEF CountersKept
<1>6. InBounds'
  <2>1. track' - 1 = track
    BY <1>0, <1>2 DEF Tracks
  <2> QED
    BY <1>0, <1>o, <2>1 DEF InBounds, tab
<1> QED
  BY <1>3, <1>4, <1>5, <1>6 DEF LoopInv

\* The array whose marks are set, and the others.
LEMMA MarksKept ==
    ASSUME IndexKept, pc = "copy", pc' = pc, movie' = movie, track \in 1 .. Len(movie.traks),
           Len(movie.traks) \in Nat,
           NEW f \in [0 .. index[track].size -> BOOLEAN],
           index' = [index EXCEPT ![track] = [index[track] EXCEPT !.sync = f]]
    PROVE  /\ IndexKept'
           /\ IsArray(index'[track]) /\ SameBut(index[track], index'[track])
           /\ index'[track].pts = index[track].pts /\ index'[track].cto = index[track].cto
           /\ index'[track].pos = index[track].pos /\ index'[track].sync = f
           /\ \A k \in 1 .. Len(index) : k # track => index'[k] = index[k]
           /\ Len(index') = Len(index) /\ Len(index) = Len(movie.traks)
<1> DEFINE a == [index[track] EXCEPT !.sync = f]
<1>1. index \in Seq(Arrays) /\ Len(index) = Len(movie.traks) /\ index[track] \in Arrays
  BY DEF IndexKept
<1>2. IsArray(index[track])
  BY <1>1, ArraysAre
<1>3. /\ IsArray(a) /\ SameBut(index[track], a) /\ a.pts = index[track].pts
      /\ a.cto = index[track].cto /\ a.pos = index[track].pos /\ a.sync = f
  BY <1>2, ArraySync
<1> HIDE DEF a
<1>4. a \in Arrays
  BY <1>3, ArraysAre
<1>5. index' = [index EXCEPT ![track] = a]
  BY DEF a
<1>6. /\ index' \in Seq(Arrays) /\ Len(index') = Len(index) /\ index'[track] = a
      /\ \A k \in 1 .. Len(index) : k # track => index'[k] = index[k]
  BY <1>1, <1>4, <1>5
<1>7. IndexKept'
  BY <1>1, <1>3, <1>6 DEF IndexKept, SameBut
<1> QED
  BY <1>1, <1>3, <1>6, <1>7

\* AudioAt, as a place in the array of the audio.
LEMMA AudioAtIs ==
    ASSUME NEW audio, audio = index[track], IsArray(audio), entry \in Nat
    PROVE  LET time == Rescale(index[video].pts[s], tab.timescale, movie.traks[video].timescale)
           IN  /\ AudioAt \in 0 .. audio.size
               /\ AudioAt < audio.size => AudioAt >= entry /\ audio.pts[AudioAt] >= time
               /\ \A a \in entry .. audio.size - 1 : a < AudioAt => ~ (audio.pts[a] >= time)
<1> DEFINE time == Rescale(index[video].pts[s], tab.timescale, movie.traks[video].timescale)
           n == audio.size
           S == {n} \cup {a \in entry .. n - 1 : audio.pts[a] >= time}
<1>1. n \in Nat /\ S \in SUBSET Nat /\ n \in S
  BY ArrayIs
<1>2. AudioAt = Min(S)
  BY DEF AudioAt
<1>3. PICK m \in S : \A k \in S : m <= k
  <2> HIDE DEF S
  <2> QED
    BY <1>1, LeastNumber
<1>4. Min(S) = m
  <2>1. ASSUME NEW x \in S, \A y \in S : x <= y PROVE x = m
    <3>1. x <= m /\ m <= x /\ x \in Nat /\ m \in Nat
      BY <1>1, <1>3, <2>1
    <3> QED
      BY <3>1
  <2> HIDE DEF S
  <2> QED
    BY <1>3, <2>1 DEF Min
<1>5. m \in 0 .. n /\ (m < n => m >= entry /\ audio.pts[m] >= time)
  <2> HIDE DEF time
  <2> QED
    BY <1>1
<1>6. \A a \in entry .. n - 1 : a < m => ~ (audio.pts[a] >= time)
  <2> SUFFICES ASSUME NEW a \in entry .. n - 1, a < m, audio.pts[a] >= time PROVE FALSE
    OBVIOUS
  <2>1. a \in S
    OBVIOUS
  <2> HIDE DEF S, time
  <2>2. m <= a /\ m \in Nat /\ a \in Nat
    BY <1>1, <1>3, <2>1
  <2> QED
    BY <2>2
<1> HIDE DEF S, time
<1> QED
  BY <1>2, <1>4, <1>5, <1>6 DEF time

\* What one step of the copy leaves of the index.
LEMMA CopyIndex ==
    ASSUME LoopInv, CopyMark, index[video].sync[s]
    PROVE  \E f \in [0 .. index[track].size -> BOOLEAN] :
             /\ index' = [index EXCEPT ![track] = [index[track] EXCEPT !.sync = f]]
             /\ \A a \in 0 .. index[track].size : f[a] <=> index[track].sync[a] \/ a = AudioAt
<1>1. IndexKept /\ pc = "copy" /\ track \in 1 .. Len(movie.traks)
  BY DEF LoopInv, CopyMark, Tracks
<1>2. IsArray(index[track])
  BY <1>1, ArraysAre DEF IndexKept
<1> DEFINE n == index[track].size
           f == [a \in 0 .. n |-> index[track].sync[a] \/ a = AudioAt]
<1>3. DOMAIN index[track].sync = 0 .. n
  BY <1>2, ArrayIs
<1>4. index' = [index EXCEPT ![track] = [index[track] EXCEPT !.sync = f]]
  <2>1. index' = [index EXCEPT ![track].sync = [a \in DOMAIN @ |-> @[a] \/ a = AudioAt]]
    BY DEF CopyMark
  <2> QED
    BY <1>3, <2>1
<1>5. f \in [0 .. n -> BOOLEAN] /\ \A a \in 0 .. n : f[a] <=> index[track].sync[a] \/ a = AudioAt
  BY Zenon
<1> HIDE DEF f
<1> QED
  BY <1>4, <1>5

LEMMA EvenIndex ==
    ASSUME LoopInv, EvenMark, index[track].pts[s] >= acc
    PROVE  \E f \in [0 .. index[track].size -> BOOLEAN] :
             /\ index' = [index EXCEPT ![track] = [index[track] EXCEPT !.sync = f]]
             /\ \A a \in 0 .. index[track].size : f[a] <=> index[track].sync[a] \/ a = s
<1>1. IndexKept /\ pc = "copy" /\ track \in 1 .. Len(movie.traks) /\ s \in Nat /\ s < index[track].size
  BY DEF LoopInv, EvenMark, Tracks, TypesKept
<1>2. IsArray(index[track])
  BY <1>1, ArraysAre DEF IndexKept
<1> DEFINE n == index[track].size
           f == [index[track].sync EXCEPT ![s] = TRUE]
<1>3. index[track].sync \in [0 .. n -> BOOLEAN] /\ n \in Nat /\ s \in 0 .. n
  BY <1>1, <1>2, ArrayIs
<1>4. index' = [index EXCEPT ![track] = [index[track] EXCEPT !.sync = f]]
  BY DEF EvenMark
<1>5. f \in [0 .. n -> BOOLEAN] /\ \A a \in 0 .. n : f[a] <=> index[track].sync[a] \/ a = s
  BY <1>3
<1> HIDE DEF f
<1> QED
  BY <1>4, <1>5

LEMMA CopyKeeps ==
    ASSUME LoopInv, ~ outside,
           TraksIndexed \/ SkipTrak \/ CopyMark \/ EvenMark \/ TrakMarked \/ MoovIndexed
    PROVE  LoopInv'
<1>1. TypesKept /\ IndexKept /\ Len(movie.traks) \in Nat /\ track \in Nat
  BY IndexAssumption DEF LoopInv, TypesKept
<1>2. CASE TraksIndexed
  <2> USE <1>2 DEF TraksIndexed
  <2>1. TypesKept'
    BY <1>1 DEF TypesKept, Building
  <2>2. IndexKept'
    <3>1. track - 1 = Len(movie.traks)
      BY <1>1 DEF TypesKept, Tracks
    <3> QED
      BY <1>1, <3>1 DEF IndexKept
  <2> QED
    BY <2>1, <2>2 DEF LoopInv, CountersKept, InBounds
<1>3. CASE SkipTrak \/ TrakMarked
  <2> USE <1>3 DEF SkipTrak, TrakMarked, NextTrak
  <2>1. TypesKept'
    BY <1>1 DEF TypesKept, Building, Tracks
  <2>2. IndexKept'
    BY <1>1 DEF IndexKept
  <2> QED
    BY <2>1, <2>2 DEF LoopInv, CountersKept, InBounds
<1>4. CASE MoovIndexed
  <2> USE <1>4 DEF MoovIndexed
  <2>1. TypesKept'
    BY <1>1 DEF TypesKept, Building
  <2>2. IndexKept'
    BY <1>1 DEF IndexKept
  <2> QED
    BY <2>1, <2>2 DEF LoopInv, CountersKept, InBounds
<1>5. CASE CopyMark
  <2>0. /\ pc = "copy" /\ pc' = "copy" /\ movie' = movie /\ track' = track /\ chunk' = chunk
        /\ acc' = acc /\ last' = last /\ outside' = outside /\ s' = s + 1 /\ track \in 1 .. Len(movie.traks)
    BY <1>5 DEF CopyMark, Tracks
  <2>1. entry' \in Nat /\ IndexKept'
    <3>1. CASE index[video].sync[s]
      <4>1. entry' = AudioAt
        BY <1>5, <3>1 DEF CopyMark
      <4>2. IsArray(index[track])
        BY <1>1, <2>0, ArraysAre DEF IndexKept
      <4>3. AudioAt \in 0 .. index[track].size /\ index[track].size \in Nat
        BY <1>1, <4>2, AudioAtIs, ArrayIs DEF TypesKept
      <4>4. PICK f \in [0 .. index[track].size -> BOOLEAN] :
              index' = [index EXCEPT ![track] = [index[track] EXCEPT !.sync = f]]
        BY <1>5, <3>1, CopyIndex
      <4>5. IndexKept'
        BY <1>1, <2>0, <4>4, MarksKept
      <4> QED
        BY <4>1, <4>3, <4>5
    <3>2. CASE ~ index[video].sync[s]
      <4>1. entry' = entry /\ index' = index
        BY <1>5, <3>2 DEF CopyMark
      <4> QED
        BY <1>1, <2>0, <4>1 DEF IndexKept, TypesKept
    <3> QED
      BY <3>1, <3>2
  <2>2. TypesKept'
    BY <1>1, <2>0, <2>1 DEF TypesKept, Building
  <2> QED
    BY <2>0, <2>1, <2>2 DEF LoopInv, CountersKept, InBounds
<1>6. CASE EvenMark
  <2>0. /\ pc = "copy" /\ pc' = "copy" /\ movie' = movie /\ track' = track /\ chunk' = chunk
        /\ entry' = entry /\ last' = last /\ outside' = outside /\ s' = s + 1 /\ track \in 1 .. Len(movie.traks)
    BY <1>6 DEF EvenMark, Tracks
  <2>1. acc' \in Nat /\ IndexKept'
    <3>1. CASE index[track].pts[s] >= acc
      <4>1. acc' = acc + 2 * tab.timescale
        BY <1>6, <3>1 DEF EvenMark
      <4>2. tab.timescale \in Nat /\ acc \in Nat
        BY <1>1, <2>0, TabIs DEF TypesKept, IsTables, Tracks
      <4>3. PICK f \in [0 .. index[track].size -> BOOLEAN] :
              index' = [index EXCEPT ![track] = [index[track] EXCEPT !.sync = f]]
        BY <1>6, <3>1, EvenIndex
      <4>4. IndexKept'
        BY <1>1, <2>0, <4>3, MarksKept
      <4> QED
        BY <4>1, <4>2, <4>4
    <3>2. CASE ~ (index[track].pts[s] >= acc)
      <4>1. acc' = acc /\ index' = index
        BY <1>6, <3>2 DEF EvenMark
      <4> QED
        BY <1>1, <2>0, <4>1 DEF IndexKept, TypesKept
    <3> QED
      BY <3>1, <3>2
  <2>2. TypesKept'
    BY <1>1, <2>0, <2>1 DEF TypesKept, Building
  <2> QED
    BY <2>0, <2>1, <2>2 DEF LoopInv, CountersKept, InBounds
<1> QED
  BY <1>2, <1>3, <1>4, <1>5, <1>6

LEMMA LoopsStep == LoopInv /\ [Next]_vars => LoopInv'
<1> SUFFICES ASSUME LoopInv, [Next]_vars PROVE LoopInv'
  OBVIOUS
<1>1. CASE Next
  <2>1. ~ outside
    BY <1>1 DEF Next
  <2>2. \/ NoChunks \/ BeginTrak \/ MapChunks \/ AllocSamples
        \/ TimeEntry \/ EndTimes \/ OffsetEntry \/ EndOffsets
        \/ PlaceSample \/ NextChunk \/ EndTrak
        \/ TraksIndexed \/ SkipTrak \/ CopyMark \/ EvenMark \/ TrakMarked \/ MoovIndexed
    BY <1>1 DEF Next
  <2> QED
    BY <2>1, <2>2, BeginKeeps, MapKeeps, AllocKeeps, TimeKeeps, EndTimesKeeps, OffsetKeeps,
       EndOffsetsKeeps, PlaceKeeps, NextChunkKeeps, EndTrakKeeps, CopyKeeps
<1>2. CASE UNCHANGED vars
  <2> USE <1>2 DEF vars
  <2>1. TypesKept'
    BY DEF LoopInv, TypesKept, Building, tab, Tracks, Chunks
  <2>2. IndexKept'
    BY DEF LoopInv, IndexKept
  <2>3. CountersKept' /\ InBounds'
    BY DEF LoopInv, CountersKept, InBounds, tab, Chunks, Disorder
  <2> QED
    BY <2>1, <2>2, <2>3 DEF LoopInv
<1> QED
  BY <1>1, <1>2

LEMMA LoopsHold == Spec => []LoopInv
BY LoopsBegin, LoopsStep, PTL DEF Spec

\* trak_build_index and copy_sync_samples_to_audio_track write and read within the
\* arrays they allocate, whatever the tables count, as long as stts and stss do not
\* count more samples than there are and the entries of stsc are in order.
THEOREM ArraysKept == Spec => []InBounds
<1>1. LoopInv => InBounds
  BY DEF LoopInv
<1> QED
  BY <1>1, LoopsHold, PTL

-------------------------------------------------------------------------------
(* What the loops write is what the tables say. *)

\* Of an array, the first n samples: times, offsets and places.
Timed(a, t, n) == \A j \in 0 .. n - 1 : a.pts[j] = TimeOf(t, j)
Shifted(a, t, n) == \A j \in 0 .. n - 1 : a.cto[j] = OffsetOf(t, j)
Placed(a, t, n) == \A j \in 0 .. n - 1 : a.pos[j] = Place(t, ChunkOf(t, j), j)
Sized(a, t) == a.size = SizeOf(t) /\ \A j \in 0 .. a.size - 1 : a.bytes[j] = BytesOf(t, j)
Unshifted(a) == \A j \in 0 .. a.size : a.cto[j] = 0

\* The chunks from first on.
ChunksFrom(array, t, first) ==
    \A c \in 0 .. Len(t.stco) - 1 : c >= first => array[c].size = ChunkSize(t, c)
ChunksAt(array, t) == \A c \in 0 .. Len(t.stco) - 1 : array[c].pos = t.stco[c + 1]

\* Behind the samples of the entries of ctts that are done.
ShiftedTo(a, t, e, at, left) ==
    IF t.ctts = <<>> THEN at = 0 /\ left = 0 /\ Unshifted(a)
    ELSE at = Counted(t.ctts, e - 1) /\ Shifted(a, t, at)

\* In chunk c, behind n of its samples.
PlacedTo(a, t, c, n, at, place) ==
    /\ Placed(a, t, at)
    /\ IF c < Len(t.stco)
       THEN n <= ChunkSize(t, c) /\ at = ChunkStart(t, c) + n /\ place = Place(t, c, at)
       ELSE at = a.size /\ place = Place(t, Len(t.stco) - 1, at)

DataKept ==
    Building /\ Agree(tab) =>
        /\ ChunksAt(chunks, tab)
        /\ pc = "stsc" => ChunksFrom(chunks, tab, last)
        /\ pc # "stsc" => ChunksFrom(chunks, tab, 0) /\ Sized(samples, tab)
        /\ pc = "stts" => acc = TimeOf(tab, s) /\ Timed(samples, tab, s) /\ Unshifted(samples)
        /\ pc \in {"ctts", "pos"} => Timed(samples, tab, samples.size + 1)
        /\ pc = "ctts" => ShiftedTo(samples, tab, entry, s, acc)
        /\ pc = "pos" => /\ Shifted(samples, tab, samples.size)
                         /\ PlacedTo(samples, tab, chunk, entry, s, acc)

LEMMA AgreeIs ==
    ASSUME NEW t, IsTables(t), Agree(t)
    PROVE  /\ ChunksMapped(t) /\ SizeOf(t) \in Nat
           /\ ChunkStart(t, Len(t.stco)) = SizeOf(t) /\ Total(t.stts) = SizeOf(t)
           /\ t.ctts # <<>> => Total(t.ctts) = SizeOf(t)
           /\ Len(t.stco) \in Nat /\ Len(t.stco) > 0
           /\ \A c \in 0 .. Len(t.stco) - 1 : t.stco[c + 1] \in Nat
<1>1. ChunksMapped(t) /\ t.stco # <<>> /\ t.stco \in Seq(Nat)
  BY DEF Agree, ChunksMapped, IsTables
<1>2. Len(t.stco) \in Nat /\ Len(t.stco) > 0
  BY <1>1
<1>3. \A c \in 0 .. Len(t.stco) - 1 : t.stco[c + 1] \in Nat
  BY <1>1
<1> QED
  BY <1>1, <1>2, <1>3, BytesAre DEF Agree

LEMMA BeginData == ASSUME LoopInv, BeginTrak PROVE DataKept'
<1>1. track \in Tracks /\ pc' = "stsc" /\ tab' = tab /\ last' = Len(tab.stco)
  BY DEF BeginTrak, tab, Chunks
<1>2. IsTables(tab)
  BY <1>1, TabIs DEF LoopInv
<1>3. ChunksAt(chunks', tab)
  <2>1. PICK left \in [0 .. Chunks - 1 -> Garbage] :
          chunks' = [c \in 0 .. Chunks - 1 |->
                       [pos |-> tab.stco[c + 1], size |-> left[c], sample |-> 0]]
    BY DEF BeginTrak
  <2> QED
    BY <2>1 DEF ChunksAt, Chunks
<1>4. ChunksFrom(chunks', tab, last')
  <2>1. Len(tab.stco) \in Nat
    BY <1>2, TablesAre
  <2> QED
    BY <1>1, <2>1 DEF ChunksFrom
<1> QED
  BY <1>1, <1>3, <1>4 DEF DataKept

LEMMA MapData == ASSUME LoopInv, DataKept, MapChunks PROVE DataKept'
<1> DEFINE e == tab.stsc[entry]
<1>0. /\ pc = "stsc" /\ pc' = "stsc" /\ movie' = movie /\ track' = track
      /\ entry > 0 /\ last' = e.chunk
  BY DEF MapChunks
<1>1. /\ TypesKept /\ CountersKept /\ IsTables(tab) /\ tab' = tab /\ Chunks \in Nat
      /\ chunks \in [0 .. Chunks - 1 -> IsChunk] /\ Chunks = Len(tab.stco)
  BY <1>0, TurnIs DEF Building, Chunks
<1>2. /\ entry \in 1 .. Len(tab.stsc) /\ Len(tab.stsc) \in Nat
      /\ e.chunk \in Nat /\ e.samples \in Nat /\ last \in Nat
      /\ entry < Len(tab.stsc) => last = tab.stsc[entry + 1].chunk
  BY <1>0, <1>1, TablesAre DEF TypesKept, CountersKept
<1> SUFFICES ASSUME Agree(tab) PROVE ChunksAt(chunks', tab) /\ ChunksFrom(chunks', tab, last')
  BY <1>0, <1>1 DEF DataKept
<1>3. ChunksAt(chunks, tab) /\ ChunksFrom(chunks, tab, last) /\ ChunksMapped(tab)
  BY <1>0, <1>1, AgreeIs DEF DataKept, Building
<1>4. \A c \in 0 .. Chunks - 1 :
         /\ chunks'[c].pos = chunks[c].pos
         /\ chunks'[c].size = IF c \in e.chunk .. last - 1 THEN e.samples ELSE chunks[c].size
  <2> SUFFICES ASSUME NEW c \in 0 .. Chunks - 1
               PROVE  /\ chunks'[c].pos = chunks[c].pos
                      /\ chunks'[c].size = IF c \in e.chunk .. last - 1 THEN e.samples ELSE chunks[c].size
    OBVIOUS
  <2>1. chunks[c] \in IsChunk
    BY <1>1
  <2>2. chunks' = [d \in DOMAIN chunks |->
                     IF d \in e.chunk .. last - 1 THEN [chunks[d] EXCEPT !.size = e.samples] ELSE chunks[d]]
    BY DEF MapChunks
  <2>3. chunks'[c] = IF c \in e.chunk .. last - 1 THEN [chunks[c] EXCEPT !.size = e.samples] ELSE chunks[c]
    BY <1>1, <2>2
  <2> QED
    BY <2>1, <2>3 DEF IsChunk
<1>5. ChunksAt(chunks', tab)
  BY <1>1, <1>3, <1>4 DEF ChunksAt
<1>6. ASSUME NEW c \in 0 .. Chunks - 1, c >= e.chunk
      PROVE  chunks'[c].size = ChunkSize(tab, c)
  <2>1. CASE c \in e.chunk .. last - 1
    <3>1. InRun(tab, entry, c) /\ c \in Nat
      BY <1>1, <1>2, <1>6, <2>1 DEF InRun
    <3>2. ChunkSize(tab, c) = e.samples
      BY <1>1, <1>2, <1>3, <3>1, ChunkSizeIs
    <3> QED
      BY <1>4, <2>1, <3>2
  <2>2. CASE ~ (c \in e.chunk .. last - 1)
    <3>1. c >= last
      BY <1>1, <1>2, <1>6, <2>2
    <3> QED
      BY <1>1, <1>3, <1>4, <2>2, <3>1 DEF ChunksFrom
  <2> QED
    BY <2>1, <2>2
<1> QED
  BY <1>0, <1>1, <1>5, <1>6 DEF ChunksFrom

LEMMA AllocData == ASSUME LoopInv, DataKept, AllocSamples PROVE DataKept'
<1>0. /\ pc = "stsc" /\ pc' = "stts" /\ entry = 0 /\ s' = 0 /\ acc' = 0
      /\ movie' = movie /\ track' = track
  BY DEF AllocSamples
<1>1. /\ TypesKept /\ CountersKept /\ IsTables(tab) /\ tab' = tab /\ Chunks \in Nat
      /\ chunks \in [0 .. Chunks - 1 -> IsChunk] /\ Chunks = Len(tab.stco)
  BY <1>0, TurnIs DEF Building, Chunks
<1> SUFFICES ASSUME Agree(tab)
             PROVE  /\ ChunksAt(chunks', tab) /\ ChunksFrom(chunks', tab, 0) /\ Sized(samples', tab)
                    /\ acc' = TimeOf(tab, s') /\ Timed(samples', tab, s') /\ Unshifted(samples')
  BY <1>0, <1>1 DEF DataKept
<1>2. ChunksAt(chunks, tab) /\ ChunksFrom(chunks, tab, last) /\ ChunksMapped(tab)
  BY <1>0, <1>1, AgreeIs DEF DataKept, Building
<1>3. last = 0
  <2>1. tab.stsc # <<>> /\ tab.stsc[1].chunk = 0 /\ tab.stsc \in Seq([chunk : Nat, samples : Nat])
    BY <1>1, <1>2 DEF ChunksMapped, IsTables
  <2>2. 0 < Len(tab.stsc)
    BY <2>1
  <2> QED
    BY <1>0, <1>1, <2>1, <2>2 DEF CountersKept
<1>4. \A c \in 0 .. Chunks - 1 : chunks[c].size = ChunkSize(tab, c)
  BY <1>1, <1>2, <1>3 DEF ChunksFrom
<1>5. /\ \A c \in 0 .. Chunks - 1 : chunks'[c].pos = chunks[c].pos /\ chunks'[c].size = chunks[c].size
      /\ samples'.size = SamplesSize
      /\ \A k \in 0 .. SamplesSize - 1 : samples'.bytes[k] = SampleBytes(k)
      /\ \A k \in 0 .. SamplesSize : samples'.cto[k] = 0
  BY AllocType
<1>6. ChunksAt(chunks', tab) /\ ChunksFrom(chunks', tab, 0)
  BY <1>1, <1>2, <1>4, <1>5 DEF ChunksAt, ChunksFrom
<1>7. SamplesBefore(Chunks) = ChunkStart(tab, Chunks)
  <2> DEFINE f == [d \in DOMAIN chunks |-> chunks[d].size]
             g == [d \in 0 .. Chunks - 1 |-> ChunkSize(tab, d)]
  <2>1. SamplesBefore(Chunks) = SumOf(f, Chunks) /\ ChunkStart(tab, Chunks) = SumOf(g, Chunks)
    BY DEF SamplesBefore, ChunkStart
  <2>2. \A c \in 0 .. Chunks - 1 : f[c] = g[c]
    BY <1>1, <1>4
  <2> HIDE DEF f, g
  <2>3. SumOf(f, Chunks) = SumOf(g, Chunks)
    BY <1>1, <2>2, SumEqual
  <2> QED
    BY <2>1, <2>3
<1>8. Sized(samples', tab)
  <2>1. SamplesSize = SizeOf(tab)
    BY <1>1, <1>7 DEF SamplesSize, SizeOf
  <2>2. \A k : SampleBytes(k) = BytesOf(tab, k)
    BY DEF SampleBytes, BytesOf
  <2> QED
    BY <1>5, <2>1, <2>2 DEF Sized
<1>9. acc' = TimeOf(tab, s') /\ Timed(samples', tab, s') /\ Unshifted(samples')
  BY <1>0, <1>1, <1>5, TimesInOrder DEF Timed, Unshifted
<1> QED
  BY <1>6, <1>8, <1>9

\* Writing one field leaves what is said of the others.
LEMMA SizedStays ==
    ASSUME NEW a, NEW b, NEW t, SameBut(a, b), Sized(a, t)
    PROVE  Sized(b, t)
BY DEF SameBut, Sized

LEMMA TimeData == ASSUME LoopInv, DataKept, TimeEntry PROVE DataKept'
<1> DEFINE e == tab.stts[entry]
<1>0. /\ pc = "stts" /\ pc' = "stts" /\ movie' = movie /\ track' = track /\ chunks' = chunks
      /\ s' = s + e.count /\ acc' = acc + e.count * e.duration
  BY DEF TimeEntry
<1>1. IsTables(tab) /\ tab' = tab /\ samples.size \in Nat
  BY <1>0, ArraysBefore DEF tab
<1>2. /\ SameBut(samples, samples') /\ samples'.cto = samples.cto
      /\ entry \in 1 .. Len(tab.stts) /\ e.count \in Nat /\ e.duration \in Nat
      /\ s = Counted(tab.stts, entry - 1) /\ s \in Nat /\ acc \in Nat
      /\ s + e.count <= Total(tab.stts)
      /\ \A k \in 0 .. samples.size :
           samples'.pts[k] = IF k \in s .. s + e.count - 1
                             THEN acc + (k - s) * e.duration ELSE samples.pts[k]
  BY TimeWrites
<1> SUFFICES ASSUME Agree(tab)
             PROVE  /\ ChunksAt(chunks', tab) /\ ChunksFrom(chunks', tab, 0) /\ Sized(samples', tab)
                    /\ acc' = TimeOf(tab, s') /\ Timed(samples', tab, s') /\ Unshifted(samples')
  BY <1>0, <1>1 DEF DataKept
<1>3. /\ ChunksAt(chunks, tab) /\ ChunksFrom(chunks, tab, 0) /\ Sized(samples, tab)
      /\ acc = TimeOf(tab, s) /\ Timed(samples, tab, s) /\ Unshifted(samples)
      /\ Total(tab.stts) = samples.size
  BY <1>0, <1>1, AgreeIs DEF DataKept, Building, Sized
<1>4. ASSUME NEW i \in 0 .. e.count PROVE TimeOf(tab, s + i) = acc + i * e.duration
  <2>1. TimeOf(tab, Counted(tab.stts, entry - 1) + i)
            = TimeOf(tab, Counted(tab.stts, entry - 1)) + i * e.duration
    BY <1>1, <1>2, TimesEven
  <2> QED
    BY <1>2, <1>3, <2>1
<1>5. Timed(samples', tab, s')
  <2> DEFINE b == s + e.count
  <2>1. b \in Nat /\ b <= samples.size
    BY <1>2, <1>3
  <2>2. \A k \in 0 .. samples.size :
           samples'.pts[k] = IF k \in s .. b - 1 THEN acc + (k - s) * e.duration ELSE samples.pts[k]
    BY <1>2
  <2>3. \A i \in 0 .. b - s : TimeOf(tab, s + i) = acc + i * e.duration
    <3>1. b - s = e.count
      BY <1>2
    <3> HIDE DEF e, b
    <3> QED
      BY <1>4, <3>1
  <2>4. s' = b
    BY <1>0
  <2> HIDE DEF b, e
  <2>5. ASSUME NEW j \in 0 .. b - 1 PROVE samples'.pts[j] = TimeOf(tab, j)
    <3>1. j \in 0 .. samples.size
      BY <1>1, <2>1
    <3>2. CASE j < s
      <4>1. samples'.pts[j] = samples.pts[j] /\ j \in 0 .. s - 1
        BY <1>2, <2>2, <3>1, <3>2
      <4> QED
        BY <1>3, <4>1 DEF Timed
    <3>3. CASE ~ (j < s)
      <4>1. j \in s .. b - 1 /\ j - s \in 0 .. b - s /\ s + (j - s) = j
        BY <1>2, <2>1, <3>3
      <4>2. samples'.pts[j] = acc + (j - s) * e.duration
        BY <2>2, <3>1, <4>1
      <4>3. TimeOf(tab, s + (j - s)) = acc + (j - s) * e.duration
        BY <2>3, <4>1
      <4> QED
        BY <4>1, <4>2, <4>3
    <3> QED
      BY <3>2, <3>3
  <2> QED
    BY <2>4, <2>5 DEF Timed
<1>6. acc' = TimeOf(tab, s')
  <2> HIDE DEF e
  <2>1. e.count \in 0 .. e.count
    BY <1>2
  <2>2. TimeOf(tab, s + e.count) = acc + e.count * e.duration
    BY <1>4, <2>1
  <2> QED
    BY <1>0, <2>2
<1>7. Unshifted(samples')
  BY <1>2, <1>3 DEF Unshifted, SameBut
<1>8. Sized(samples', tab)
  BY <1>2, <1>3, SizedStays
<1> QED
  BY <1>0, <1>3, <1>5, <1>6, <1>7, <1>8

LEMMA EndTimesData == ASSUME LoopInv, DataKept, EndTimes PROVE DataKept'
<1>0. /\ pc = "stts" /\ pc' = "ctts" /\ movie' = movie /\ track' = track /\ chunks' = chunks
      /\ s' = 0 /\ acc' = 0 /\ entry' = 1
  BY DEF EndTimes
<1>1. IsTables(tab) /\ tab' = tab /\ samples.size \in Nat
  BY <1>0, ArraysBefore DEF tab
<1>2. /\ SameBut(samples, samples') /\ samples'.cto = samples.cto /\ s = Total(tab.stts)
      /\ \A k \in 0 .. samples.size : samples'.pts[k] = IF k = s THEN acc ELSE samples.pts[k]
  BY EndTimesWrites
<1> SUFFICES ASSUME Agree(tab)
             PROVE  /\ ChunksAt(chunks', tab) /\ ChunksFrom(chunks', tab, 0) /\ Sized(samples', tab)
                    /\ Timed(samples', tab, samples'.size + 1)
                    /\ ShiftedTo(samples', tab, entry', s', acc')
  BY <1>0, <1>1 DEF DataKept
<1>3. /\ ChunksAt(chunks, tab) /\ ChunksFrom(chunks, tab, 0) /\ Sized(samples, tab)
      /\ acc = TimeOf(tab, s) /\ Timed(samples, tab, s) /\ Unshifted(samples)
      /\ Total(tab.stts) = samples.size
  BY <1>0, <1>1, AgreeIs DEF DataKept, Building, Sized
<1>4. Timed(samples', tab, samples'.size + 1)
  <2>1. samples'.size = samples.size
    BY <1>2 DEF SameBut
  <2>2. ASSUME NEW j \in 0 .. samples.size PROVE samples'.pts[j] = TimeOf(tab, j)
    <3>1. CASE j = s
      BY <1>2, <1>3, <3>1
    <3>2. CASE j # s
      <4>1. j \in 0 .. s - 1
        BY <1>1, <1>2, <1>3, <3>2
      <4> QED
        BY <1>2, <1>3, <3>2, <4>1 DEF Timed
    <3> QED
      BY <3>1, <3>2
  <2>3. PICK n : n = samples'.size + 1
    OBVIOUS
  <2>4. n - 1 = samples.size
    BY <1>1, <2>1, <2>3
  <2>5. Timed(samples', tab, n)
    BY <2>2, <2>4 DEF Timed
  <2> QED
    BY <2>3, <2>5
<1>5. ShiftedTo(samples', tab, entry', s', acc')
  <2>1. Unshifted(samples')
    BY <1>2, <1>3 DEF Unshifted, SameBut
  <2>2. Counted(tab.ctts, 0) = 0
    BY <1>1, TablesCount, CountedIs
  <2> QED
    BY <1>0, <2>1, <2>2 DEF ShiftedTo, Shifted
<1> QED
  BY <1>0, <1>2, <1>3, <1>4, <1>5, SizedStays

LEMMA OffsetData == ASSUME LoopInv, DataKept, OffsetEntry PROVE DataKept'
<1> DEFINE e == tab.ctts[entry]
<1>0. /\ pc = "ctts" /\ pc' = "ctts" /\ movie' = movie /\ track' = track /\ chunks' = chunks
      /\ entry' = entry + 1 /\ s' = OffsetStop(e) /\ acc' = e.offset
  BY DEF OffsetEntry
<1>1. IsTables(tab) /\ tab' = tab /\ samples.size \in Nat
  BY <1>0, ArraysBefore DEF tab
<1>2. /\ SameBut(samples, samples') /\ samples'.pts = samples.pts
      /\ entry \in 1 .. Len(tab.ctts) /\ e.count \in Nat
      /\ s \in 0 .. samples.size
      /\ s + e.count <= samples.size => OffsetStop(e) = s + e.count
      /\ \A k \in 0 .. samples.size :
           samples'.cto[k] = IF k \in s .. OffsetStop(e) - 1 THEN e.offset ELSE samples.cto[k]
  BY OffsetWrites
<1> SUFFICES ASSUME Agree(tab)
             PROVE  /\ ChunksAt(chunks', tab) /\ ChunksFrom(chunks', tab, 0) /\ Sized(samples', tab)
                    /\ Timed(samples', tab, samples'.size + 1)
                    /\ ShiftedTo(samples', tab, entry', s', acc')
  BY <1>0, <1>1 DEF DataKept
<1>3. /\ ChunksAt(chunks, tab) /\ ChunksFrom(chunks, tab, 0) /\ Sized(samples, tab)
      /\ Timed(samples, tab, samples.size + 1)
      /\ ShiftedTo(samples, tab, entry, s, acc)
      /\ tab.ctts # <<>> => Total(tab.ctts) = samples.size
  BY <1>0, <1>1, AgreeIs DEF DataKept, Building, Sized
<1>4. tab.ctts # <<>> /\ Counts(tab.ctts) /\ Len(tab.ctts) \in Nat
  BY <1>1, <1>2, TablesCount DEF Counts
<1>5. /\ s = Counted(tab.ctts, entry - 1) /\ Shifted(samples, tab, s)
      /\ s + e.count = Counted(tab.ctts, entry) /\ s + e.count <= samples.size
  <2>1. s = Counted(tab.ctts, entry - 1) /\ Shifted(samples, tab, s)
    BY <1>3, <1>4 DEF ShiftedTo
  <2>2. entry \in 0 .. Len(tab.ctts) /\ Len(tab.ctts) \in 0 .. Len(tab.ctts) /\ entry <= Len(tab.ctts)
    BY <1>2, <1>4
  <2>3. Counted(tab.ctts, entry) = Counted(tab.ctts, entry - 1) + e.count
    BY <1>2, <1>4, CountedIs
  <2>4. Counted(tab.ctts, entry) <= samples.size
    BY <1>3, <1>4, <2>2, CountedIs DEF Total
  <2> QED
    BY <2>1, <2>3, <2>4
<1> HIDE DEF e
<1>b. PICK b \in Nat : b = s + e.count
  BY <1>1, <1>2
<1>6. /\ s' = b /\ b = Counted(tab.ctts, entry) /\ b <= samples.size
      /\ \A k \in 0 .. samples.size :
           samples'.cto[k] = IF k \in s .. b - 1 THEN e.offset ELSE samples.cto[k]
  BY <1>0, <1>2, <1>5, <1>b
<1>7. ASSUME NEW j \in 0 .. b - 1 PROVE samples'.cto[j] = OffsetOf(tab, j)
  <2>1. j \in 0 .. samples.size /\ j \in Nat
    BY <1>1, <1>6
  <2>2. CASE j < s
    <3>1. samples'.cto[j] = samples.cto[j] /\ j \in 0 .. s - 1
      BY <1>1, <1>2, <1>6, <2>1, <2>2
    <3> QED
      BY <1>5, <3>1 DEF Shifted
  <2>3. CASE ~ (j < s)
    <3>1. j \in s .. b - 1 /\ s <= j /\ j < b
      BY <1>1, <1>2, <2>1, <2>3
    <3>2. EntryOf(tab.ctts, j) = entry
      BY <1>2, <1>4, <1>5, <1>6, <2>1, <3>1, EntryIs
    <3>3. samples'.cto[j] = e.offset
      BY <1>6, <2>1, <3>1
    <3> QED
      BY <1>4, <3>2, <3>3 DEF OffsetOf, e
  <2> QED
    BY <2>2, <2>3
<1>8. ShiftedTo(samples', tab, entry', s', acc')
  <2>1. entry' - 1 = entry
    BY <1>0, <1>2, <1>4
  <2>2. Shifted(samples', tab, b)
    BY <1>7 DEF Shifted
  <2> QED
    BY <1>4, <1>6, <2>1, <2>2 DEF ShiftedTo
<1>9. Timed(samples', tab, samples'.size + 1) /\ Sized(samples', tab)
  BY <1>2, <1>3, SizedStays DEF Timed, SameBut
<1> QED
  BY <1>0, <1>3, <1>8, <1>9

LEMMA EndOffsetsData == ASSUME LoopInv, DataKept, EndOffsets PROVE DataKept'
<1>0. /\ pc = "ctts" /\ pc' = "pos" /\ movie' = movie /\ track' = track /\ chunks' = chunks
      /\ chunk' = 0 /\ entry' = 0 /\ s' = 0 /\ acc' = chunks[0].pos
  BY DEF EndOffsets
<1>1. IsTables(tab) /\ tab' = tab /\ samples.size \in Nat
  BY <1>0, ArraysBefore DEF tab
<1>2. /\ SameBut(samples, samples') /\ samples'.pts = samples.pts
      /\ s \in 0 .. samples.size /\ entry = Len(tab.ctts) + 1
      /\ \A k \in 0 .. samples.size : samples'.cto[k] = IF k = s THEN acc ELSE samples.cto[k]
  BY EndOffsetsWrites
<1> SUFFICES ASSUME Agree(tab)
             PROVE  /\ ChunksAt(chunks', tab) /\ ChunksFrom(chunks', tab, 0) /\ Sized(samples', tab)
                    /\ Timed(samples', tab, samples'.size + 1)
                    /\ Shifted(samples', tab, samples'.size)
                    /\ PlacedTo(samples', tab, chunk', entry', s', acc')
  BY <1>0, <1>1 DEF DataKept
<1>3. /\ ChunksAt(chunks, tab) /\ ChunksFrom(chunks, tab, 0) /\ Sized(samples, tab)
      /\ Timed(samples, tab, samples.size + 1)
      /\ ShiftedTo(samples, tab, entry, s, acc)
      /\ tab.ctts # <<>> => Total(tab.ctts) = samples.size
  BY <1>0, <1>1, AgreeIs DEF DataKept, Building, Sized
<1>4. ChunksMapped(tab) /\ Len(tab.stco) \in Nat /\ Len(tab.stco) > 0 /\ Len(tab.ctts) \in Nat
  BY <1>1, AgreeIs, TablesAre
<1>5. ASSUME NEW j \in 0 .. samples.size - 1 PROVE samples'.cto[j] = OffsetOf(tab, j)
  <2>1. j \in 0 .. samples.size /\ samples'.cto[j] = IF j = s THEN acc ELSE samples.cto[j]
    BY <1>1, <1>2
  <2>2. CASE tab.ctts = <<>>
    <3>1. s = 0 /\ acc = 0 /\ samples.cto[j] = 0
      BY <1>3, <2>1, <2>2 DEF ShiftedTo, Unshifted
    <3> QED
      BY <2>1, <2>2, <3>1 DEF OffsetOf
  <2>3. CASE tab.ctts # <<>>
    <3>1. entry - 1 = Len(tab.ctts)
      BY <1>2, <1>4
    <3>2. s = samples.size /\ Shifted(samples, tab, s)
      BY <1>3, <2>3, <3>1 DEF ShiftedTo, Total
    <3>3. j # s /\ j \in 0 .. s - 1
      BY <1>1, <3>2
    <3> QED
      BY <2>1, <3>2, <3>3 DEF Shifted
  <2> QED
    BY <2>2, <2>3
<1>6. Shifted(samples', tab, samples'.size)
  <2>1. samples'.size = samples.size
    BY <1>2 DEF SameBut
  <2> QED
    BY <1>5, <2>1 DEF Shifted
<1>7. PlacedTo(samples', tab, chunk', entry', s', acc')
  <2>1. 0 \in 0 .. Len(tab.stco) - 1
    BY <1>4
  <2>2. ChunkStart(tab, 0) = 0 /\ ChunkSize(tab, 0) \in Nat
    BY <1>1, <1>4, ChunksStart
  <2>3. Place(tab, 0, 0) = tab.stco[0 + 1]
    BY <1>1, <1>4, <2>1, <2>2, PlaceIs
  <2>4. acc' = tab.stco[0 + 1]
    BY <1>0, <1>3, <2>1 DEF ChunksAt
  <2>5. Placed(samples', tab, 0)
    BY DEF Placed
  <2> QED
    BY <1>0, <1>4, <2>2, <2>3, <2>4, <2>5 DEF PlacedTo
<1>8. Timed(samples', tab, samples'.size + 1) /\ Sized(samples', tab)
  BY <1>2, <1>3, SizedStays DEF Timed, SameBut
<1> QED
  BY <1>0, <1>3, <1>6, <1>7, <1>8

LEMMA PlaceData == ASSUME LoopInv, DataKept, PlaceSample PROVE DataKept'
<1>0. /\ pc = "pos" /\ pc' = "pos" /\ movie' = movie /\ track' = track /\ chunks' = chunks
      /\ chunk < Chunks /\ chunk' = chunk /\ entry' = entry + 1 /\ s' = s + 1
      /\ entry < chunks[chunk].size /\ acc' = acc + samples.bytes[s]
  BY DEF PlaceSample
<1>1. IsTables(tab) /\ tab' = tab /\ samples.size \in Nat /\ chunk \in Nat /\ entry \in Nat
  BY <1>0, ArraysBefore DEF tab
<1>2. /\ SameBut(samples, samples') /\ samples'.pts = samples.pts /\ samples'.cto = samples.cto
      /\ s \in 0 .. samples.size - 1 /\ acc \in Nat
      /\ \A k \in 0 .. samples.size : samples'.pos[k] = IF k = s THEN acc ELSE samples.pos[k]
  BY PlaceWrites
<1> SUFFICES ASSUME Agree(tab)
             PROVE  /\ ChunksAt(chunks', tab) /\ ChunksFrom(chunks', tab, 0) /\ Sized(samples', tab)
                    /\ Timed(samples', tab, samples'.size + 1)
                    /\ Shifted(samples', tab, samples'.size)
                    /\ PlacedTo(samples', tab, chunk', entry', s', acc')
  BY <1>0, <1>1 DEF DataKept
<1>3. /\ ChunksAt(chunks, tab) /\ ChunksFrom(chunks, tab, 0) /\ Sized(samples, tab)
      /\ Timed(samples, tab, samples.size + 1)
      /\ Shifted(samples, tab, samples.size)
      /\ PlacedTo(samples, tab, chunk, entry, s, acc)
  BY <1>0 DEF DataKept, Building
<1>4. ChunksMapped(tab) /\ Len(tab.stco) \in Nat
  BY <1>1, AgreeIs
<1>5. /\ chunk \in 0 .. Len(tab.stco) - 1 /\ chunk < Len(tab.stco)
      /\ Placed(samples, tab, s) /\ s = ChunkStart(tab, chunk) + entry /\ acc = Place(tab, chunk, s)
      /\ entry < ChunkSize(tab, chunk)
      /\ ChunkStart(tab, chunk) \in Nat /\ ChunkSize(tab, chunk) \in Nat
      /\ ChunkStart(tab, chunk + 1) = ChunkStart(tab, chunk) + ChunkSize(tab, chunk)
  <2>1. chunk \in 0 .. Len(tab.stco) - 1 /\ chunk < Len(tab.stco)
    BY <1>0, <1>1, <1>4 DEF Chunks
  <2>2. chunks[chunk].size = ChunkSize(tab, chunk)
    BY <1>1, <1>3, <2>1 DEF ChunksFrom
  <2>3. Placed(samples, tab, s) /\ s = ChunkStart(tab, chunk) + entry /\ acc = Place(tab, chunk, s)
    BY <1>3, <2>1 DEF PlacedTo
  <2> QED
    BY <1>0, <1>1, <1>4, <2>1, <2>2, <2>3, ChunksStart
<1>6. ChunkOf(tab, s) = chunk
  <2>1. s \in Nat /\ ChunkStart(tab, chunk) <= s /\ s < ChunkStart(tab, chunk + 1)
    BY <1>1, <1>5
  <2> QED
    BY <1>1, <1>4, <1>5, <2>1, ChunkIs
<1>7. ASSUME NEW j \in 0 .. s PROVE samples'.pos[j] = Place(tab, ChunkOf(tab, j), j)
  <2>1. j \in 0 .. samples.size
    BY <1>1, <1>2
  <2>2. CASE j = s
    BY <1>2, <1>5, <1>6, <2>1, <2>2
  <2>3. CASE j # s
    <3>1. j \in 0 .. s - 1
      BY <1>1, <1>2, <2>3
    <3> QED
      BY <1>2, <1>5, <2>1, <2>3, <3>1 DEF Placed
  <2> QED
    BY <2>2, <2>3
<1>8. acc' = Place(tab, chunk, s + 1)
  <2>1. samples.size = SizeOf(tab) /\ samples.bytes[s] = BytesOf(tab, s)
    BY <1>2, <1>3 DEF Sized
  <2>2. s \in Nat /\ ChunkStart(tab, chunk) <= s /\ s < SizeOf(tab)
    BY <1>1, <1>2, <1>5, <2>1
  <2>3. Place(tab, chunk, s + 1) = Place(tab, chunk, s) + BytesOf(tab, s)
    BY <1>1, <1>4, <1>5, <2>2, PlaceIs
  <2> QED
    BY <1>0, <1>5, <2>1, <2>3
<1>9. PlacedTo(samples', tab, chunk', entry', s', acc')
  <2>1. PICK b \in Nat : b = s + 1
    BY <1>1, <1>2
  <2>2. b - 1 = s /\ b = ChunkStart(tab, chunk) + (entry + 1) /\ entry + 1 <= ChunkSize(tab, chunk)
    BY <1>1, <1>2, <1>5, <2>1
  <2>3. Placed(samples', tab, b)
    BY <1>7, <2>2 DEF Placed
  <2> QED
    BY <1>0, <1>5, <1>8, <2>1, <2>2, <2>3 DEF PlacedTo
<1>10. Timed(samples', tab, samples'.size + 1) /\ Sized(samples', tab) /\ Shifted(samples', tab, samples'.size)
  BY <1>2, <1>3, SizedStays DEF Timed, Shifted, SameBut
<1> QED
  BY <1>0, <1>3, <1>9, <1>10

LEMMA NextChunkData == ASSUME LoopInv, DataKept, NextChunk PROVE DataKept'
<1>0. /\ pc = "pos" /\ pc' = "pos" /\ movie' = movie /\ track' = track /\ chunks' = chunks
      /\ samples' = samples /\ chunk < Chunks /\ chunk' = chunk + 1 /\ entry' = 0 /\ s' = s
      /\ entry = chunks[chunk].size \/ s = samples.size
      /\ acc' = IF chunk + 1 < Chunks THEN chunks[chunk + 1].pos ELSE acc
  BY DEF NextChunk
<1>1. IsTables(tab) /\ tab' = tab /\ samples.size \in Nat /\ chunk \in Nat /\ entry \in Nat
  BY <1>0, ArraysBefore DEF tab
<1> SUFFICES ASSUME Agree(tab)
             PROVE  /\ ChunksAt(chunks, tab) /\ ChunksFrom(chunks, tab, 0) /\ Sized(samples, tab)
                    /\ Timed(samples, tab, samples.size + 1)
                    /\ Shifted(samples, tab, samples.size)
                    /\ PlacedTo(samples, tab, chunk', entry', s', acc')
  BY <1>0, <1>1 DEF DataKept
<1>3. /\ ChunksAt(chunks, tab) /\ ChunksFrom(chunks, tab, 0) /\ Sized(samples, tab)
      /\ Timed(samples, tab, samples.size + 1)
      /\ Shifted(samples, tab, samples.size)
      /\ PlacedTo(samples, tab, chunk, entry, s, acc)
  BY <1>0 DEF DataKept, Building
<1>4. /\ ChunksMapped(tab) /\ Len(tab.stco) \in Nat
      /\ ChunkStart(tab, Len(tab.stco)) = samples.size
  BY <1>1, <1>3, AgreeIs DEF Sized
<1>5. /\ chunk \in 0 .. Len(tab.stco) - 1 /\ chunk < Len(tab.stco)
      /\ Placed(samples, tab, s) /\ s = ChunkStart(tab, chunk) + entry /\ acc = Place(tab, chunk, s)
      /\ entry <= ChunkSize(tab, chunk) /\ chunks[chunk].size = ChunkSize(tab, chunk)
  <2>1. chunk \in 0 .. Len(tab.stco) - 1 /\ chunk < Len(tab.stco)
    BY <1>0, <1>1, <1>4 DEF Chunks
  <2>2. chunks[chunk].size = ChunkSize(tab, chunk)
    BY <1>1, <1>3, <2>1 DEF ChunksFrom
  <2> QED
    BY <1>3, <2>1, <2>2 DEF PlacedTo
<1>6. /\ ChunkStart(tab, chunk) \in Nat /\ ChunkSize(tab, chunk) \in Nat
      /\ ChunkStart(tab, chunk + 1) = ChunkStart(tab, chunk) + ChunkSize(tab, chunk)
      /\ ChunkStart(tab, chunk + 1) <= samples.size
  <2>1. chunk + 1 \in Nat /\ chunk + 1 <= Len(tab.stco)
    BY <1>1, <1>4, <1>5
  <2> QED
    BY <1>1, <1>4, <2>1, ChunksStart
<1>7. s = ChunkStart(tab, chunk + 1)
  <2>1. entry = ChunkSize(tab, chunk)
    BY <1>0, <1>1, <1>5, <1>6
  <2> QED
    BY <1>5, <1>6, <2>1
<1>8. CASE chunk + 1 < Chunks
  <2>1. /\ chunk + 1 \in 0 .. Len(tab.stco) - 1 /\ chunk + 1 < Len(tab.stco)
        /\ chunk + 1 \in Nat
    BY <1>1, <1>4, <1>8 DEF Chunks
  <2>2. acc' = tab.stco[(chunk + 1) + 1]
    BY <1>0, <1>3, <1>8, <2>1 DEF ChunksAt
  <2>3. acc' = Place(tab, chunk + 1, s)
    BY <1>1, <1>4, <1>7, <2>1, <2>2, PlaceIs
  <2>4. ChunkSize(tab, chunk + 1) \in Nat /\ s = ChunkStart(tab, chunk + 1) + 0 /\ s \in Nat
    BY <1>1, <1>4, <1>6, <1>7, <2>1, ChunksStart
  <2>5. PlacedTo(samples, tab, chunk + 1, 0, s, acc')
    BY <1>5, <2>1, <2>3, <2>4 DEF PlacedTo
  <2> QED
    BY <1>0, <1>3, <2>5
<1>9. CASE ~ (chunk + 1 < Chunks)
  <2>1. chunk + 1 = Len(tab.stco) /\ chunk = Len(tab.stco) - 1 /\ ~ (chunk + 1 < Len(tab.stco))
    BY <1>1, <1>4, <1>5, <1>9 DEF Chunks
  <2>2. s = samples.size /\ acc' = Place(tab, Len(tab.stco) - 1, s)
    BY <1>0, <1>4, <1>5, <1>7, <1>9, <2>1
  <2>3. PlacedTo(samples, tab, chunk + 1, 0, s, acc')
    BY <1>5, <2>1, <2>2 DEF PlacedTo
  <2> QED
    BY <1>0, <1>3, <2>3
<1> QED
  BY <1>8, <1>9

-------------------------------------------------------------------------------
(* The samples of the tracks that are done. *)

Built(t, a) ==
    /\ IsTrak(a) /\ Sized(a, t)
    /\ Timed(a, t, a.size + 1) /\ Shifted(a, t, a.size) /\ Placed(a, t, a.size)
    /\ a.pos[a.size] = Place(t, Len(t.stco) - 1, a.size)

\* Only the samples stss names, and the end, have a mark.
AsListed(t, a) ==
    \A j \in 0 .. a.size - 1 : a.sync[j] <=> \E n \in 1 .. Len(t.stss) : t.stss[n] = j + 1

\* The copy has set marks in this track.
Touched(k) ==
    /\ Bare(k) /\ pc \in {"copy", "indexed"}
    /\ k < track \/ (k = track /\ s # 0)

IndexData ==
    \A k \in 1 .. Len(index) :
        Agree(movie.traks[k]) =>
            /\ Built(movie.traks[k], index[k])
            /\ ~ Touched(k) => AsListed(movie.traks[k], index[k])

DataInv == LoopInv /\ DataKept /\ IndexData

\* The track that is left by EndTrak.
LEMMA EndTrakBuilds ==
    ASSUME LoopInv, DataKept, EndTrak, Agree(tab)
    PROVE  \E a : index' = Append(index, a) /\ Built(tab, a) /\ AsListed(tab, a)
<1>0. pc = "pos" /\ chunk = Chunks
  BY DEF EndTrak
<1>1. /\ IsArray(samples) /\ samples.size \in Nat /\ IsTables(tab) /\ track \in Tracks /\ Chunks \in Nat
  BY <1>0, ArraysBefore
<1>2. PICK a : /\ IsArray(a) /\ SameBut(samples, a) /\ a.pts = samples.pts /\ a.cto = samples.cto
               /\ \A k \in 0 .. samples.size : a.pos[k] = IF k = s THEN acc ELSE samples.pos[k]
               /\ a.sync = Marked /\ index' = Append(index, a)
  BY EndTrakWrites
<1>3. /\ Sized(samples, tab) /\ Timed(samples, tab, samples.size + 1)
      /\ Shifted(samples, tab, samples.size) /\ PlacedTo(samples, tab, chunk, entry, s, acc)
  BY <1>0 DEF DataKept, Building
<1>4. s = samples.size /\ acc = Place(tab, Len(tab.stco) - 1, s) /\ Placed(samples, tab, s)
  <2>1. ~ (chunk < Len(tab.stco))
    BY <1>0, <1>1 DEF Chunks
  <2> QED
    BY <1>3, <2>1 DEF PlacedTo
<1>5. a.size = samples.size /\ a.size \in Nat
  BY <1>1, <1>2 DEF SameBut
<1>6. IsTrak(a)
  <2>1. /\ a.timescale \in Nat \ {0} /\ a.pts \in [0 .. a.size -> Nat]
        /\ a.sync \in [0 .. a.size -> BOOLEAN]
    BY <1>2, ArrayIs
  <2>2. {"size", "timescale", "pts", "sync"} \subseteq DOMAIN a
    BY <1>2 DEF IsArray, Samples
  <2>3. a.sync[a.size]
    <3>1. samples.size \in 0 .. samples.size
      BY <1>1
    <3>2. Marked[samples.size]
      BY <3>1, Zenon DEF Marked, Numbers
    <3> QED
      BY <1>2, <1>5, <3>2
  <2>4. ASSUME NEW x \in 0 .. a.size, NEW y \in 0 .. a.size, x <= y PROVE a.pts[x] <= a.pts[y]
    <3>1. Total(tab.stts) = a.size
      BY <1>1, <1>3, <1>5, AgreeIs DEF Sized
    <3>2. TimeOf(tab, x) <= TimeOf(tab, y)
      BY <1>1, <2>4, <3>1, TimesInOrder
    <3>3. \A j \in 0 .. a.size : a.pts[j] = TimeOf(tab, j)
      <4>1. PICK n : n = samples.size + 1
        OBVIOUS
      <4>2. Timed(samples, tab, n) /\ n - 1 = a.size
        BY <1>1, <1>3, <1>5, <4>1
      <4> QED
        BY <1>2, <4>2 DEF Timed
    <3> QED
      BY <3>2, <3>3
  <2> QED
    BY <1>5, <2>1, <2>2, <2>3, <2>4 DEF IsTrak
<1>7. Sized(a, tab)
  BY <1>2, <1>3, SizedStays
<1>8. Timed(a, tab, a.size + 1) /\ Shifted(a, tab, a.size)
  BY <1>2, <1>3, <1>5 DEF Timed, Shifted
<1>9. Placed(a, tab, a.size)
  <2>1. ASSUME NEW j \in 0 .. a.size - 1 PROVE a.pos[j] = samples.pos[j]
    <3>1. j \in 0 .. samples.size /\ j # s
      BY <1>4, <1>5
    <3> QED
      BY <1>2, <3>1
  <2> QED
    BY <1>4, <1>5, <2>1 DEF Placed
<1>10. a.pos[a.size] = Place(tab, Len(tab.stco) - 1, a.size)
  <2>1. a.size \in 0 .. samples.size /\ a.size = s
    BY <1>4, <1>5
  <2> QED
    BY <1>2, <1>4, <2>1
<1>11. AsListed(tab, a)
  <2> SUFFICES ASSUME NEW j \in 0 .. a.size - 1
               PROVE  a.sync[j] <=> \E n \in 1 .. Len(tab.stss) : tab.stss[n] = j + 1
    BY DEF AsListed
  <2>1. j \in 0 .. samples.size /\ j # samples.size
    BY <1>5
  <2>2. Marked[j] <=> (j = samples.size \/ \E n \in 1 .. Len(tab.stss) : tab.stss[n] = j + 1)
    BY <2>1, Zenon DEF Marked, Numbers
  <2> QED
    BY <1>2, <2>1, <2>2
<1> QED
  BY <1>2, <1>6, <1>7, <1>8, <1>9, <1>10, <1>11 DEF Built

\* Of an array that only gets marks the rest stays true.
LEMMA MarksBuilt ==
    ASSUME NEW t, NEW a, NEW b, Built(t, a), IsArray(b), SameBut(a, b),
           b.pts = a.pts, b.cto = a.cto, b.pos = a.pos, a.sync[a.size] => b.sync[b.size]
    PROVE  Built(t, b)
<1>1. b.size = a.size /\ b.timescale = a.timescale /\ Sized(b, t)
  BY SizedStays DEF Built, SameBut
<1>2. b.sync \in [0 .. b.size -> BOOLEAN] /\ {"size", "timescale", "pts", "sync"} \subseteq DOMAIN b
  BY DEF IsArray, Samples
<1>3. IsTrak(b)
  BY <1>1, <1>2 DEF IsTrak, Built
<1> QED
  BY <1>1, <1>3 DEF Built, Timed, Shifted, Placed

\* Steps that leave the index as it is.
LEMMA IndexStays ==
    ASSUME IndexData, movie' = movie, index' = index, \A k \in 1 .. Len(index) : Touched(k) => Touched(k)'
    PROVE  IndexData'
BY DEF IndexData

LEMMA EndTrakIndex == ASSUME DataInv, EndTrak PROVE IndexData'
<1>0. pc = "pos" /\ pc' = "trak" /\ movie' = movie /\ index' = Append(index, index'[Len(index) + 1])
  <2>1. PICK a : index' = Append(index, a)
    BY EndTrakWrites DEF DataInv
  <2>2. index \in Seq(Arrays)
    BY DEF DataInv, LoopInv, IndexKept
  <2> QED
    BY <2>1, <2>2 DEF EndTrak
<1>1. /\ index \in Seq(Arrays) /\ Len(index) = track - 1 /\ track \in Nat /\ tab = movie.traks[track]
  BY <1>0 DEF DataInv, LoopInv, IndexKept, TypesKept, tab
<1>2. \A k : ~ Touched(k) /\ ~ Touched(k)'
  BY <1>0 DEF Touched
<1>3. Len(index') = track /\ \A k \in 1 .. track - 1 : index'[k] = index[k]
  <2>1. PICK a : index' = Append(index, a)
    BY <1>0
  <2> QED
    BY <1>1, <2>1
<1>4. Agree(tab) => Built(tab, index'[track]) /\ AsListed(tab, index'[track])
  <2> SUFFICES ASSUME Agree(tab) PROVE Built(tab, index'[track]) /\ AsListed(tab, index'[track])
    OBVIOUS
  <2>1. PICK a : index' = Append(index, a) /\ Built(tab, a) /\ AsListed(tab, a)
    BY EndTrakBuilds DEF DataInv
  <2>2. index'[track] = a
    BY <1>1, <2>1
  <2> QED
    BY <2>1, <2>2
<1> SUFFICES ASSUME NEW k \in 1 .. track, Agree(movie.traks[k])
             PROVE  Built(movie.traks[k], index'[k]) /\ AsListed(movie.traks[k], index'[k])
  BY <1>0, <1>3 DEF IndexData
<1>5. CASE k = track
  BY <1>1, <1>4, <1>5
<1>6. CASE k # track
  <2>1. k \in 1 .. Len(index) /\ k \in 1 .. track - 1
    BY <1>1, <1>6
  <2>2. Built(movie.traks[k], index[k]) /\ AsListed(movie.traks[k], index[k])
    BY <1>2, <2>1 DEF DataInv, IndexData
  <2> QED
    BY <1>3, <2>1, <2>2
<1> QED
  BY <1>5, <1>6

\* A step of the copy that sets marks in the track whose turn it is.
LEMMA MarkIndex ==
    ASSUME DataInv, pc = "copy", pc' = pc, movie' = movie, track' = track, s' = s + 1,
           track \in Tracks, Copies(track),
           NEW f \in [0 .. index[track].size -> BOOLEAN],
           index' = [index EXCEPT ![track] = [index[track] EXCEPT !.sync = f]],
           \A a \in 0 .. index[track].size : index[track].sync[a] => f[a]
    PROVE  IndexData'
<1>1. IndexKept /\ IndexData /\ Len(movie.traks) \in Nat /\ track \in Nat /\ s \in Nat
  BY IndexAssumption DEF DataInv, LoopInv, TypesKept
<1>2. /\ IsArray(index'[track]) /\ SameBut(index[track], index'[track])
      /\ index'[track].pts = index[track].pts /\ index'[track].cto = index[track].cto
      /\ index'[track].pos = index[track].pos /\ index'[track].sync = f
      /\ \A k \in 1 .. Len(index) : k # track => index'[k] = index[k]
      /\ Len(index') = Len(index) /\ Len(index) = Len(movie.traks)
  BY <1>1, MarksKept DEF Tracks
<1>3. Touched(track)'
  BY <1>1 DEF Touched, Copies, Bare
<1>4. \A k : Touched(k) => Touched(k)'
  BY <1>1 DEF Touched, Bare
<1> SUFFICES ASSUME NEW k \in 1 .. Len(index), Agree(movie.traks[k])
             PROVE  /\ Built(movie.traks[k], index'[k])
                    /\ ~ Touched(k)' => AsListed(movie.traks[k], index'[k])
  BY <1>2 DEF IndexData
<1>5. Built(movie.traks[k], index[k]) /\ (~ Touched(k) => AsListed(movie.traks[k], index[k]))
  BY <1>1 DEF IndexData
<1>6. CASE k = track
  <2>1. index[track].size \in Nat /\ index'[track].size = index[track].size
    BY <1>2, ArrayIs DEF SameBut
  <2>2. index[track].size \in 0 .. index[track].size
    BY <2>1
  <2>3. index[track].sync[index[track].size] => index'[track].sync[index'[track].size]
    BY <1>2, <2>1, <2>2
  <2> QED
    BY <1>2, <1>3, <1>5, <1>6, <2>3, MarksBuilt
<1>7. CASE k # track
  BY <1>2, <1>4, <1>5, <1>7
<1> QED
  BY <1>6, <1>7

LEMMA CopyKeepsIndex ==
    ASSUME DataInv, ~ outside,
           TraksIndexed \/ SkipTrak \/ CopyMark \/ EvenMark \/ TrakMarked \/ MoovIndexed
    PROVE  IndexData'
<1>0. track \in Nat /\ s \in Nat /\ Len(movie.traks) \in Nat
  BY IndexAssumption DEF DataInv, LoopInv, TypesKept
<1>1. CASE TraksIndexed
  <2>1. \A k : ~ Touched(k)
    BY <1>1 DEF Touched, TraksIndexed
  <2> QED
    BY <1>1, <2>1, IndexStays DEF TraksIndexed, DataInv
<1>2. CASE SkipTrak \/ TrakMarked
  <2>1. pc = "copy" /\ pc' = "copy" /\ movie' = movie /\ index' = index /\ track' = track + 1
    BY <1>2 DEF SkipTrak, TrakMarked, NextTrak
  <2>2. \A k \in 1 .. Len(index) : Touched(k) => Touched(k)'
    BY <1>0, <2>1 DEF Touched, Bare
  <2> QED
    BY <2>1, <2>2, IndexStays DEF DataInv
<1>3. CASE MoovIndexed
  <2>1. pc' = "indexed" /\ pc = "copy" /\ movie' = movie /\ index' = index /\ track' = track /\ s' = s
    BY <1>3 DEF MoovIndexed
  <2>2. \A k \in 1 .. Len(index) : Touched(k) => Touched(k)'
    BY <2>1 DEF Touched, Bare
  <2> QED
    BY <2>1, <2>2, IndexStays DEF DataInv
<1>4. CASE CopyMark /\ index[video].sync[s]
  <2>1. PICK f \in [0 .. index[track].size -> BOOLEAN] :
             /\ index' = [index EXCEPT ![track] = [index[track] EXCEPT !.sync = f]]
             /\ \A a \in 0 .. index[track].size : f[a] <=> index[track].sync[a] \/ a = AudioAt
    BY <1>4, CopyIndex DEF DataInv
  <2>2. /\ pc = "copy" /\ pc' = pc /\ movie' = movie /\ track' = track /\ s' = s + 1
        /\ track \in Tracks /\ Copies(track)
    BY <1>4 DEF CopyMark
  <2> QED
    BY <2>1, <2>2, MarkIndex
<1>5. CASE EvenMark /\ index[track].pts[s] >= acc
  <2>1. PICK f \in [0 .. index[track].size -> BOOLEAN] :
             /\ index' = [index EXCEPT ![track] = [index[track] EXCEPT !.sync = f]]
             /\ \A a \in 0 .. index[track].size : f[a] <=> index[track].sync[a] \/ a = s
    BY <1>5, EvenIndex DEF DataInv
  <2>2. /\ pc = "copy" /\ pc' = pc /\ movie' = movie /\ track' = track /\ s' = s + 1
        /\ track \in Tracks /\ Copies(track)
    BY <1>5 DEF EvenMark
  <2> QED
    BY <2>1, <2>2, MarkIndex
<1>6. CASE \/ CopyMark /\ ~ index[video].sync[s]
           \/ EvenMark /\ ~ (index[track].pts[s] >= acc)
  <2>1. /\ pc = "copy" /\ pc' = pc /\ movie' = movie /\ track' = track /\ s' = s + 1 /\ index' = index
    BY <1>6 DEF CopyMark, EvenMark
  <2>2. \A k \in 1 .. Len(index) : Touched(k) => Touched(k)'
    BY <1>0, <2>1 DEF Touched, Bare
  <2> QED
    BY <2>1, <2>2, IndexStays DEF DataInv
<1> QED
  BY <1>1, <1>2, <1>3, <1>4, <1>5, <1>6

LEMMA DataBegins == Init => DataInv
BY LoopsBegin DEF Init, DataInv, DataKept, IndexData, Building

\* Before the copy no track is touched.
LEMMA BuildingIndex ==
    ASSUME DataInv, pc \notin {"copy", "indexed"}, movie' = movie, index' = index
    PROVE  IndexData'
<1>1. \A k : ~ Touched(k)
  BY DEF Touched
<1> QED
  BY <1>1, IndexStays DEF DataInv

LEMMA DataStep == DataInv /\ [Next]_vars => DataInv'
<1> SUFFICES ASSUME DataInv, [Next]_vars PROVE DataInv'
  OBVIOUS
<1>0. LoopInv' /\ LoopInv /\ DataKept /\ IndexData
  BY LoopsStep DEF DataInv
<1>1. CASE Next
  <2>1. ~ outside
    BY <1>1 DEF Next
  <2>2. CASE NoChunks
    <3>1. DataKept' /\ pc \notin {"copy", "indexed"} /\ movie' = movie /\ index' = index
      BY <2>2 DEF NoChunks, DataKept, Building
    <3> QED
      BY <1>0, <3>1, BuildingIndex DEF DataInv
  <2>3. CASE \/ BeginTrak \/ MapChunks \/ AllocSamples \/ TimeEntry \/ EndTimes
             \/ OffsetEntry \/ EndOffsets \/ PlaceSample \/ NextChunk
    <3>1. pc \notin {"copy", "indexed"} /\ movie' = movie /\ index' = index
      BY <2>3 DEF BeginTrak, MapChunks, AllocSamples, TimeEntry, EndTimes, OffsetEntry, EndOffsets,
                  PlaceSample, NextChunk
    <3>2. DataKept'
      BY <1>0, <2>3, BeginData, MapData, AllocData, TimeData, EndTimesData, OffsetData,
         EndOffsetsData, PlaceData, NextChunkData
    <3> QED
      BY <1>0, <3>1, <3>2, BuildingIndex DEF DataInv
  <2>4. CASE EndTrak
    <3>1. DataKept'
      BY <2>4 DEF EndTrak, DataKept, Building
    <3> QED
      BY <1>0, <2>4, <3>1, EndTrakIndex DEF DataInv
  <2>5. CASE TraksIndexed \/ SkipTrak \/ CopyMark \/ EvenMark \/ TrakMarked \/ MoovIndexed
    <3>1. pc' \in {"copy", "indexed"}
      BY <2>5 DEF TraksIndexed, SkipTrak, CopyMark, EvenMark, TrakMarked, MoovIndexed, NextTrak
    <3>2. DataKept'
      BY <3>1 DEF DataKept, Building
    <3> QED
      BY <1>0, <2>1, <2>5, <3>2, CopyKeepsIndex DEF DataInv
  <2> QED
    BY <1>1, <2>2, <2>3, <2>4, <2>5 DEF Next
<1>2. CASE UNCHANGED vars
  <2> USE <1>2 DEF vars
  <2>1. DataKept'
    BY <1>0 DEF DataKept, Building, tab
  <2>2. IndexData'
    BY <1>0 DEF IndexData, Touched, Bare
  <2> QED
    BY <1>0, <2>1, <2>2 DEF DataInv
<1> QED
  BY <1>1, <1>2

LEMMA DataHolds == Spec => []DataInv
BY DataBegins, DataStep, PTL DEF Spec

LEMMA DataTrue == DataInv => IndexTrue
<1> SUFFICES ASSUME DataInv, pc = "indexed", NEW k \in AgreeingTracks
             PROVE  LET t == movie.traks[k]
                        a == index[k]
                    IN  /\ a.size = SizeOf(t) /\ IsTrak(a)
                        /\ \A j \in 0 .. a.size - 1 :
                             /\ a.bytes[j] = BytesOf(t, j)
                             /\ a.pos[j] = Place(t, ChunkOf(t, j), j)
                             /\ a.cto[j] = OffsetOf(t, j)
                        /\ \A j \in 0 .. a.size : a.pts[j] = TimeOf(t, j)
                        /\ a.pos[a.size] = Place(t, Len(t.stco) - 1, a.size)
                        /\ ~ Bare(k) =>
                             \A j \in 0 .. a.size - 1 :
                                 a.sync[j] <=> \E n \in 1 .. Len(t.stss) : t.stss[n] = j + 1
  BY DEF IndexTrue
<1> DEFINE t == movie.traks[k]
           a == index[k]
<1>1. k \in 1 .. Len(index) /\ Agree(t)
  BY DEF AgreeingTracks
<1>2. Built(t, a) /\ (~ Bare(k) => AsListed(t, a))
  BY <1>1 DEF DataInv, IndexData, Touched
<1> HIDE DEF t, a
<1>3. a.size \in Nat
  BY <1>2 DEF Built, IsTrak
<1>4. \A j \in 0 .. a.size : a.pts[j] = TimeOf(t, j)
  <2>1. PICK n : n = a.size + 1
    OBVIOUS
  <2>2. Timed(a, t, n) /\ n - 1 = a.size
    BY <1>2, <1>3, <2>1 DEF Built
  <2> QED
    BY <2>2 DEF Timed
<1> QED
  BY <1>2, <1>4 DEF Built, Sized, Shifted, Placed, AsListed, t, a

\* Of tables that agree trak_build_index makes, for every track and every number of
\* entries, the samples the tables speak of: times, offsets, places, sizes, marks.
THEOREM IndexKnown == Spec => []IndexTrue
BY DataHolds, DataTrue, PTL

-------------------------------------------------------------------------------
(* The marks of an audio track without a table of its own. *)

\* With a video track: the marks for the first n samples of the video.
TimeIn(v, a, i) == Rescale(v.pts[i], a.timescale, v.timescale)
CopiedTo(v, a, n) == UNION {FirstNotBefore(a, TimeIn(v, a, i)) : i \in SyncBefore(v, n)}
MarkedAs(v, a, n) == \A j \in 0 .. a.size : a.sync[j] <=> j = a.size \/ j \in CopiedTo(v, a, n)

\* The audio samples in front of e are before the video samples from n on.
Behind(v, a, n, e) ==
    /\ e \in 0 .. a.size
    /\ \A j \in 0 .. e - 1 : \A i \in n .. v.size - 1 : a.pts[j] < TimeIn(v, a, i)

\* Without: of the first n samples those without a mark are within two seconds
\* of the mark in front of them,
Free(a, b, c) == \A j \in b .. c : ~ a.sync[j]
EvenTo(a, n) ==
    /\ n > 0 => a.sync[0]
    /\ Free(a, n, a.size - 1)
    /\ \A b, j \in 0 .. n - 1 :
         b < j /\ a.sync[b] /\ Free(a, b + 1, j) => a.pts[j] < a.pts[b] + 2 * a.timescale

\* and the next is due, at d, no later than that.
Due(a, n, d) ==
    /\ d \in Nat /\ (n = 0 => d = 0)
    /\ \A b \in 0 .. n - 1 :
         a.sync[b] /\ Free(a, b + 1, n - 1) => d <= a.pts[b] + 2 * a.timescale

\* a and b differ in their marks.
SameTimes(a, b) ==
    b.size = a.size /\ b.timescale = a.timescale /\ b.pts = a.pts /\ b.sync \in [0 .. a.size -> BOOLEAN]

LEMMA MarksBegin ==
    ASSUME NEW t, NEW a, NEW v, IsTrak(a), AsListed(t, a), t.stss = <<>>
    PROVE  EvenTo(a, 0) /\ Due(a, 0, 0) /\ MarkedAs(v, a, 0) /\ Behind(v, a, 0, 0)
<1>1. a.size \in Nat /\ a.sync[a.size]
  BY DEF IsTrak
<1>2. \A j \in 0 .. a.size - 1 : ~ a.sync[j]
  BY DEF AsListed
<1>3. CopiedTo(v, a, 0) = {}
  BY DEF CopiedTo, SyncBefore
<1>4. MarkedAs(v, a, 0)
  <2> SUFFICES ASSUME NEW j \in 0 .. a.size
               PROVE  a.sync[j] <=> j = a.size \/ j \in CopiedTo(v, a, 0)
    BY DEF MarkedAs
  <2>1. CASE j = a.size
    BY <1>1, <2>1
  <2>2. CASE j # a.size
    <3>1. j \in 0 .. a.size - 1
      BY <1>1, <2>2
    <3> QED
      BY <1>2, <1>3, <2>2, <3>1
  <2> QED
    BY <2>1, <2>2
<1>5. EvenTo(a, 0) /\ Due(a, 0, 0)
  BY <1>1, <1>2 DEF EvenTo, Due, Free
<1>6. Behind(v, a, 0, 0)
  BY <1>1 DEF Behind
<1> QED
  BY <1>4, <1>5, <1>6

\* A sample that gets a mark, and one that gets none.
LEMMA EvenMarked ==
    ASSUME NEW a, NEW b, IsTrak(a), SameTimes(a, b), NEW n \in 0 .. a.size - 1, NEW d,
           EvenTo(a, n), Due(a, n, d), a.pts[n] >= d,
           \A j \in 0 .. a.size : b.sync[j] <=> a.sync[j] \/ j = n
    PROVE  EvenTo(b, n + 1) /\ Due(b, n + 1, d + 2 * a.timescale)
<1> DEFINE ts == a.timescale
           m == n + 1
<1>1. /\ a.size \in Nat /\ ts \in Nat /\ \A j \in 0 .. a.size : a.pts[j] \in Nat
      /\ b.size = a.size /\ b.timescale = ts /\ b.pts = a.pts /\ d \in Nat /\ n \in Nat
      /\ m \in Nat /\ m - 1 = n /\ n \in 0 .. a.size
  BY DEF IsTrak, SameTimes, Due
<1> HIDE DEF m, ts
<1>2. m > 0 => b.sync[0]
  <2>1. 0 \in 0 .. a.size
    BY <1>1
  <2>2. n > 0 => a.sync[0]
    BY DEF EvenTo
  <2> QED
    BY <1>1, <2>1, <2>2
<1>3. Free(b, m, b.size - 1)
  <2> SUFFICES ASSUME NEW j \in m .. a.size - 1 PROVE ~ b.sync[j]
    BY <1>1 DEF Free
  <2>1. j \in n .. a.size - 1 /\ j # n /\ j \in 0 .. a.size
    BY <1>1 DEF m
  <2> QED
    BY <2>1 DEF EvenTo, Free
<1>4. ASSUME NEW c \in 0 .. n, NEW j \in 0 .. n, c < j, b.sync[c], Free(b, c + 1, j)
      PROVE  b.pts[j] < b.pts[c] + 2 * ts
  <2>1. n \in 0 .. a.size /\ b.sync[n]
    BY <1>1
  <2>2. j # n
    <3> SUFFICES ASSUME j = n PROVE FALSE
      OBVIOUS
    <3>1. n \in c + 1 .. j
      BY <1>1, <1>4
    <3> QED
      BY <1>4, <2>1, <3>1 DEF Free
  <2>3. j \in 0 .. n - 1 /\ c \in 0 .. n - 1 /\ c \in 0 .. a.size /\ c # n
    BY <1>1, <1>4, <2>2
  <2>4. a.sync[c]
    BY <1>4, <2>3
  <2>5. Free(a, c + 1, j)
    <3> SUFFICES ASSUME NEW x \in c + 1 .. j PROVE ~ a.sync[x]
      BY DEF Free
    <3>1. x \in 0 .. a.size
      BY <1>1, <2>3
    <3> QED
      BY <1>4, <3>1 DEF Free
  <2> QED
    BY <1>1, <1>4, <2>3, <2>4, <2>5 DEF EvenTo, ts
<1>5. ASSUME NEW c \in 0 .. n, b.sync[c], Free(b, c + 1, n)
      PROVE  d + 2 * ts <= b.pts[c] + 2 * ts
  <2>1. c = n
    <3> SUFFICES ASSUME c # n PROVE FALSE
      OBVIOUS
    <3>1. n \in c + 1 .. n /\ n \in 0 .. a.size
      BY <1>1
    <3> QED
      BY <1>5, <3>1 DEF Free
  <2> QED
    BY <1>1, <2>1
<1>6. EvenTo(b, m)
  BY <1>1, <1>2, <1>3, <1>4 DEF EvenTo
<1>7. Due(b, m, d + 2 * ts)
  BY <1>1, <1>5 DEF Due
<1> QED
  BY <1>6, <1>7 DEF m, ts

LEMMA EvenSkipped ==
    ASSUME NEW a, IsTrak(a), NEW n \in 0 .. a.size - 1, NEW d,
           EvenTo(a, n), Due(a, n, d), ~ (a.pts[n] >= d)
    PROVE  EvenTo(a, n + 1) /\ Due(a, n + 1, d)
<1> DEFINE ts == a.timescale
           m == n + 1
<1>1. /\ a.size \in Nat /\ ts \in Nat /\ \A j \in 0 .. a.size : a.pts[j] \in Nat
      /\ d \in Nat /\ n \in Nat
      /\ m \in Nat /\ m - 1 = n /\ n \in 0 .. a.size
  BY DEF IsTrak, Due
<1>s. ~ a.sync[n] /\ n # 0 /\ a.sync[0]
  <2>1. n \in n .. a.size - 1
    BY <1>1
  <2>2. n # 0
    <3>1. (n = 0 => d = 0) /\ a.pts[n] \in Nat
      BY <1>1 DEF Due
    <3> QED
      BY <3>1
  <2> QED
    BY <1>1, <2>1, <2>2 DEF EvenTo, Free
<1> HIDE DEF m, ts
<1>3. Free(a, m, a.size - 1)
  <2> SUFFICES ASSUME NEW j \in m .. a.size - 1 PROVE ~ a.sync[j]
    BY DEF Free
  <2>1. j \in n .. a.size - 1
    BY <1>1 DEF m
  <2> QED
    BY <2>1 DEF EvenTo, Free
<1>5. ASSUME NEW c \in 0 .. n, a.sync[c], Free(a, c + 1, n)
      PROVE  d <= a.pts[c] + 2 * ts /\ c \in 0 .. n - 1
  <2>1. c \in 0 .. n - 1
    BY <1>1, <1>s, <1>5
  <2>2. Free(a, c + 1, n - 1)
    <3> SUFFICES ASSUME NEW x \in c + 1 .. n - 1 PROVE ~ a.sync[x]
      BY DEF Free
    <3>1. x \in c + 1 .. n
      BY <1>1
    <3> QED
      BY <1>5, <3>1 DEF Free
  <2> QED
    BY <1>5, <2>1, <2>2 DEF Due, ts
<1>4. ASSUME NEW c \in 0 .. n, NEW j \in 0 .. n, c < j, a.sync[c], Free(a, c + 1, j)
      PROVE  a.pts[j] < a.pts[c] + 2 * ts
  <2>1. CASE j = n
    <3>1. d <= a.pts[c] + 2 * ts /\ a.pts[c] \in Nat /\ a.pts[n] \in Nat
      BY <1>1, <1>4, <1>5, <2>1
    <3> QED
      BY <1>1, <2>1, <3>1
  <2>2. CASE j # n
    <3>1. j \in 0 .. n - 1 /\ c \in 0 .. n - 1
      BY <1>1, <1>4, <2>2
    <3> QED
      BY <1>4, <3>1 DEF EvenTo, ts
  <2> QED
    BY <2>1, <2>2
<1>6. EvenTo(a, m)
  BY <1>1, <1>s, <1>3, <1>4 DEF EvenTo, ts
<1>7. Due(a, m, d)
  BY <1>1, <1>5 DEF Due, m, ts
<1> QED
  BY <1>6, <1>7 DEF m

\* What the marks at the end say of the gaps.
LEMMA EvenGaps ==
    ASSUME NEW a, IsTrak(a), EvenTo(a, a.size),
           \A j \in 1 .. a.size : a.pts[j] - a.pts[j - 1] <= a.timescale,
           NEW b \in 0 .. a.size, NEW c \in 0 .. a.size, Gap(a, b, c)
    PROVE  a.pts[c] - a.pts[b] <= 3 * a.timescale
<1>1. /\ a.size \in Nat /\ a.timescale \in Nat /\ \A j \in 0 .. a.size : a.pts[j] \in Nat
      /\ b < c /\ a.sync[b] /\ \A j \in b + 1 .. c - 1 : ~ a.sync[j]
  BY DEF IsTrak, Gap
<1>2. PICK j \in Nat : j = c - 1
  BY <1>1
<1>3. /\ j \in 0 .. a.size - 1 /\ b \in 0 .. a.size - 1 /\ b <= j /\ c \in 1 .. a.size
      /\ j \in 0 .. a.size
  BY <1>1, <1>2
<1>4. a.pts[c] - a.pts[j] <= a.timescale
  BY <1>2, <1>3
<1>5. CASE b = j
  BY <1>1, <1>3, <1>4, <1>5
<1>6. CASE b < j
  <2>1. Free(a, b + 1, j)
    BY <1>1, <1>2 DEF Free
  <2>2. a.pts[j] < a.pts[b] + 2 * a.timescale
    BY <1>1, <1>3, <1>6, <2>1 DEF EvenTo
  <2> QED
    BY <1>1, <1>3, <1>4, <2>2
<1> QED
  BY <1>3, <1>5, <1>6

LEMMA CopySkipped ==
    ASSUME NEW v, NEW a, NEW n \in Nat, NEW e, ~ v.sync[n], MarkedAs(v, a, n), Behind(v, a, n, e)
    PROVE  MarkedAs(v, a, n + 1) /\ Behind(v, a, n + 1, e)
<1>1. SyncBefore(v, n + 1) = SyncBefore(v, n)
  BY DEF SyncBefore
<1>2. CopiedTo(v, a, n + 1) = CopiedTo(v, a, n)
  BY <1>1 DEF CopiedTo
<1>3. \A i \in n + 1 .. v.size - 1 : i \in n .. v.size - 1
  OBVIOUS
<1> QED
  BY <1>2, <1>3 DEF MarkedAs, Behind

LEMMA TimesKeepOrder ==
    ASSUME NEW v, NEW a, IsTrak(v), IsTrak(a), NEW x \in 0 .. v.size, NEW y \in 0 .. v.size, x <= y
    PROVE  TimeIn(v, a, x) \in Nat /\ TimeIn(v, a, y) \in Nat /\ TimeIn(v, a, x) <= TimeIn(v, a, y)
<1>1. v.pts[x] \in Nat /\ v.pts[y] \in Nat /\ v.pts[x] <= v.pts[y]
  BY DEF IsTrak
<1>2. a.timescale \in Nat /\ v.timescale \in Nat \ {0}
  BY DEF IsTrak
<1>3. PICK p \in Nat, q \in Nat : p = v.pts[x] /\ q = v.pts[y] /\ p <= q
  BY <1>1
<1>4. /\ Rescale(p, a.timescale, v.timescale) \in Nat
      /\ Rescale(p, a.timescale, v.timescale) <= Rescale(q, a.timescale, v.timescale)
  BY <1>2, <1>3, RescaleMonotone
<1>5. Rescale(q, a.timescale, v.timescale) \in Nat
  <2>1. q <= q
    OBVIOUS
  <2> QED
    BY <1>2, <2>1, RescaleMonotone
<1> QED
  BY <1>3, <1>4, <1>5 DEF TimeIn

LEMMA CopyMarked ==
    ASSUME NEW v, NEW a, NEW b, IsTrak(v), IsTrak(a), SameTimes(a, b),
           NEW n \in 0 .. v.size - 1, v.sync[n], NEW e, MarkedAs(v, a, n), Behind(v, a, n, e),
           NEW m \in 0 .. a.size,
           m < a.size => m >= e /\ a.pts[m] >= TimeIn(v, a, n),
           \A j \in e .. a.size - 1 : j < m => ~ (a.pts[j] >= TimeIn(v, a, n)),
           \A j \in 0 .. a.size : b.sync[j] <=> a.sync[j] \/ j = m
    PROVE  MarkedAs(v, b, n + 1) /\ Behind(v, b, n + 1, m)
<1>1. /\ a.size \in Nat /\ v.size \in Nat /\ \A j \in 0 .. a.size : a.pts[j] \in Nat
      /\ b.size = a.size /\ b.timescale = a.timescale /\ b.pts = a.pts
      /\ n \in Nat /\ e \in 0 .. a.size
  BY DEF IsTrak, SameTimes, Behind
<1>2. \A i \in 0 .. v.size : TimeIn(v, a, i) \in Nat
  BY <1>1, TimesKeepOrder
<1>3. (\A i : TimeIn(v, b, i) = TimeIn(v, a, i)) /\ (\A time : FirstNotBefore(b, time) = FirstNotBefore(a, time))
  BY <1>1 DEF TimeIn, FirstNotBefore
<1> DEFINE time == TimeIn(v, a, n)
<1>4. time \in Nat
  BY <1>1, <1>2
<1>5. ASSUME NEW j \in 0 .. m - 1 PROVE a.pts[j] < time
  <2>1. j \in 0 .. a.size /\ a.pts[j] \in Nat
    BY <1>1
  <2>2. CASE j < e
    <3>1. n \in n .. v.size - 1 /\ j \in 0 .. e - 1
      BY <1>1, <2>2
    <3> QED
      BY <3>1 DEF Behind
  <2>3. CASE ~ (j < e)
    <3>1. j \in e .. a.size - 1 /\ j < m
      BY <1>1, <2>3
    <3> QED
      BY <1>4, <2>1, <3>1
  <2> QED
    BY <2>2, <2>3
<1>6. \A j : j \in FirstNotBefore(a, time) <=> j = m /\ m < a.size
  <2>1. ASSUME NEW j \in FirstNotBefore(a, time) PROVE j = m /\ m < a.size
    <3>1. j \in 0 .. a.size - 1 /\ a.pts[j] >= time /\ \A x \in 0 .. j - 1 : a.pts[x] < time
      BY DEF FirstNotBefore
    <3>2. a.pts[j] \in Nat /\ ~ (j < m)
      <4>1. j \in 0 .. a.size
        BY <1>1, <3>1
      <4>2. a.pts[j] \in Nat
        BY <1>1, <4>1
      <4>3. j < m => j \in 0 .. m - 1
        BY <3>1
      <4> HIDE DEF time
      <4> QED
        BY <1>4, <1>5, <3>1, <4>2, <4>3
    <3>3. m < a.size
      BY <1>1, <3>1, <3>2
    <3>4. ~ (m < j)
      <4> SUFFICES ASSUME m < j PROVE FALSE
        OBVIOUS
      <4>1. m \in 0 .. j - 1 /\ a.pts[m] \in Nat
        BY <1>1, <3>1
      <4>2. a.pts[m] >= time /\ a.pts[m] < time
        BY <3>1, <3>3, <4>1
      <4> HIDE DEF time
      <4> QED
        BY <1>4, <4>1, <4>2
    <3> QED
      BY <1>1, <3>1, <3>2, <3>3, <3>4
  <2>2. ASSUME m < a.size PROVE m \in FirstNotBefore(a, time)
    <3>1. m \in 0 .. a.size - 1 /\ a.pts[m] >= time
      BY <1>1, <2>2
    <3> QED
      BY <1>5, <3>1 DEF FirstNotBefore
  <2> QED
    BY <2>1, <2>2
<1>7. \A j : j \in CopiedTo(v, b, n + 1) <=> j \in CopiedTo(v, a, n) \/ j \in FirstNotBefore(a, time)
  <2>1. SyncBefore(v, n + 1) = SyncBefore(v, n) \cup {n}
    BY <1>1 DEF SyncBefore
  <2>2. CopiedTo(v, b, n + 1) = UNION {FirstNotBefore(a, TimeIn(v, a, i)) : i \in SyncBefore(v, n) \cup {n}}
    BY <1>3, <2>1 DEF CopiedTo
  <2> QED
    BY <2>2 DEF CopiedTo
<1>8. MarkedAs(v, b, n + 1)
  <2> SUFFICES ASSUME NEW j \in 0 .. a.size
               PROVE  b.sync[j] <=> j = a.size \/ j \in CopiedTo(v, b, n + 1)
    BY <1>1 DEF MarkedAs
  <2>1. b.sync[j] <=> a.sync[j] \/ j = m
    OBVIOUS
  <2>2. a.sync[j] <=> j = a.size \/ j \in CopiedTo(v, a, n)
    BY DEF MarkedAs
  <2>3. j \in CopiedTo(v, b, n + 1) <=> j \in CopiedTo(v, a, n) \/ (j = m /\ m < a.size)
    BY <1>6, <1>7
  <2>4. m = a.size \/ m < a.size
    BY <1>1
  <2> QED
    BY <2>1, <2>2, <2>3, <2>4
<1>9. Behind(v, b, n + 1, m)
  <2> SUFFICES ASSUME NEW j \in 0 .. m - 1, NEW i \in n + 1 .. v.size - 1
               PROVE  a.pts[j] < TimeIn(v, a, i)
    BY <1>1, <1>3 DEF Behind
  <2>1. i \in 0 .. v.size /\ n \in 0 .. v.size /\ n <= i
    BY <1>1
  <2>2. time <= TimeIn(v, a, i) /\ TimeIn(v, a, i) \in Nat
    BY <2>1, TimesKeepOrder
  <2>3. a.pts[j] \in Nat /\ a.pts[j] < time
    BY <1>1, <1>5
  <2> HIDE DEF time
  <2> QED
    BY <1>4, <2>2, <2>3
<1> QED
  BY <1>8, <1>9

\* video_trak is the last video track, if there is one.
LEMMA VideoIs ==
    ASSUME Len(movie.traks) \in Nat
    PROVE  /\ video \in Nat
           /\ video # 0 => video \in Tracks /\ movie.traks[video].kind = "vide"
<1> DEFINE S == {0} \cup {k \in Tracks : movie.traks[k].kind = "vide"}
           n == Len(movie.traks)
           T == {n - k : k \in S}
<1>1. S \in SUBSET (0 .. n) /\ 0 \in S
  BY DEF Tracks
<1>2. T \in SUBSET Nat /\ T # {}
  BY <1>1
<1>3. PICK m \in T : \A x \in T : m <= x
  <2> HIDE DEF T
  <2> QED
    BY <1>2, LeastNumber
<1>4. PICK k \in S : m = n - k
  OBVIOUS
<1>5. \A x \in S : k >= x
  <2> SUFFICES ASSUME NEW x \in S PROVE k >= x
    OBVIOUS
  <2>1. n - x \in T /\ x \in Int /\ k \in Int
    BY <1>1
  <2>2. m <= n - x
    BY <1>3, <2>1
  <2> QED
    BY <1>4, <2>1, <2>2
<1>6. Max(S) \in S
  <2> HIDE DEF S
  <2> QED
    BY <1>5 DEF Max
<1>7. video \in S
  BY <1>6 DEF video
<1> QED
  BY <1>1, <1>7

AllAgree == \A k \in Tracks : Agree(movie.traks[k])

\* The samples whose marks decide, and what the first n of them do.
Decides(k) == index[IF video = 0 THEN k ELSE video]
MarksOf(k, n) ==
    IF video = 0 THEN EvenTo(index[k], n) ELSE MarkedAs(index[video], index[k], n)
TurnOf(k, n) ==
    IF video = 0 THEN Due(index[k], n, acc) ELSE Behind(index[video], index[k], n, entry)

MarkData ==
    /\ pc = "trak" => entry = 0 /\ s = 0 /\ acc = 0
    /\ pc = "indexed" => track \notin Tracks
    /\ pc \in {"copy", "indexed"} /\ AllAgree =>
         /\ \A k \in Tracks : Bare(k) /\ k < track => MarksOf(k, Decides(k).size)
         /\ pc = "copy" /\ track \in Tracks /\ Bare(track) =>
              MarksOf(track, s) /\ TurnOf(track, s)

MarkInv == DataInv /\ MarkData

\* What is known during the copy of a track whose tables agree.
LEMMA CopyIs ==
    ASSUME DataInv, pc \in {"copy", "indexed"}, AllAgree
    PROVE  /\ Len(movie.traks) \in Nat /\ Len(index) = Len(movie.traks)
           /\ track \in Nat /\ s \in Nat /\ entry \in Nat /\ acc \in Nat
           /\ \A k \in Tracks :
                /\ k \in 1 .. Len(index) /\ IsTrak(index[k]) /\ IsArray(index[k])
                /\ index[k].timescale = movie.traks[k].timescale
                /\ Bare(k) => movie.traks[k].stss = <<>>
                /\ ~ Touched(k) => AsListed(movie.traks[k], index[k])
<1>1. /\ TypesKept /\ IndexKept /\ movie \in Movies
  BY DEF DataInv, LoopInv, TypesKept
<1>2. /\ Len(movie.traks) \in Nat /\ Len(index) = Len(movie.traks)
      /\ track \in Nat /\ s \in Nat /\ entry \in Nat /\ acc \in Nat
  BY <1>1, IndexAssumption DEF TypesKept, IndexKept
<1>3. ASSUME NEW k \in Tracks
      PROVE  /\ k \in 1 .. Len(index) /\ IsTrak(index[k]) /\ IsArray(index[k])
             /\ index[k].timescale = movie.traks[k].timescale
             /\ Bare(k) => movie.traks[k].stss = <<>>
             /\ ~ Touched(k) => AsListed(movie.traks[k], index[k])
  <2>1. k \in 1 .. Len(index) /\ Agree(movie.traks[k])
    BY <1>2 DEF Tracks, AllAgree
  <2>2. IsTrak(index[k]) /\ (~ Touched(k) => AsListed(movie.traks[k], index[k]))
    BY <2>1 DEF DataInv, IndexData, Built
  <2>3. IsTables(movie.traks[k])
    BY <1>1, IndexAssumption DEF Tracks
  <2>4. IsArray(index[k])
    BY <1>1, <2>1, ArraysAre DEF IndexKept
  <2> QED
    BY <1>1, <2>1, <2>2, <2>3, <2>4 DEF IsTables, Bare, IndexKept
<1> QED
  BY <1>2, <1>3

\* The same after a step.
CopyStart ==
    /\ pc = "copy" /\ track \in Tracks /\ Bare(track)
    /\ s = 0 /\ entry = 0 /\ acc = 0

LEMMA StartMarks ==
    DataInv /\ CopyStart /\ AllAgree => MarksOf(track, s) /\ TurnOf(track, s)
<1> SUFFICES ASSUME DataInv, CopyStart, AllAgree
             PROVE  MarksOf(track, s) /\ TurnOf(track, s)
  OBVIOUS
<1>1. pc = "copy" /\ track \in Tracks /\ Bare(track) /\ s = 0 /\ entry = 0 /\ acc = 0
  BY DEF CopyStart
<1>2. ~ Touched(track) /\ track \in Nat
  BY <1>1, CopyIs DEF Touched
<1>3. /\ IsTrak(index[track]) /\ AsListed(movie.traks[track], index[track])
      /\ movie.traks[track].stss = <<>>
  BY <1>1, <1>2, CopyIs
<1>4. /\ EvenTo(index[track], 0) /\ Due(index[track], 0, 0)
      /\ MarkedAs(index[video], index[track], 0) /\ Behind(index[video], index[track], 0, 0)
  BY <1>3, MarksBegin
<1> QED
  BY <1>1, <1>4 DEF MarksOf, TurnOf

LEMMA StartMarksNext ==
    ASSUME DataInv', CopyStart', AllAgree'
    PROVE  MarksOf(track, s)' /\ TurnOf(track, s)'
<1> SUFFICES ASSUME DataInv', CopyStart', AllAgree'
             PROVE  (MarksOf(track, s) /\ TurnOf(track, s))'
  OBVIOUS
<1> QED
  BY StartMarks, PTL

\* A step that leaves the arrays and goes on to the next track.
LEMMA NextMarks ==
    ASSUME MarkInv, DataInv', pc = "copy", NextTrak, track \in Tracks,
           Bare(track) => s = Decides(track).size
    PROVE  MarkData'
<1>0. /\ pc' = "copy" /\ track' = track + 1 /\ entry' = 0 /\ s' = 0 /\ acc' = 0
      /\ movie' = movie /\ index' = index
  BY DEF NextTrak
<1>1. /\ video' = video /\ Tracks' = Tracks /\ (AllAgree' <=> AllAgree)
      /\ \A k : Bare(k)' <=> Bare(k)
  BY <1>0 DEF video, Tracks, AllAgree, Bare
<1>2. \A k, n : (MarksOf(k, n)' <=> MarksOf(k, n)) /\ Decides(k)' = Decides(k)
  BY <1>0, <1>1 DEF MarksOf, Decides
<1> SUFFICES ASSUME AllAgree
             PROVE  /\ \A k \in Tracks : Bare(k) /\ k < track' => MarksOf(k, Decides(k).size)
                    /\ track' \in Tracks /\ Bare(track)' => MarksOf(track, s)' /\ TurnOf(track, s)'
  BY <1>0, <1>1, <1>2 DEF MarkData
<1>3. track \in Nat /\ Len(movie.traks) \in Nat
  BY CopyIs DEF MarkInv
<1>4. ASSUME NEW k \in Tracks, Bare(k), k < track' PROVE MarksOf(k, Decides(k).size)
  <2>1. CASE k = track
    BY <1>4, <2>1 DEF MarkInv, MarkData
  <2>2. CASE k # track
    <3>1. k < track
      BY <1>0, <1>3, <1>4, <2>2 DEF Tracks
    <3> QED
      BY <1>4, <3>1 DEF MarkInv, MarkData
  <2> QED
    BY <2>1, <2>2
<1>5. ASSUME track' \in Tracks, Bare(track)' PROVE MarksOf(track, s)' /\ TurnOf(track, s)'
  BY <1>0, <1>1, <1>5, StartMarksNext DEF CopyStart
<1> QED
  BY <1>4, <1>5

\* A step that sets marks, or none, in the track whose turn it is.
LEMMA SameTurn ==
    ASSUME MarkInv, pc = "copy", pc' = "copy", movie' = movie, track' = track, track \in Tracks,
           Bare(track),
           \A k \in 1 .. Len(index) : k # track => index'[k] = index[k],
           IndexKept',
           AllAgree =>
               IF video = 0
               THEN EvenTo(index'[track], s') /\ Due(index'[track], s', acc')
               ELSE /\ MarkedAs(index[video], index'[track], s')
                    /\ Behind(index[video], index'[track], s', entry')
    PROVE  MarkData'
<1>1. /\ video' = video /\ Tracks' = Tracks /\ (AllAgree' <=> AllAgree)
      /\ \A k : Bare(k)' <=> Bare(k)
  BY DEF video, Tracks, AllAgree, Bare
<1> SUFFICES ASSUME AllAgree
             PROVE  /\ \A k \in Tracks : Bare(k) /\ k < track => MarksOf(k, Decides(k).size)'
                    /\ MarksOf(track, s)' /\ TurnOf(track, s)'
  BY <1>1 DEF MarkData
<1>2. Len(movie.traks) \in Nat /\ track \in Nat /\ Len(index) = Len(movie.traks)
  BY CopyIs DEF MarkInv
<1>3. video # 0 => video # track /\ video \in Tracks
  BY <1>2, VideoIs DEF Bare
<1>4. video # 0 => index'[video] = index[video]
  BY <1>2, <1>3 DEF Tracks
<1>5. MarksOf(track, s)' /\ TurnOf(track, s)'
  BY <1>1, <1>4 DEF MarksOf, TurnOf
<1>6. ASSUME NEW k \in Tracks, Bare(k), k < track PROVE MarksOf(k, Decides(k).size)'
  <2>1. index'[k] = index[k]
    BY <1>2, <1>6 DEF Tracks
  <2>2. MarksOf(k, Decides(k).size)
    BY <1>6 DEF MarkInv, MarkData
  <2>3. Decides(k)' = Decides(k)
    BY <1>1, <1>4, <2>1 DEF Decides
  <2> QED
    BY <1>1, <1>4, <2>1, <2>2, <2>3 DEF MarksOf
<1> QED
  BY <1>5, <1>6

LEMMA CopyMarkData == ASSUME MarkInv, CopyMark PROVE MarkData'
<1>0. /\ pc = "copy" /\ pc' = "copy" /\ movie' = movie /\ track' = track /\ acc' = acc
      /\ s' = s + 1 /\ track \in Tracks /\ Copies(track) /\ video # 0 /\ s < index[video].size
  BY DEF CopyMark
<1>1. Bare(track) /\ DataInv /\ LoopInv /\ IndexKept /\ TypesKept
  BY <1>0 DEF Bare, Copies, MarkInv, DataInv, LoopInv
<1>2. Len(movie.traks) \in Nat /\ s \in Nat
  BY <1>1, IndexAssumption DEF TypesKept
<1>3. CASE ~ index[video].sync[s]
  <2>1. index' = index /\ entry' = entry
    BY <1>3 DEF CopyMark
  <2>2. AllAgree => MarkedAs(index[video], index'[track], s') /\ Behind(index[video], index'[track], s', entry')
    <3> SUFFICES ASSUME AllAgree
                 PROVE  /\ MarkedAs(index[video], index[track], s + 1)
                        /\ Behind(index[video], index[track], s + 1, entry)
      BY <1>0, <2>1
    <3>1. MarkedAs(index[video], index[track], s) /\ Behind(index[video], index[track], s, entry)
      BY <1>0, <1>1 DEF MarkInv, MarkData, MarksOf, TurnOf
    <3> QED
      BY <1>2, <1>3, <3>1, CopySkipped
  <2>3. IndexKept'
    BY <1>0, <1>1, <2>1 DEF IndexKept
  <2> QED
    BY <1>0, <1>1, <2>1, <2>2, <2>3, SameTurn
<1>4. CASE index[video].sync[s]
  <2>1. PICK f \in [0 .. index[track].size -> BOOLEAN] :
             /\ index' = [index EXCEPT ![track] = [index[track] EXCEPT !.sync = f]]
             /\ \A a \in 0 .. index[track].size : f[a] <=> index[track].sync[a] \/ a = AudioAt
    BY <1>1, <1>4, CopyIndex
  <2>2. /\ IndexKept'
        /\ SameBut(index[track], index'[track]) /\ index'[track].pts = index[track].pts
        /\ index'[track].sync = f
        /\ \A k \in 1 .. Len(index) : k # track => index'[k] = index[k]
    BY <1>0, <1>1, <1>2, <2>1, MarksKept DEF Tracks
  <2>3. entry' = AudioAt
    BY <1>4 DEF CopyMark
  <2>4. ASSUME AllAgree
        PROVE  MarkedAs(index[video], index'[track], s') /\ Behind(index[video], index'[track], s', entry')
    <3> DEFINE v == index[video]
               a == index[track]
               b == index'[track]
               m == AudioAt
    <3>1. video \in Tracks
      BY <1>0, <1>2, VideoIs
    <3>2. /\ IsTrak(v) /\ IsTrak(a) /\ IsArray(a) /\ entry \in Nat
          /\ v.timescale = movie.traks[video].timescale /\ a.timescale = tab.timescale
      BY <1>0, <1>1, <2>4, <3>1, CopyIs DEF tab
    <3>3. SameTimes(a, b)
      BY <2>1, <2>2 DEF SameTimes, SameBut
    <3>4. s \in 0 .. v.size - 1
      BY <1>0, <1>2, <3>2 DEF IsTrak
    <3>5. MarkedAs(v, a, s) /\ Behind(v, a, s, entry)
      BY <1>0, <1>1, <2>4 DEF MarkInv, MarkData, MarksOf, TurnOf
    <3>6. /\ m \in 0 .. a.size
          /\ m < a.size => m >= entry /\ a.pts[m] >= TimeIn(v, a, s)
          /\ \A j \in entry .. a.size - 1 : j < m => ~ (a.pts[j] >= TimeIn(v, a, s))
      BY <3>2, AudioAtIs DEF TimeIn
    <3>7. \A j \in 0 .. a.size : b.sync[j] <=> a.sync[j] \/ j = m
      BY <2>1, <2>2
    <3> HIDE DEF v, a, b, m
    <3>8. MarkedAs(v, b, s + 1) /\ Behind(v, b, s + 1, m)
      BY <1>4, <3>2, <3>3, <3>4, <3>5, <3>6, <3>7, CopyMarked DEF v
    <3> QED
      BY <1>0, <2>3, <3>8 DEF v, b, m
  <2> QED
    BY <1>0, <1>1, <2>2, <2>4, SameTurn
<1> QED
  BY <1>3, <1>4

LEMMA EvenMarkData == ASSUME MarkInv, EvenMark PROVE MarkData'
<1>0. /\ pc = "copy" /\ pc' = "copy" /\ movie' = movie /\ track' = track
      /\ s' = s + 1 /\ track \in Tracks /\ Copies(track) /\ video = 0 /\ s < index[track].size
  BY DEF EvenMark
<1>1. Bare(track) /\ DataInv /\ LoopInv /\ IndexKept /\ TypesKept
  BY <1>0 DEF Bare, Copies, MarkInv, DataInv, LoopInv
<1>2. Len(movie.traks) \in Nat /\ s \in Nat
  BY <1>1, IndexAssumption DEF TypesKept
<1>5. AllAgree => /\ IsTrak(index[track]) /\ s \in 0 .. index[track].size - 1
                  /\ index[track].timescale = tab.timescale
                  /\ EvenTo(index[track], s) /\ Due(index[track], s, acc)
  <2> SUFFICES ASSUME AllAgree
               PROVE  /\ IsTrak(index[track]) /\ s \in 0 .. index[track].size - 1
                      /\ index[track].timescale = tab.timescale
                      /\ EvenTo(index[track], s) /\ Due(index[track], s, acc)
    OBVIOUS
  <2>1. IsTrak(index[track]) /\ index[track].timescale = tab.timescale
    BY <1>0, <1>1, CopyIs DEF tab
  <2>2. s \in 0 .. index[track].size - 1
    BY <1>0, <1>2, <2>1 DEF IsTrak
  <2>3. EvenTo(index[track], s) /\ Due(index[track], s, acc)
    BY <1>0, <1>1 DEF MarkInv, MarkData, MarksOf, TurnOf
  <2> QED
    BY <2>1, <2>2, <2>3
<1>3. CASE ~ (index[track].pts[s] >= acc)
  <2>1. index' = index /\ acc' = acc
    BY <1>3 DEF EvenMark
  <2>2. AllAgree => EvenTo(index'[track], s') /\ Due(index'[track], s', acc')
    BY <1>0, <1>3, <1>5, <2>1, EvenSkipped
  <2>3. IndexKept'
    BY <1>0, <1>1, <2>1 DEF IndexKept
  <2> QED
    BY <1>0, <1>1, <2>1, <2>2, <2>3, SameTurn
<1>4. CASE index[track].pts[s] >= acc
  <2>1. PICK f \in [0 .. index[track].size -> BOOLEAN] :
             /\ index' = [index EXCEPT ![track] = [index[track] EXCEPT !.sync = f]]
             /\ \A a \in 0 .. index[track].size : f[a] <=> index[track].sync[a] \/ a = s
    BY <1>1, <1>4, EvenIndex
  <2>2. /\ IndexKept'
        /\ SameBut(index[track], index'[track]) /\ index'[track].pts = index[track].pts
        /\ index'[track].sync = f
        /\ \A k \in 1 .. Len(index) : k # track => index'[k] = index[k]
    BY <1>0, <1>1, <1>2, <2>1, MarksKept DEF Tracks
  <2>3. acc' = acc + 2 * tab.timescale
    BY <1>4 DEF EvenMark
  <2>4. ASSUME AllAgree
        PROVE  EvenTo(index'[track], s') /\ Due(index'[track], s', acc')
    <3> DEFINE a == index[track]
               b == index'[track]
    <3>1. SameTimes(a, b)
      BY <2>1, <2>2 DEF SameTimes, SameBut
    <3>2. \A j \in 0 .. a.size : b.sync[j] <=> a.sync[j] \/ j = s
      BY <2>1, <2>2
    <3>3. /\ IsTrak(a) /\ s \in 0 .. a.size - 1 /\ a.timescale = tab.timescale
          /\ EvenTo(a, s) /\ Due(a, s, acc) /\ a.pts[s] >= acc
      BY <1>4, <1>5, <2>4
    <3> HIDE DEF a, b
    <3>4. EvenTo(b, s + 1) /\ Due(b, s + 1, acc + 2 * a.timescale)
      BY <3>1, <3>2, <3>3, EvenMarked
    <3> QED
      BY <1>0, <2>3, <3>3, <3>4 DEF b
  <2> QED
    BY <1>0, <1>1, <2>2, <2>4, SameTurn
<1> QED
  BY <1>3, <1>4

LEMMA MarkBegins == Init => MarkInv
BY DataBegins DEF Init, MarkInv, MarkData

LEMMA MarkStep == MarkInv /\ [Next]_vars => MarkInv'
<1> SUFFICES ASSUME MarkInv, [Next]_vars PROVE MarkInv'
  OBVIOUS
<1>0. DataInv /\ DataInv' /\ MarkData
  BY DataStep DEF MarkInv
<1>1. CASE Next
  <2>1. CASE \/ NoChunks \/ BeginTrak \/ MapChunks \/ AllocSamples \/ TimeEntry \/ EndTimes
             \/ OffsetEntry \/ EndOffsets \/ PlaceSample \/ NextChunk
    <3>1. pc' \notin {"trak", "copy", "indexed"}
      BY <2>1 DEF NoChunks, BeginTrak, MapChunks, AllocSamples, TimeEntry, EndTimes, OffsetEntry,
                  EndOffsets, PlaceSample, NextChunk
    <3> QED
      BY <1>0, <3>1 DEF MarkInv, MarkData
  <2>2. CASE EndTrak
    <3>1. pc' = "trak" /\ entry' = 0 /\ s' = 0 /\ acc' = 0
      BY <2>2 DEF EndTrak
    <3> QED
      BY <1>0, <3>1 DEF MarkInv, MarkData
  <2>3. CASE TraksIndexed
    <3>1. /\ pc' = "copy" /\ track' = 1 /\ entry' = 0 /\ s' = 0 /\ acc' = 0
      BY <1>0, <2>3 DEF TraksIndexed, MarkData
    <3>2. \A k \in Tracks' : ~ (k < track')
      BY <3>1, IndexAssumption DEF Tracks
    <3>3. AllAgree' /\ track' \in Tracks' /\ Bare(track)' => MarksOf(track, s)' /\ TurnOf(track, s)'
      BY <1>0, <3>1, StartMarksNext DEF CopyStart
    <3> QED
      BY <1>0, <3>1, <3>2, <3>3 DEF MarkInv, MarkData
  <2>4. CASE SkipTrak
    <3>1. pc = "copy" /\ NextTrak /\ track \in Tracks /\ ~ Bare(track)
      BY <2>4 DEF SkipTrak, Copies, Bare
    <3> QED
      BY <1>0, <3>1, NextMarks DEF MarkInv
  <2>5. CASE TrakMarked
    <3>1. pc = "copy" /\ NextTrak /\ track \in Tracks /\ s = Decides(track).size
      BY <2>5 DEF TrakMarked, Decides
    <3> QED
      BY <1>0, <3>1, NextMarks DEF MarkInv
  <2>6. CASE CopyMark
    BY <1>0, <2>6, CopyMarkData DEF MarkInv
  <2>7. CASE EvenMark
    BY <1>0, <2>7, EvenMarkData DEF MarkInv
  <2>8. CASE MoovIndexed
    <3>1. /\ pc = "copy" /\ pc' = "indexed" /\ track \notin Tracks
          /\ track' = track /\ movie' = movie /\ index' = index
      BY <2>8 DEF MoovIndexed
    <3>2. /\ video' = video /\ Tracks' = Tracks /\ (AllAgree' <=> AllAgree)
          /\ \A k : Bare(k)' <=> Bare(k)
      BY <3>1 DEF video, Tracks, AllAgree, Bare
    <3>3. \A k, n : (MarksOf(k, n)' <=> MarksOf(k, n)) /\ Decides(k)' = Decides(k)
      BY <3>1, <3>2 DEF MarksOf, Decides
    <3> QED
      BY <1>0, <3>1, <3>2, <3>3 DEF MarkInv, MarkData
  <2> QED
    BY <1>1, <2>1, <2>2, <2>3, <2>4, <2>5, <2>6, <2>7, <2>8 DEF Next
<1>2. CASE UNCHANGED vars
  <2> USE <1>2 DEF vars
  <2>1. /\ video' = video /\ Tracks' = Tracks /\ (AllAgree' <=> AllAgree)
        /\ \A k : Bare(k)' <=> Bare(k)
    BY DEF video, Tracks, AllAgree, Bare
  <2>2. \A k, n : (MarksOf(k, n)' <=> MarksOf(k, n)) /\ Decides(k)' = Decides(k)
    BY <2>1 DEF MarksOf, Decides
  <2>3. \A k, n : TurnOf(k, n)' <=> TurnOf(k, n)
    BY <2>1 DEF TurnOf
  <2>4. (MarksOf(track, s)' <=> MarksOf(track, s)) /\ (TurnOf(track, s)' <=> TurnOf(track, s))
    BY <2>1 DEF MarksOf, TurnOf
  <2> QED
    BY <1>0, <2>1, <2>2, <2>3, <2>4 DEF MarkInv, MarkData
<1> QED
  BY <1>1, <1>2

LEMMA MarksHold == Spec => []MarkInv
BY MarkBegins, MarkStep, PTL DEF Spec

LEMMA MarksTrue == MarkInv => AudioMarked
<1> SUFFICES ASSUME MarkInv, pc = "indexed", AgreeingTracks = Tracks, NEW k \in Tracks, Bare(k)
             PROVE  LET a == index[k]
                    IN  IF video # 0 THEN a.sync = WithCopiedSync(index[video], a).sync
                        ELSE /\ a.sync[0]
                             /\ (\A j \in 1 .. a.size : a.pts[j] - a.pts[j - 1] <= a.timescale) =>
                                  \A b, c \in 0 .. a.size :
                                      Gap(a, b, c) => a.pts[c] - a.pts[b] <= 3 * a.timescale
  BY DEF AudioMarked
<1> DEFINE a == index[k]
<1>1. AllAgree
  BY DEF AllAgree, AgreeingTracks
<1>2. Len(movie.traks) \in Nat /\ track \in Nat /\ IsTrak(a)
  BY <1>1, CopyIs DEF MarkInv
<1>3. track \in 1 .. Len(movie.traks) + 1 /\ track \notin Tracks
  BY DEF MarkInv, MarkData, DataInv, LoopInv, TypesKept
<1>4. MarksOf(k, Decides(k).size)
  <2>1. k < track
    BY <1>2, <1>3 DEF Tracks
  <2> QED
    BY <1>1, <2>1 DEF MarkInv, MarkData
<1>5. CASE video # 0
  <2> DEFINE v == index[video]
             sync == [j \in 0 .. a.size |-> j = a.size \/ j \in CopiedSync(v, a)]
  <2>1. MarkedAs(v, a, v.size)
    BY <1>4, <1>5 DEF MarksOf, Decides
  <2>2. CopiedTo(v, a, v.size) = CopiedSync(v, a)
    BY DEF CopiedTo, CopiedSync, TimeIn
  <2>3. WithCopiedSync(v, a).sync = sync
    <3>1. "sync" \in DOMAIN a
      BY <1>2 DEF IsTrak
    <3> QED
      BY <3>1 DEF WithCopiedSync
  <2>4. a.sync \in [0 .. a.size -> BOOLEAN]
    BY <1>2 DEF IsTrak
  <2>5. sync \in [0 .. a.size -> BOOLEAN]
    BY Zenon
  <2>6. ASSUME NEW j \in 0 .. a.size PROVE a.sync[j] = sync[j]
    <3>1. a.sync[j] \in BOOLEAN /\ sync[j] \in BOOLEAN
      <4> HIDE DEF a, v, sync
      <4> QED
        BY <2>4, <2>5
    <3>2. sync[j] <=> (j = a.size \/ j \in CopiedSync(v, a))
      <4> HIDE DEF a, v
      <4> QED
        BY Zenon
    <3>3. a.sync[j] <=> (j = a.size \/ j \in CopiedSync(v, a))
      BY <2>1, <2>2 DEF MarkedAs
    <3> HIDE DEF a, v, sync
    <3> QED
      BY <3>1, <3>2, <3>3
  <2>7. a.sync = sync
    <3> HIDE DEF a, v, sync
    <3>1. PICK S : S = 0 .. a.size
      OBVIOUS
    <3>2. a.sync \in [S -> BOOLEAN] /\ sync \in [S -> BOOLEAN] /\ \A j \in S : a.sync[j] = sync[j]
      BY <2>4, <2>5, <2>6, <3>1
    <3> QED
      BY <3>2
  <2> QED
    BY <1>5, <2>3, <2>7
<1>6. CASE video = 0
  <2>1. EvenTo(a, a.size)
    BY <1>4, <1>6 DEF MarksOf, Decides
  <2>2. a.sync[0]
    <3>1. a.size \in Nat /\ a.sync[a.size]
      BY <1>2 DEF IsTrak
    <3>2. a.size > 0 => a.sync[0]
      BY <2>1 DEF EvenTo
    <3>3. a.size > 0 \/ a.size = 0
      BY <3>1
    <3> HIDE DEF a
    <3> QED
      BY <3>1, <3>2, <3>3
  <2> HIDE DEF a
  <2>3. ASSUME \A j \in 1 .. a.size : a.pts[j] - a.pts[j - 1] <= a.timescale,
               NEW b \in 0 .. a.size, NEW c \in 0 .. a.size, Gap(a, b, c)
        PROVE  a.pts[c] - a.pts[b] <= 3 * a.timescale
    BY <1>2, <2>1, <2>3, EvenGaps
  <2> QED
    BY <1>6, <2>2, <2>3 DEF a
<1> QED
  BY <1>5, <1>6

\* moov_build_index gives an audio track without stss the marks fragments start
\* from: the first sample not before each sync sample of the video, or, without a
\* video, marks never more than three seconds apart if no sample is longer than one.
THEOREM MarksKnown == Spec => []AudioMarked
BY MarksHold, MarksTrue, PTL

-------------------------------------------------------------------------------
(* The lookups that go to the tables of a track: each finds the entry it needs *)
(* by a sum, and what it returns is what the index has. *)

\* Entries whose counts and durations can be multiplied.
Spans(table) == Counts(table) /\ \A e \in 1 .. Len(table) : table[e].duration \in Nat

LEMMA SpannedIs ==
    ASSUME NEW table, Spans(table)
    PROVE  /\ Spanned(table, 0) = 0
           /\ \A e \in 0 .. Len(table) : Spanned(table, e) \in Nat
           /\ \A e \in 1 .. Len(table) :
                Spanned(table, e) = Spanned(table, e - 1) + table[e].count * table[e].duration
<1> DEFINE n == Len(table)
           f == [i \in 0 .. n - 1 |-> table[i + 1].count * table[i + 1].duration]
<1>1. n \in Nat /\ \A e \in 1 .. n : table[e].count \in Nat /\ table[e].duration \in Nat
  BY DEF Spans, Counts
<1>2. \A i \in 0 .. n - 1 : f[i] \in Nat /\ f[i] = table[i + 1].count * table[i + 1].duration
  <2> SUFFICES ASSUME NEW i \in 0 .. n - 1
               PROVE  f[i] \in Nat /\ f[i] = table[i + 1].count * table[i + 1].duration
    OBVIOUS
  <2>1. i + 1 \in 1 .. n
    BY <1>1
  <2>2. table[i + 1].count \in Nat /\ table[i + 1].duration \in Nat
    BY <1>1, <2>1
  <2>3. table[i + 1].count * table[i + 1].duration \in Nat
    BY <2>2, TimesNat
  <2> QED
    BY <2>3
<1>3. \A e : Spanned(table, e) = SumOf(f, e)
  BY DEF Spanned
<1> HIDE DEF f
<1>4. Spanned(table, 0) = 0
  BY <1>3, SumStep
<1>5. ASSUME NEW e \in 0 .. n PROVE Spanned(table, e) \in Nat
  <2>1. e \in Nat /\ \A i \in 0 .. e - 1 : f[i] \in Nat
    BY <1>1, <1>2
  <2>2. SumOf(f, e) \in Nat
    BY <2>1, SumType
  <2> QED
    BY <1>3, <2>2
<1>6. ASSUME NEW e \in 1 .. n
      PROVE  Spanned(table, e) = Spanned(table, e - 1) + table[e].count * table[e].duration
  <2>1. PICK i \in 0 .. n - 1 : i = e - 1 /\ i + 1 = e
    BY <1>1
  <2>2. SumOf(f, i + 1) = SumOf(f, i) + f[i]
    BY SumStep
  <2>3. f[i] = table[e].count * table[e].duration
    BY <1>2, <2>1
  <2> QED
    BY <1>3, <2>1, <2>2, <2>3
<1> QED
  BY <1>4, <1>5, <1>6

\* The time of the entries done is that of the next sample.
LEMMA SpannedTime ==
    ASSUME NEW t, IsTables(t), NEW e \in 0 .. Len(t.stts)
    PROVE  Spanned(t.stts, e) = TimeOf(t, Counted(t.stts, e))
<1> DEFINE table == t.stts
           n == Len(table)
           S == {k \in Nat : k <= n => Spanned(table, k) = TimeOf(t, Counted(table, k))}
<1>1. Counts(table) /\ Spans(table) /\ n \in Nat
  BY TablesCount DEF Spans, Counts
<1> HIDE DEF table
<1>2. 0 \in S
  <2>1. Counted(table, 0) = 0 /\ Spanned(table, 0) = 0
    BY <1>1, CountedIs, SpannedIs
  <2>2. TimeOf(t, 0) = 0
    BY TimesInOrder
  <2> QED
    BY <2>1, <2>2
<1>3. ASSUME NEW k \in Nat, k \in S PROVE k + 1 \in S
  <2> SUFFICES ASSUME k + 1 <= n
               PROVE  Spanned(table, k + 1) = TimeOf(t, Counted(table, k + 1))
    OBVIOUS
  <2>1. PICK x \in 1 .. n : x = k + 1 /\ x - 1 = k
    BY <1>1
  <2>2. k <= n /\ Spanned(table, k) = TimeOf(t, Counted(table, k))
    BY <1>1, <1>3
  <2>3. PICK c \in Nat : c = table[x].count
    BY <1>1 DEF Counts
  <2>4. Spanned(table, x) = Spanned(table, k) + c * table[x].duration
    BY <1>1, <2>1, <2>3, SpannedIs
  <2>5. Counted(table, x) = Counted(table, k) + c
    BY <1>1, <2>1, <2>3, CountedIs
  <2>6. c \in 0 .. table[x].count
    BY <2>3
  <2>7. TimeOf(t, Counted(table, k) + c) = TimeOf(t, Counted(table, k)) + c * table[x].duration
    BY <2>1, <2>6, TimesEven DEF table
  <2> QED
    BY <2>1, <2>2, <2>4, <2>5, <2>7
<1> HIDE DEF S
<1>4. e \in S
  BY <1>2, <1>3, Counting
<1> QED
  BY <1>1, <1>4 DEF S, table

\* stts_get_time gives the time of a sample that the table counts.
LEMMA SttsTimeIs ==
    ASSUME NEW t, IsTables(t), NEW j \in Nat, j < Total(t.stts)
    PROVE  SttsTime(t.stts, j) = TimeOf(t, j)
<1> DEFINE table == t.stts
           n == Len(table)
           Stops(x) == Counted(table, x) > j /\ \A h \in 1 .. x - 1 : Counted(table, h) <= j
<1>1. Counts(table) /\ n \in Nat
  BY TablesCount DEF Counts
<1>2. PICK e \in 1 .. n : Counted(table, e - 1) <= j /\ j < Counted(table, e)
  BY <1>1, EntryExists
<1> HIDE DEF table
<1>3. /\ \A x \in 0 .. n : Counted(table, x) \in Nat
      /\ \A a, b \in 0 .. n : a <= b => Counted(table, a) <= Counted(table, b)
  BY <1>1, CountedIs
<1>4. Stops(e)
  <2>1. ASSUME NEW h \in 1 .. e - 1 PROVE Counted(table, h) <= j
    <3>1. h \in 0 .. n /\ e - 1 \in 0 .. n /\ h <= e - 1
      BY <1>1
    <3>2. PICK a \in Nat : a = Counted(table, h)
      BY <1>3, <3>1
    <3>3. PICK b \in Nat : b = Counted(table, e - 1)
      BY <1>3, <3>1
    <3>4. a <= b
      BY <1>3, <3>1, <3>2, <3>3
    <3> QED
      BY <1>2, <3>2, <3>3, <3>4
  <2>2. e \in 0 .. n
    OBVIOUS
  <2> QED
    BY <1>2, <1>3, <2>1, <2>2
<1>5. ASSUME NEW x \in 1 .. n, Stops(x) PROVE x = e
  <2>1. ~ (x < e)
    <3> SUFFICES ASSUME x < e PROVE FALSE
      OBVIOUS
    <3>1. x \in 1 .. e - 1
      OBVIOUS
    <3>2. Counted(table, x) \in Nat
      BY <1>3
    <3> QED
      BY <1>4, <1>5, <3>1, <3>2
  <2>2. ~ (e < x)
    <3> SUFFICES ASSUME e < x PROVE FALSE
      OBVIOUS
    <3>1. e \in 1 .. x - 1
      OBVIOUS
    <3>2. Counted(table, e) \in Nat
      BY <1>3
    <3> QED
      BY <1>4, <1>5, <3>1, <3>2
  <2> QED
    BY <2>1, <2>2
<1>6. SampleStop(table, j) = e
  <2> DEFINE y == CHOOSE x \in 1 .. n : Stops(x)
  <2>1. y \in 1 .. n /\ Stops(y)
    BY <1>4
  <2>2. y = e
    BY <1>5, <2>1
  <2>3. SampleStop(table, j) = y
    BY DEF SampleStop
  <2> QED
    BY <2>2, <2>3
<1>7. PICK i \in Nat : i = j - Counted(table, e - 1) /\ i + Counted(table, e - 1) = j
  <2>1. e - 1 \in 0 .. n
    BY <1>1
  <2> QED
    BY <1>2, <1>3, <2>1
<1>8. i \in 0 .. table[e].count
  <2>1. Counted(table, e) = Counted(table, e - 1) + table[e].count /\ table[e].count \in Nat
    BY <1>1, CountedIs DEF Counts
  <2>2. Counted(table, e - 1) \in Nat
    BY <1>1, <1>3
  <2> QED
    BY <1>2, <1>7, <2>1, <2>2
<1>9. TimeOf(t, Counted(table, e - 1) + i) =
        TimeOf(t, Counted(table, e - 1)) + i * table[e].duration
  BY <1>8, TimesEven DEF table
<1>10. Counted(table, e - 1) + i = j
  <2>1. e - 1 \in 0 .. n
    BY <1>1
  <2> QED
    BY <1>3, <1>7, <2>1
<1>11. Spanned(table, e - 1) = TimeOf(t, Counted(table, e - 1))
  <2>1. e - 1 \in 0 .. n
    BY <1>1
  <2> QED
    BY <2>1, SpannedTime DEF table
<1> QED
  BY <1>6, <1>7, <1>9, <1>10, <1>11 DEF SttsTime, table

\* Rounded up: the least number of durations that are not shorter than x.
LEMMA RoundedUp ==
    ASSUME NEW x \in Nat, NEW d \in Nat, d > 0
    PROVE  \E c \in Nat : /\ c = (x + d - 1) \div d
                          /\ x <= c * d
                          /\ c > 0 => (c - 1) * d < x
<1>1. PICK y \in Nat : y = x + d - 1
  OBVIOUS
<1>2. PICK c \in Int : c = y \div d
  BY <1>1
<1>3. c * d <= y /\ y < c * d + d
  BY <1>1, <1>2
<1>4. c \in Nat
  <2> SUFFICES ASSUME c < 0 PROVE FALSE
    OBVIOUS
  <2>1. c * d + d = (c + 1) * d /\ c + 1 <= 0
    OBVIOUS
  <2>2. (c + 1) * d <= 0
    BY <2>1
  <2> QED
    BY <1>1, <1>3, <2>1, <2>2
<1>5. (c - 1) * d = c * d - d /\ c * d \in Nat
  BY <1>4
<1>6. x <= c * d /\ (c - 1) * d < x
  BY <1>1, <1>3, <1>5
<1> QED
  BY <1>1, <1>2, <1>4, <1>6

\* The least element, and that there is only one.
LEMMA LeastIs ==
    ASSUME NEW S \in SUBSET Nat, NEW m \in S, \A x \in S : m <= x
    PROVE  Min(S) = m
<1>1. Min(S) \in S /\ Min(S) <= m
  BY DEF Min
<1>2. PICK x \in Nat : x = Min(S)
  BY <1>1
<1> QED
  BY <1>1, <1>2

LEMMA GreatestIs ==
    ASSUME NEW S \in SUBSET Nat, NEW m \in S, \A x \in S : x <= m
    PROVE  Max(S) = m
<1>1. Max(S) \in S /\ Max(S) >= m
  BY DEF Max
<1>2. PICK x \in Nat : x = Max(S)
  BY <1>1
<1> QED
  BY <1>1, <1>2

\* Behind the last entry no time is left.
LEMMA TimeTotal ==
    ASSUME NEW t, IsTables(t)
    PROVE  Len(t.stts) \in Nat /\ Spanned(t.stts, Len(t.stts)) = TimeOf(t, Total(t.stts))
<1>1. Len(t.stts) \in Nat
  BY TablesCount DEF Counts
<1>2. Len(t.stts) \in 0 .. Len(t.stts)
  BY <1>1
<1> QED
  BY <1>1, <1>2, SpannedTime DEF Total

\* The entry in which a time is: it stops the loop of stts_get_sample.
LEMMA TimeStopIs ==
    ASSUME NEW t, IsTables(t), NEW time \in Nat, time <= TimeOf(t, Total(t.stts)),
           Len(t.stts) > 0
    PROVE  \E e \in 1 .. Len(t.stts) :
             /\ TimeStop(t.stts, time) = e
             /\ Spanned(t.stts, e) >= time
             /\ e = 1 \/ Spanned(t.stts, e - 1) < time
<1> DEFINE table == t.stts
           n == Len(table)
           S == {e \in 1 .. n : Spanned(table, e) >= time}
           Stops(e) == /\ e <= n => Spanned(table, e) >= time
                       /\ \A h \in 1 .. e - 1 : Spanned(table, h) < time
<1>1. Spans(table) /\ n \in Nat
  BY TablesCount DEF Spans, Counts
<1>2. \A e \in 0 .. n : Spanned(table, e) \in Nat
  BY <1>1, SpannedIs
<1>3. n \in S
  <2>1. Spanned(table, n) = TimeOf(t, Total(table))
    BY TimeTotal
  <2>2. n \in 1 .. n /\ n \in 0 .. n
    BY <1>1
  <2> QED
    BY <1>2, <2>1, <2>2
<1> HIDE DEF table
<1>4. PICK e \in S : \A x \in S : e <= x
  <2>1. S \in SUBSET Nat
    OBVIOUS
  <2> HIDE DEF S
  <2> QED
    BY <1>3, <2>1, LeastNumber
<1>5. e \in 1 .. n /\ Spanned(table, e) >= time /\ e \in 0 .. n
  BY <1>1
<1>6. ASSUME NEW h \in 1 .. e - 1 PROVE Spanned(table, h) < time
  <2>1. h \in 1 .. n /\ h \in 0 .. n /\ ~ (e <= h)
    BY <1>1, <1>5
  <2>2. h \notin S
    BY <1>4, <2>1
  <2>3. PICK x \in Nat : x = Spanned(table, h)
    BY <1>2, <2>1
  <2>4. ~ (x >= time)
    BY <2>1, <2>2, <2>3
  <2> QED
    BY <2>3, <2>4
<1> HIDE DEF S
<1>7. Stops(e)
  BY <1>5, <1>6
<1>8. ASSUME NEW x \in 1 .. n + 1, Stops(x) PROVE x = e
  <2>1. ~ (x < e)
    <3> SUFFICES ASSUME x < e PROVE FALSE
      OBVIOUS
    <3>1. x \in 1 .. e - 1 /\ x <= n /\ x \in 0 .. n
      BY <1>1, <1>5
    <3>2. PICK y \in Nat : y = Spanned(table, x)
      BY <1>2, <3>1
    <3>3. y < time /\ y >= time
      BY <1>6, <1>8, <3>1, <3>2
    <3> QED
      BY <3>3
  <2>2. ~ (e < x)
    <3> SUFFICES ASSUME e < x PROVE FALSE
      OBVIOUS
    <3>1. e \in 1 .. x - 1
      BY <1>1, <1>5
    <3>2. PICK y \in Nat : y = Spanned(table, e)
      BY <1>2, <1>5
    <3>3. y < time /\ y >= time
      BY <1>5, <1>8, <3>1, <3>2
    <3> QED
      BY <3>3
  <2> QED
    BY <1>1, <1>5, <2>1, <2>2
<1>9. TimeStop(table, time) = e
  <2> DEFINE y == CHOOSE x \in 1 .. n + 1 : Stops(x)
  <2>1. e \in 1 .. n + 1
    BY <1>1, <1>5
  <2>2. y \in 1 .. n + 1 /\ Stops(y)
    <3> HIDE DEF Stops
    <3> QED
      BY <1>7, <2>1
  <2>3. y = e
    <3> HIDE DEF Stops, y
    <3> QED
      BY <1>8, <2>2
  <2>4. TimeStop(table, time) = y
    BY DEF TimeStop
  <2> QED
    BY <2>3, <2>4
<1>10. e = 1 \/ Spanned(table, e - 1) < time
  <2>1. CASE e # 1
    <3>1. e - 1 \in 1 .. e - 1
      BY <1>5, <2>1
    <3> QED
      BY <1>6, <3>1
  <2> QED
    BY <2>1
<1> QED
  BY <1>5, <1>9, <1>10 DEF table

\* stts_get_sample gives the first sample that does not begin before the time.
LEMMA SttsSampleIs ==
    ASSUME NEW t, IsTables(t), Dense(t), NEW time \in Nat, time <= TimeOf(t, Total(t.stts))
    PROVE  /\ SttsSample(t.stts, time) \in 0 .. Total(t.stts)
           /\ TimeOf(t, SttsSample(t.stts, time)) >= time
           /\ \A j \in 0 .. SttsSample(t.stts, time) - 1 : TimeOf(t, j) < time
<1> DEFINE table == t.stts
           n == Len(table)
           all == Total(table)
<1>1. /\ all \in Nat /\ TimeOf(t, 0) = 0
      /\ \A k \in 0 .. all : TimeOf(t, k) \in Nat
      /\ \A a, b \in 0 .. all : a <= b => TimeOf(t, a) <= TimeOf(t, b)
  BY TimesInOrder
<1>2. Spans(table) /\ Counts(table) /\ n \in Nat
  BY TablesCount DEF Spans, Counts
<1>3. CASE n = 0
  <2>1. all = 0
    BY <1>2, <1>3, CountedIs DEF Total
  <2>2. 1 .. n + 1 = {1}
    BY <1>3
  <2>3. TimeStop(table, time) \in 1 .. n + 1
    <3> DEFINE y == CHOOSE e \in 1 .. n + 1 : /\ e <= n => Spanned(table, e) >= time
                                              /\ \A h \in 1 .. e - 1 : Spanned(table, h) < time
    <3>1. 1 \in 1 .. n + 1 /\ ~ (1 <= n) /\ 1 .. 1 - 1 = {}
      BY <1>3
    <3>2. y \in 1 .. n + 1
      BY <3>1
    <3> QED
      BY <3>2 DEF TimeStop
  <2>4. TimeStop(table, time) > n
    BY <1>3, <2>2, <2>3
  <2>5. SttsSample(table, time) = Counted(table, n)
    BY <2>4 DEF SttsSample
  <2>6. Counted(table, n) = 0
    BY <2>1 DEF Total
  <2>7. time <= 0
    BY <1>1, <2>1
  <2> QED
    BY <1>1, <2>1, <2>5, <2>6, <2>7
<1>4. CASE n # 0
  <2>1. PICK e \in 1 .. n : /\ TimeStop(table, time) = e
                            /\ Spanned(table, e) >= time
                            /\ e = 1 \/ Spanned(table, e - 1) < time
    BY <1>2, <1>4, TimeStopIs
  <2>2. PICK d \in Nat : d = table[e].duration /\ d > 0
    BY <1>2 DEF Dense, Spans
  <2>3. PICK m \in Nat : m = table[e].count
    BY <1>2 DEF Counts
  <2> HIDE DEF table, all
  <2>4. e - 1 \in 0 .. n /\ e \in 0 .. n
    BY <1>2
  <2>5. PICK a \in Nat : a = Counted(table, e - 1)
    BY <1>2, <2>4, CountedIs
  <2>6. PICK p \in Nat : p = Spanned(table, e - 1)
    BY <1>2, <2>4, SpannedIs
  <2>7. p = TimeOf(t, a)
    BY <2>4, <2>5, <2>6, SpannedTime DEF table
  <2>8. p + m * d >= time
    BY <1>2, <2>1, <2>2, <2>3, <2>6, SpannedIs
  <2>9. p <= time /\ (e = 1 \/ p < time)
    BY <1>2, <2>1, <2>6, SpannedIs
  <2>10. PICK x \in Nat : x = time - p /\ time = p + x
    BY <2>9
  <2>11. PICK c \in Nat : c = (x + d - 1) \div d /\ x <= c * d /\ (c > 0 => (c - 1) * d < x)
    BY <2>2, RoundedUp
  <2>12. c <= m
    <3> SUFFICES ASSUME m < c PROVE FALSE
      OBVIOUS
    <3>1. PICK z \in Nat : c = m + 1 + z
      <4>1. c - m - 1 \in Nat /\ c = m + 1 + (c - m - 1)
        OBVIOUS
      <4> QED
        BY <4>1
    <3>2. (c - 1) * d = m * d + z * d /\ z * d \in Nat /\ m * d \in Nat
      BY <3>1
    <3>3. (c - 1) * d < x
      BY <2>11, <3>1
    <3>4. x <= m * d
      BY <2>8, <2>10, <3>2
    <3> QED
      BY <3>2, <3>3, <3>4
  <2>13. SttsSample(table, time) = a + c
    <3>1. ~ (e > Len(table))
      BY <1>2
    <3>2. time - Spanned(table, e - 1) + table[e].duration - 1 = x + d - 1
      BY <2>2, <2>6, <2>10
    <3> QED
      BY <2>1, <2>2, <2>5, <2>11, <3>1, <3>2 DEF SttsSample
  <2>14. a + m <= all /\ a + c \in 0 .. all
    <3>1. Counted(table, e) = a + m
      BY <1>2, <2>3, <2>5, CountedIs
    <3>2. n \in 0 .. n /\ e <= n
      BY <1>2
    <3>3. Counted(table, e) <= Counted(table, n)
      BY <1>2, <2>4, <3>2, CountedIs
    <3>4. a + m <= all
      BY <3>1, <3>3 DEF all, Total
    <3> QED
      BY <1>1, <2>12, <3>4
  <2>15. \A i \in 0 .. m : TimeOf(t, a + i) = p + i * d
    BY <2>2, <2>3, <2>5, <2>7, TimesEven DEF table
  <2>16. TimeOf(t, a + c) >= time
    <3>1. c \in 0 .. m /\ c * d \in Nat
      BY <2>12
    <3>2. TimeOf(t, a + c) = p + c * d
      BY <2>15, <3>1
    <3> QED
      BY <2>10, <2>11, <3>1, <3>2
  <2>17. ASSUME NEW j \in 0 .. a + c - 1 PROVE TimeOf(t, j) < time
    <3>1. CASE c = 0
      <4>1. x <= 0
        BY <2>11, <3>1
      <4>2. e = 1
        BY <2>9, <2>10, <4>1
      <4>3. a = 0
        BY <1>2, <2>5, <4>2, CountedIs
      <4> QED
        BY <3>1, <4>3
    <3>2. CASE c > 0
      <4>1. PICK i \in 0 .. m : i = c - 1 /\ a + i = a + c - 1
        <5>1. c - 1 \in 0 .. m /\ a + (c - 1) = a + c - 1
          BY <2>12, <3>2
        <5> QED
          BY <5>1
      <4>2. i * d < x /\ i * d \in Nat
        BY <2>11, <3>2, <4>1
      <4>3. TimeOf(t, a + i) = p + i * d
        BY <2>15
      <4>4. j \in 0 .. all /\ a + i \in 0 .. all /\ j <= a + i
        BY <1>1, <2>14, <4>1
      <4>5. PICK y \in Nat : y = TimeOf(t, j)
        BY <1>1, <4>4
      <4>6. y <= p + i * d
        BY <1>1, <4>3, <4>4, <4>5
      <4> QED
        BY <2>10, <4>2, <4>5, <4>6
    <3> QED
      BY <3>1, <3>2
  <2> QED
    BY <2>13, <2>14, <2>16, <2>17 DEF table, all
<1> QED
  BY <1>2, <1>3, <1>4

\* A table in order: not only next to each other.
LEMMA InOrder ==
    ASSUME NEW list, Len(list) \in Nat, \A n \in 1 .. Len(list) : list[n] \in Nat,
           \A n \in 2 .. Len(list) : list[n - 1] < list[n]
    PROVE  \A a, b \in 1 .. Len(list) : a < b => list[a] < list[b]
<1> DEFINE n == Len(list)
<1> SUFFICES ASSUME NEW a \in 1 .. n PROVE \A b \in 1 .. n : a < b => list[a] < list[b]
  OBVIOUS
<1> DEFINE S == {d \in Nat : a + d + 1 <= n => list[a] < list[a + d + 1]}
<1>1. 0 \in S
  <2> SUFFICES ASSUME a + 0 + 1 <= n PROVE list[a] < list[a + 0 + 1]
    OBVIOUS
  <2>1. PICK b \in 2 .. n : b = a + 0 + 1 /\ b - 1 = a
    OBVIOUS
  <2> QED
    BY <2>1
<1>2. ASSUME NEW d \in Nat, d \in S PROVE d + 1 \in S
  <2> SUFFICES ASSUME a + (d + 1) + 1 <= n PROVE list[a] < list[a + (d + 1) + 1]
    OBVIOUS
  <2>1. PICK b \in 2 .. n : b = a + (d + 1) + 1 /\ b - 1 = a + d + 1 /\ b - 1 \in 1 .. n
    OBVIOUS
  <2>2. list[a] < list[b - 1]
    BY <1>2, <2>1
  <2>3. list[b - 1] < list[b]
    BY <2>1
  <2>4. list[a] \in Nat /\ list[b - 1] \in Nat /\ list[b] \in Nat
    BY <2>1
  <2> QED
    BY <2>1, <2>2, <2>3, <2>4
<1> HIDE DEF S
<1>3. ASSUME NEW b \in 1 .. n, a < b PROVE list[a] < list[b]
  <2>1. PICK d \in Nat : b = a + d + 1
    <3>1. b - a - 1 \in Nat /\ b = a + (b - a - 1) + 1
      BY <1>3
    <3> QED
      BY <3>1
  <2>2. d \in S
    BY <1>1, <1>2, Counting
  <2> QED
    BY <2>1, <2>2 DEF S
<1> QED
  BY <1>3

\* The place at which the scan of the sync samples stops.
LEMMA ScanStopIs ==
    ASSUME NEW stss, Len(stss) \in Nat, \A n \in 1 .. Len(stss) : stss[n] \in Nat,
           NEW number \in Nat
    PROVE  /\ ScanStop(stss, number) \in 1 .. Len(stss) + 1
           /\ ScanStop(stss, number) <= Len(stss) => stss[ScanStop(stss, number)] >= number
           /\ \A h \in 1 .. ScanStop(stss, number) - 1 : stss[h] < number
<1> DEFINE n == Len(stss)
           S == {i \in 1 .. n + 1 : i <= n => stss[i] >= number}
           Stops(i) == /\ i <= n => stss[i] >= number
                       /\ \A h \in 1 .. i - 1 : stss[h] < number
<1>1. PICK i \in S : \A x \in S : i <= x
  <2>1. S \in SUBSET Nat /\ n + 1 \in S
    OBVIOUS
  <2> HIDE DEF S
  <2> QED
    BY <2>1, LeastNumber
<1>2. ASSUME NEW h \in 1 .. i - 1 PROVE stss[h] < number
  <2>1. h \in 1 .. n + 1 /\ h <= n /\ ~ (i <= h) /\ h \in 1 .. n
    OBVIOUS
  <2>2. h \notin S
    BY <1>1, <2>1
  <2>3. ~ (stss[h] >= number) /\ stss[h] \in Nat
    BY <2>1, <2>2
  <2> QED
    BY <2>3
<1>3. i \in 1 .. n + 1 /\ Stops(i)
  BY <1>2
<1> HIDE DEF Stops
<1>4. ScanStop(stss, number) = CHOOSE x \in 1 .. n + 1 : Stops(x)
  BY DEF ScanStop, Stops
<1>5. ScanStop(stss, number) \in 1 .. n + 1 /\ Stops(ScanStop(stss, number))
  BY <1>3, <1>4
<1> QED
  BY <1>5 DEF Stops

\* Of a table in order that begins at or before a number,
\* stss_get_nearest_keyframe gives the greatest entry that is not greater.
LEMMA NearestIs ==
    ASSUME NEW stss, Len(stss) \in Nat, \A n \in 1 .. Len(stss) : stss[n] \in Nat,
           Len(stss) > 0, \A n \in 2 .. Len(stss) : stss[n - 1] < stss[n],
           NEW number \in Nat, stss[1] <= number
    PROVE  \E h \in 1 .. Len(stss) :
             /\ NearestKeyframe(stss, number) = stss[h] /\ stss[h] <= number
             /\ \A x \in 1 .. Len(stss) : stss[x] <= number => stss[x] <= stss[h]
<1> DEFINE n == Len(stss)
<1>1. PICK i \in 1 .. n + 1 :
        /\ i = ScanStop(stss, number)
        /\ i <= n => stss[i] >= number
        /\ \A h \in 1 .. i - 1 : stss[h] < number
  BY ScanStopIs
<1>2. \A a, b \in 1 .. n : a < b => stss[a] < stss[b]
  BY InOrder
<1>3. CASE i <= n /\ stss[i] = number
  <2>1. NearestKeyframe(stss, number) = number
    BY <1>1, <1>3 DEF NearestKeyframe
  <2>2. i \in 1 .. n
    BY <1>3
  <2> QED
    BY <1>3, <2>1, <2>2
<1>4. CASE ~ (i <= n /\ stss[i] = number)
  <2>1. NearestKeyframe(stss, number) = stss[i - 1]
    BY <1>1, <1>4 DEF NearestKeyframe
  <2>2. i # 1
    <3> SUFFICES ASSUME i = 1 PROVE FALSE
      OBVIOUS
    <3>1. 1 \in 1 .. n /\ i <= n
      OBVIOUS
    <3>2. stss[1] >= number /\ stss[1] <= number /\ stss[1] \in Nat
      BY <1>1, <3>1
    <3>3. stss[1] = number
      BY <3>2
    <3> QED
      BY <1>4, <3>1, <3>3
  <2>3. i - 1 \in 1 .. n /\ i - 1 \in 1 .. i - 1
    BY <2>2
  <2>4. stss[i - 1] < number /\ stss[i - 1] \in Nat
    BY <1>1, <2>3
  <2>5. ASSUME NEW x \in 1 .. n, stss[x] <= number PROVE stss[x] <= stss[i - 1]
    <3>1. PICK y \in Nat : y = stss[x]
      OBVIOUS
    <3>2. CASE x = i - 1
      BY <2>4, <3>2
    <3>3. CASE x < i - 1
      BY <1>2, <2>3, <2>4, <3>1, <3>3
    <3>4. CASE x > i - 1
      <4>1. i \in 1 .. n /\ i <= n /\ (x = i \/ i < x)
        BY <3>4
      <4>2. PICK z \in Nat : z = stss[i]
        BY <4>1
      <4>3. z > number
        BY <1>1, <1>4, <4>1, <4>2
      <4>4. z <= y
        BY <1>2, <3>1, <4>1, <4>2
      <4> QED
        BY <2>5, <3>1, <4>3, <4>4
    <3> QED
      BY <2>3, <3>2, <3>3, <3>4
  <2>6. stss[i - 1] <= number
    BY <2>4
  <2> QED
    BY <2>1, <2>3, <2>5, <2>6
<1> QED
  BY <1>3, <1>4

\* In the index the greatest entry is the last mark.
LEMMA KeyframeIs ==
    ASSUME NEW t, NEW a, IsTables(t), ~ t.implicit, a.size \in Nat, AsListed(t, a), Ascending(t),
           \A n \in 1 .. Len(t.stss) : t.stss[n] \in 1 .. a.size,
           NEW j \in 0 .. a.size - 1, t.stss[1] <= j + 1
    PROVE  /\ StblKeyframe(t, j + 1) \in 1 .. j + 1
           /\ a.sync[StblKeyframe(t, j + 1) - 1]
           /\ \A n \in 1 .. j + 1 : a.sync[n - 1] => n <= StblKeyframe(t, j + 1)
<1> DEFINE stss == t.stss
<1>0. stss \in Seq(Nat)
  BY DEF IsTables
<1>1. Len(stss) \in Nat /\ \A n \in 1 .. Len(stss) : stss[n] \in Nat
  <2> HIDE DEF stss
  <2> QED
    BY <1>0
<1>2. Len(stss) > 0 /\ \A n \in 2 .. Len(stss) : stss[n - 1] < stss[n]
  <2>1. stss # <<>>
    BY DEF Ascending
  <2>2. Len(stss) # 0
    <3> HIDE DEF stss
    <3> QED
      BY <1>0, <2>1
  <2> QED
    <3>1. \A n \in 2 .. Len(stss) : stss[n - 1] < stss[n]
      BY DEF Ascending
    <3>2. Len(stss) > 0
      BY <1>1, <2>2
    <3> QED
      BY <3>1, <3>2
<1>3. StblKeyframe(t, j + 1) = NearestKeyframe(stss, j + 1)
  BY DEF StblKeyframe
<1>x. stss[1] <= j + 1 /\ \A n \in 1 .. Len(stss) : stss[n] \in 1 .. a.size
  OBVIOUS
<1> HIDE DEF stss
<1>4. PICK m \in Nat : m = j + 1
  OBVIOUS
<1>5. PICK h \in 1 .. Len(stss) :
        /\ NearestKeyframe(stss, m) = stss[h] /\ stss[h] <= m
        /\ \A x \in 1 .. Len(stss) : stss[x] <= m => stss[x] <= stss[h]
  <2>1. stss[1] <= m
    BY <1>x, <1>4
  <2> QED
    BY <1>1, <1>2, <2>1, NearestIs
<1>6. PICK key \in 1 .. a.size : key = stss[h]
  BY <1>x
<1>7. key \in 1 .. m /\ StblKeyframe(t, j + 1) = key
  BY <1>3, <1>4, <1>5, <1>6
<1>8. \A i \in 0 .. a.size - 1 : a.sync[i] <=> \E n \in 1 .. Len(stss) : stss[n] = i + 1
  BY DEF AsListed, stss
<1>9. a.sync[key - 1]
  <2>1. key - 1 \in 0 .. a.size - 1 /\ key - 1 + 1 = key
    OBVIOUS
  <2> QED
    BY <1>6, <1>8, <2>1
<1>10. ASSUME NEW n \in 1 .. j + 1, a.sync[n - 1] PROVE n <= key
  <2>1. n - 1 \in 0 .. a.size - 1 /\ n - 1 + 1 = n /\ n <= m
    BY <1>4
  <2>2. PICK x \in 1 .. Len(stss) : stss[x] = n
    BY <1>8, <1>10, <2>1
  <2> QED
    BY <1>5, <1>6, <2>1, <2>2
<1> QED
  BY <1>4, <1>7, <1>9, <1>10

\* What is known, once the index is built, of a track whose tables agree.
Known(t, a) ==
    /\ IsTables(t) /\ IsTrak(a) /\ a.timescale = t.timescale
    /\ a.size = Total(t.stts) /\ \A j \in 0 .. a.size : a.pts[j] = TimeOf(t, j)
    /\ \A n \in 1 .. Len(t.stss) : t.stss[n] \in 1 .. a.size
    /\ ~ t.implicit => AsListed(t, a)

LEMMA KnownIs ==
    ASSUME DataInv, pc = "indexed", NEW k \in AgreeingTracks
    PROVE  /\ Known(movie.traks[k], index[k])
           /\ k \in Tracks /\ movie.timescale \in Nat \ {0} /\ Len(index) = Len(movie.traks)
<1> DEFINE t == movie.traks[k]
           a == index[k]
<1>1. k \in 1 .. Len(index) /\ Agree(t)
  BY DEF AgreeingTracks
<1>2. TypesKept /\ IndexKept
  BY DEF DataInv, LoopInv
<1>3. movie \in Movies /\ Len(index) = Len(movie.traks) /\ a.timescale = t.timescale
  BY <1>1, <1>2 DEF TypesKept, IndexKept
<1>4. IsTables(t) /\ movie.timescale \in Nat \ {0} /\ k \in Tracks
  BY <1>1, <1>3, IndexAssumption DEF Tracks
<1>5. Built(t, a) /\ (~ Touched(k) => AsListed(t, a))
  BY <1>1 DEF DataInv, IndexData
<1>6. ~ t.implicit => AsListed(t, a)
  BY <1>5 DEF Touched, Bare
<1>7. IndexTrue
  BY DataTrue
<1>8. a.size = SizeOf(t) /\ IsTrak(a) /\ \A j \in 0 .. a.size : a.pts[j] = TimeOf(t, j)
  BY <1>7 DEF IndexTrue
<1> HIDE DEF t, a
<1>9. Total(t.stts) = SizeOf(t)
  BY <1>1, <1>4, AgreeIs
<1>10. \A n \in 1 .. Len(t.stss) : t.stss[n] \in 1 .. a.size
  BY <1>1, <1>8 DEF Agree
<1> QED
  BY <1>3, <1>4, <1>6, <1>8, <1>9, <1>10 DEF Known, t, a

\* The least of the samples that do not begin before a time.
LEMMA FirstFromIs ==
    ASSUME NEW a, IsTrak(a), NEW time \in Nat, NEW m \in 0 .. a.size, a.pts[m] >= time,
           \A j \in 0 .. m - 1 : a.pts[j] < time
    PROVE  FirstFrom(a, time) = m
<1> DEFINE S == {j \in 0 .. a.size : a.pts[j] >= time}
<1>1. a.size \in Nat /\ \A j \in 0 .. a.size : a.pts[j] \in Nat
  BY DEF IsTrak
<1>2. S \in SUBSET Nat /\ m \in S
  BY <1>1
<1>3. ASSUME NEW x \in S PROVE m <= x
  <2>1. x \in 0 .. a.size /\ a.pts[x] >= time
    OBVIOUS
  <2>2. ~ (x < m)
    <3> SUFFICES ASSUME x < m PROVE FALSE
      OBVIOUS
    <3>1. x \in 0 .. m - 1
      BY <2>1
    <3>2. a.pts[x] < time /\ a.pts[x] \in Nat
      BY <1>1, <2>1, <3>1
    <3> QED
      BY <2>1, <3>2
  <2> QED
    BY <1>1, <2>1, <2>2
<1>4. Min(S) = m
  <2> HIDE DEF S
  <2> QED
    BY <1>2, <1>3, LeastIs
<1> QED
  BY <1>4 DEF FirstFrom

LEMMA SampleKnown ==
    ASSUME NEW t, NEW a, Known(t, a), Dense(t), NEW time \in 0 .. a.pts[a.size]
    PROVE  /\ SttsSample(t.stts, time) = FirstFrom(a, time)
           /\ FirstFrom(a, time) \in 0 .. a.size
           /\ a.pts[FirstFrom(a, time)] >= time
           /\ \A j \in 0 .. FirstFrom(a, time) - 1 : a.pts[j] < time
<1>1. /\ IsTables(t) /\ IsTrak(a) /\ a.size = Total(t.stts)
      /\ \A j \in 0 .. a.size : a.pts[j] = TimeOf(t, j)
  BY DEF Known
<1>2. a.size \in Nat /\ \A j \in 0 .. a.size : a.pts[j] \in Nat
  BY <1>1 DEF IsTrak
<1>3. a.size \in 0 .. a.size /\ time \in Nat
  BY <1>2
<1>4. time <= TimeOf(t, Total(t.stts))
  BY <1>1, <1>2, <1>3
<1>5. PICK m \in 0 .. a.size : /\ m = SttsSample(t.stts, time) /\ TimeOf(t, m) >= time
                               /\ \A j \in 0 .. m - 1 : TimeOf(t, j) < time
  BY <1>1, <1>3, <1>4, SttsSampleIs
<1>6. a.pts[m] >= time /\ \A j \in 0 .. m - 1 : a.pts[j] < time
  <2>1. \A j \in 0 .. m - 1 : j \in 0 .. a.size
    BY <1>2
  <2> QED
    BY <1>1, <1>5, <2>1
<1>7. FirstFrom(a, time) = m
  BY <1>1, <1>3, <1>6, FirstFromIs
<1> QED
  BY <1>5, <1>6, <1>7

LEMMA KeyKnown ==
    ASSUME NEW t, NEW a, Known(t, a), Ascending(t), NEW j \in 0 .. a.size - 1, t.stss[1] <= j + 1
    PROVE  /\ StblKeyframe(t, j + 1) \in 1 .. j + 1
           /\ a.sync[StblKeyframe(t, j + 1) - 1]
           /\ \A n \in 1 .. j + 1 : a.sync[n - 1] => n <= StblKeyframe(t, j + 1)
<1>1. ~ t.implicit
  BY DEF Ascending, Known, IsTables
<1> QED
  BY <1>1, KeyframeIs DEF Known, IsTrak

\* The lookups of stts and stss give what the index has.
LEMMA LookupsKnown == ASSUME NEW t, NEW a, Known(t, a) PROVE LookupsTrue(t, a)
<1>1. /\ IsTables(t) /\ a.size \in Nat /\ a.size = Total(t.stts)
      /\ \A j \in 0 .. a.size : a.pts[j] = TimeOf(t, j)
  BY DEF Known, IsTrak
<1>2. ASSUME NEW j \in 0 .. a.size - 1 PROVE SttsTime(t.stts, j) = a.pts[j]
  <2>1. j \in Nat /\ j < Total(t.stts) /\ j \in 0 .. a.size
    BY <1>1
  <2> QED
    BY <1>1, <2>1, SttsTimeIs
<1>3. ASSUME Dense(t), NEW time \in 0 .. a.pts[a.size]
      PROVE  SttsSample(t.stts, time) = FirstFrom(a, time)
  BY <1>3, SampleKnown
<1>4. ASSUME Ascending(t), NEW j \in 0 .. a.size - 1, t.stss[1] <= j + 1
      PROVE  StblKeyframe(t, j + 1) = Max({n \in 1 .. j + 1 : a.sync[n - 1]})
  <2> DEFINE S == {n \in 1 .. j + 1 : a.sync[n - 1]}
  <2>1. PICK key : key = StblKeyframe(t, j + 1)
    OBVIOUS
  <2>2. S \in SUBSET Nat /\ key \in S /\ \A n \in S : n <= key
    BY <1>4, <2>1, KeyKnown
  <2> HIDE DEF S
  <2>3. Max(S) = key
    BY <2>2, GreatestIs
  <2> QED
    BY <2>1, <2>3 DEF S
<1> QED
  BY <1>2, <1>3, <1>4 DEF LookupsTrue

-------------------------------------------------------------------------------
(* The cut through two tracks: four turns, of which two are theirs. *)

\* The four turns of the passes over two tracks.
LEMMA AlignedIs ==
    ASSUME NEW traks, Len(traks) = 2, NEW scale, NEW moment, NEW default
    PROVE  LET g0 == [samples |-> default, time |-> moment]
               g1 == Turn(traks, scale, 0, g0)
               g2 == Turn(traks, scale, 1, g1)
               g3 == Turn(traks, scale, 2, g2)
           IN  Aligned(traks, scale, moment, default) = Turn(traks, scale, 3, g3)
<1> DEFINE g0 == [samples |-> default, time |-> moment]
           g1 == Turn(traks, scale, 0, g0)
           g2 == Turn(traks, scale, 1, g1)
           g3 == Turn(traks, scale, 2, g2)
           g4 == Turn(traks, scale, 3, g3)
           Turned(f) == f = [n \in 0 .. 4 |->
                              IF n = 0 THEN g0 ELSE Turn(traks, scale, n - 1, f[n - 1])]
           cut == CHOOSE f : Turned(f)
<1>1. PICK four : four = 2 * Len(traks) /\ four = 4
  OBVIOUS
<1>2. \E f : Turned(f)
  <2> DEFINE f == [n \in 0 .. 4 |-> CASE n = 0 -> g0 [] n = 1 -> g1 [] n = 2 -> g2
                                       [] n = 3 -> g3 [] OTHER -> g4]
             h == [n \in 0 .. 4 |->
                     IF n = 0 THEN g0 ELSE Turn(traks, scale, n - 1, f[n - 1])]
  <2> HIDE DEF g0
  <2>1. /\ f[0] = g0 /\ f[1] = g1 /\ f[2] = g2 /\ f[3] = g3 /\ f[4] = g4
    <3> HIDE DEF g1, g2, g3, g4
    <3> QED
      OBVIOUS
  <2> HIDE DEF f
  <2>2. ASSUME NEW n \in 0 .. 4 PROVE f[n] = h[n]
    <3>0. h[n] = IF n = 0 THEN g0 ELSE Turn(traks, scale, n - 1, f[n - 1])
      OBVIOUS
    <3> HIDE DEF h
    <3>1. n \in {0, 1, 2, 3, 4}
      OBVIOUS
    <3>2. CASE n = 0
      BY <2>1, <3>0, <3>2
    <3>3. CASE n = 1
      <4>1. n # 0 /\ n - 1 = 0
        BY <3>3
      <4> QED
        BY <2>1, <3>0, <3>3, <4>1
    <3>4. CASE n = 2
      <4>1. n # 0 /\ n - 1 = 1
        BY <3>4
      <4> QED
        BY <2>1, <3>0, <3>4, <4>1
    <3>5. CASE n = 3
      <4>1. n # 0 /\ n - 1 = 2
        BY <3>5
      <4> QED
        BY <2>1, <3>0, <3>5, <4>1
    <3>6. CASE n = 4
      <4>1. n # 0 /\ n - 1 = 3
        BY <3>6
      <4> QED
        BY <2>1, <3>0, <3>6, <4>1
    <3> QED
      BY <3>1, <3>2, <3>3, <3>4, <3>5, <3>6
  <2>3. f = [n \in 0 .. 4 |-> f[n]] /\ h = [n \in 0 .. 4 |-> h[n]]
    BY DEF f
  <2>4. f = h
    <3> HIDE DEF h
    <3> QED
      BY <2>2, <2>3
  <2> QED
    BY <2>4
<1>3. Turned(cut)
  <2> HIDE DEF Turned
  <2> QED
    BY <1>2
<1>4. Aligned(traks, scale, moment, default) = cut[4]
  BY <1>1 DEF Aligned
<1> HIDE DEF cut, g0
<1>5. /\ cut[0] = g0
      /\ cut[1] = Turn(traks, scale, 0, cut[0])
      /\ cut[2] = Turn(traks, scale, 1, cut[1])
      /\ cut[3] = Turn(traks, scale, 2, cut[2])
      /\ cut[4] = Turn(traks, scale, 3, cut[3])
  <2>1. \A n \in 0 .. 4 : cut[n] = IF n = 0 THEN g0 ELSE Turn(traks, scale, n - 1, cut[n - 1])
    BY <1>3
  <2>2. /\ 0 \in 0 .. 4 /\ 1 \in 0 .. 4 /\ 2 \in 0 .. 4 /\ 3 \in 0 .. 4 /\ 4 \in 0 .. 4
        /\ 1 - 1 = 0 /\ 2 - 1 = 1 /\ 3 - 1 = 2 /\ 4 - 1 = 3
    OBVIOUS
  <2> QED
    BY <2>1, <2>2
<1> QED
  BY <1>4, <1>5 DEF g0

\* A turn that is not the track's leaves the cut as it is.
LEMMA TurnIsNot ==
    ASSUME NEW traks, Len(traks) = 2, NEW scale, NEW cut,
           \A k \in 1 .. 2 : traks[k].implicit \in BOOLEAN
    PROVE  /\ traks[1].implicit => Turn(traks, scale, 0, cut) = cut
           /\ traks[2].implicit => Turn(traks, scale, 1, cut) = cut
           /\ ~ traks[1].implicit => Turn(traks, scale, 2, cut) = cut
           /\ ~ traks[2].implicit => Turn(traks, scale, 3, cut) = cut
<1>1. /\ 0 % 2 = 0 /\ 1 % 2 = 1 /\ 2 % 2 = 0 /\ 3 % 2 = 1
      /\ 0 \div 2 = 0 /\ 1 \div 2 = 0 /\ 2 \div 2 = 1 /\ 3 \div 2 = 1
  OBVIOUS
<1>2. /\ (0 % 2) + 1 = 1 /\ (1 % 2) + 1 = 2 /\ (2 % 2) + 1 = 1 /\ (3 % 2) + 1 = 2
  BY <1>1
<1> QED
  BY <1>1, <1>2 DEF Turn, InPass

\* Its own turn.
Moved(traks, scale, k, cut) ==
    LET own == AlignTrak(traks[k], scale, cut.time)
    IN  IF cut.time = 0 THEN cut
        ELSE [samples |-> [cut.samples EXCEPT ![k] = own.sample], time |-> own.time]

LEMMA TurnIsOwn ==
    ASSUME NEW traks, Len(traks) = 2, NEW scale, NEW cut,
           \A k \in 1 .. 2 : traks[k].implicit \in BOOLEAN
    PROVE  /\ ~ traks[1].implicit => Turn(traks, scale, 0, cut) = Moved(traks, scale, 1, cut)
           /\ ~ traks[2].implicit => Turn(traks, scale, 1, cut) = Moved(traks, scale, 2, cut)
           /\ traks[1].implicit => Turn(traks, scale, 2, cut) = Moved(traks, scale, 1, cut)
           /\ traks[2].implicit => Turn(traks, scale, 3, cut) = Moved(traks, scale, 2, cut)
<1>1. /\ 0 % 2 = 0 /\ 1 % 2 = 1 /\ 2 % 2 = 0 /\ 3 % 2 = 1
      /\ 0 \div 2 = 0 /\ 1 \div 2 = 0 /\ 2 \div 2 = 1 /\ 3 \div 2 = 1
  OBVIOUS
<1>3. ~ traks[1].implicit => Turn(traks, scale, 0, cut) = Moved(traks, scale, 1, cut)
  <2> SUFFICES ASSUME ~ traks[1].implicit
               PROVE  Turn(traks, scale, 0, cut) = Moved(traks, scale, 1, cut)
    OBVIOUS
  <2>1. InPass(0, traks[1])
    BY DEF InPass
  <2>2. (0 % Len(traks)) + 1 = 1 /\ 0 \div Len(traks) = 0
    BY <1>1
  <2> QED
    BY <2>1, <2>2 DEF Turn, Moved
<1>4. ~ traks[2].implicit => Turn(traks, scale, 1, cut) = Moved(traks, scale, 2, cut)
  <2> SUFFICES ASSUME ~ traks[2].implicit
               PROVE  Turn(traks, scale, 1, cut) = Moved(traks, scale, 2, cut)
    OBVIOUS
  <2>1. InPass(0, traks[2])
    BY DEF InPass
  <2>2. (1 % Len(traks)) + 1 = 2 /\ 1 \div Len(traks) = 0
    BY <1>1
  <2> QED
    BY <2>1, <2>2 DEF Turn, Moved
<1>5. traks[1].implicit => Turn(traks, scale, 2, cut) = Moved(traks, scale, 1, cut)
  <2> SUFFICES ASSUME traks[1].implicit
               PROVE  Turn(traks, scale, 2, cut) = Moved(traks, scale, 1, cut)
    OBVIOUS
  <2>1. InPass(1, traks[1])
    BY DEF InPass
  <2>2. (2 % Len(traks)) + 1 = 1 /\ 2 \div Len(traks) = 1
    BY <1>1
  <2> QED
    BY <2>1, <2>2 DEF Turn, Moved
<1>6. traks[2].implicit => Turn(traks, scale, 3, cut) = Moved(traks, scale, 2, cut)
  <2> SUFFICES ASSUME traks[2].implicit
               PROVE  Turn(traks, scale, 3, cut) = Moved(traks, scale, 2, cut)
    OBVIOUS
  <2>1. InPass(1, traks[2])
    BY DEF InPass
  <2>2. (3 % Len(traks)) + 1 = 2 /\ 3 \div Len(traks) = 1
    BY <1>1
  <2> QED
    BY <2>1, <2>2 DEF Turn, Moved
<1> QED
  BY <1>3, <1>4, <1>5, <1>6

\* Of two tracks the one with key frames comes first, then the other.
LEMMA AlignedTwo ==
    ASSUME NEW traks, Len(traks) = 2, NEW scale, NEW moment, NEW default,
           \A k \in 1 .. 2 : traks[k].implicit \in BOOLEAN,
           NEW v \in 1 .. 2, NEW k \in 1 .. 2, ~ traks[v].implicit, traks[k].implicit
    PROVE  Aligned(traks, scale, moment, default) =
               Moved(traks, scale, k,
                     Moved(traks, scale, v, [samples |-> default, time |-> moment]))
<1>1. PICK g : g = [samples |-> default, time |-> moment]
  OBVIOUS
<1>2. Aligned(traks, scale, moment, default) =
        Turn(traks, scale, 3,
             Turn(traks, scale, 2, Turn(traks, scale, 1, Turn(traks, scale, 0, g))))
  BY <1>1, AlignedIs
<1>3. PICK h : h = Moved(traks, scale, v, g)
  OBVIOUS
<1>4. CASE v = 1 /\ k = 2
  <2>1. Turn(traks, scale, 0, g) = h
    BY <1>3, <1>4, TurnIsOwn
  <2>2. Turn(traks, scale, 1, h) = h
    BY <1>4, TurnIsNot
  <2>3. Turn(traks, scale, 2, h) = h
    BY <1>4, TurnIsNot
  <2>4. Turn(traks, scale, 3, h) = Moved(traks, scale, k, h)
    BY <1>4, TurnIsOwn
  <2> QED
    BY <1>1, <1>2, <1>3, <2>1, <2>2, <2>3, <2>4
<1>5. CASE v = 2 /\ k = 1
  <2>1. Turn(traks, scale, 0, g) = g
    BY <1>5, TurnIsNot
  <2>2. Turn(traks, scale, 1, g) = h
    BY <1>3, <1>5, TurnIsOwn
  <2>3. Turn(traks, scale, 2, h) = Moved(traks, scale, k, h)
    BY <1>5, TurnIsOwn
  <2>4. \A x : Turn(traks, scale, 3, x) = x
    BY <1>5, TurnIsNot
  <2> QED
    BY <1>1, <1>2, <1>3, <2>1, <2>2, <2>3, <2>4
<1> QED
  BY <1>4, <1>5

\* Converting a time to another clock and back does not make it later.
LEMMA ScaledBack ==
    ASSUME NEW y \in Nat, NEW m \in Nat \ {0}, NEW n \in Nat \ {0}, NEW x \in Nat,
           x <= Scaled(y, m, n)
    PROVE  Scaled(x, n, m) \in Nat /\ Scaled(x, n, m) <= y
<1>1. PICK p \in Nat : p = y * m
  OBVIOUS
<1>2. PICK q \in Nat : q = p \div n /\ q * n <= p
  <2>1. p \div n \in Nat /\ (p \div n) * n <= p
    OBVIOUS
  <2> QED
    BY <2>1
<1>3. x <= q
  BY <1>1, <1>2 DEF Scaled
<1>4. PICK u \in Nat : u = x * n
  OBVIOUS
<1>5. u <= q * n
  BY <1>3, <1>4
<1>6. PICK r \in Nat : r = u \div m /\ r * m <= u
  <2>1. u \div m \in Nat /\ (u \div m) * m <= u
    OBVIOUS
  <2> QED
    BY <2>1
<1>7. r * m <= y * m
  BY <1>1, <1>2, <1>5, <1>6
<1>8. r <= y
  <2> SUFFICES ASSUME y < r PROVE FALSE
    OBVIOUS
  <2>1. PICK z \in Nat : r = y + 1 + z
    <3>1. r - y - 1 \in Nat /\ r = y + 1 + (r - y - 1)
      OBVIOUS
    <3> QED
      BY <3>1
  <2>2. r * m = y * m + m + z * m /\ z * m \in Nat
    BY <2>1
  <2> QED
    BY <1>7, <2>2
<1> QED
  BY <1>4, <1>6, <1>8 DEF Scaled

LEMMA ScaledOrder ==
    ASSUME NEW x \in Nat, NEW y \in Nat, x <= y, NEW to \in Nat, NEW from \in Nat \ {0}
    PROVE  Scaled(x, to, from) \in Nat /\ Scaled(x, to, from) <= Scaled(y, to, from)
BY RescaleMonotone DEF Rescale, Scaled

\* A moment that is not after the last sample: its sample is in the track.
LEMMA MomentIs ==
    ASSUME NEW t, NEW a, Known(t, a), Dense(t), a.size > 0,
           NEW scale \in Nat \ {0}, NEW moment \in Nat,
           moment <= Scaled(a.pts[a.size - 1], scale, a.timescale)
    PROVE  LET time == Scaled(moment, a.timescale, scale)
               first == FirstFrom(a, time)
           IN  /\ time \in Nat /\ first \in 0 .. a.size - 1
               /\ SttsSample(t.stts, Scaled(moment, t.timescale, scale)) = first
               /\ a.pts[first] >= time /\ \A j \in 0 .. first - 1 : a.pts[j] < time
<1> DEFINE time == Scaled(moment, a.timescale, scale)
           first == FirstFrom(a, time)
<1>1. /\ IsTrak(a) /\ a.timescale = t.timescale
  BY DEF Known
<1>2. /\ a.size \in Nat /\ a.timescale \in Nat \ {0} /\ a.size - 1 \in 0 .. a.size
      /\ \A j \in 0 .. a.size : a.pts[j] \in Nat
      /\ \A i, j \in 0 .. a.size : i <= j => a.pts[i] <= a.pts[j]
  <2>1. a.size \in Nat /\ a.timescale \in Nat \ {0}
    BY <1>1 DEF IsTrak
  <2>2. a.size - 1 \in 0 .. a.size
    BY <2>1
  <2>3. \A j \in 0 .. a.size : a.pts[j] \in Nat
    BY <1>1 DEF IsTrak
  <2>4. \A i, j \in 0 .. a.size : i <= j => a.pts[i] <= a.pts[j]
    BY <1>1 DEF IsTrak
  <2> QED
    BY <2>1, <2>2, <2>3, <2>4
<1>3. time \in Nat /\ time <= a.pts[a.size - 1]
  BY <1>2, ScaledBack
<1>4. a.pts[a.size - 1] <= a.pts[a.size] /\ a.pts[a.size] \in Nat /\ a.pts[a.size - 1] \in Nat
  <2>1. a.size \in 0 .. a.size /\ a.size - 1 <= a.size
    BY <1>2
  <2> QED
    BY <1>2, <2>1
<1> HIDE DEF time
<1>5. time \in 0 .. a.pts[a.size]
  BY <1>3, <1>4
<1>6. /\ SttsSample(t.stts, time) = first /\ first \in 0 .. a.size
      /\ a.pts[first] >= time /\ \A j \in 0 .. first - 1 : a.pts[j] < time
  BY <1>5, SampleKnown
<1> HIDE DEF first
<1>7. first # a.size
  <2> SUFFICES ASSUME first = a.size PROVE FALSE
    OBVIOUS
  <2>1. a.size - 1 \in 0 .. first - 1
    BY <1>2
  <2>2. a.pts[a.size - 1] < time
    BY <1>6, <2>1
  <2> QED
    BY <1>3, <1>4, <2>2
<1>8. first \in 0 .. a.size - 1
  BY <1>2, <1>6, <1>7
<1> QED
  BY <1>1, <1>3, <1>6, <1>8 DEF time, first

\* The turn of a track without key frames.
LEMMA FollowerTurn ==
    ASSUME NEW t, NEW a, Known(t, a), Dense(t), t.implicit, a.size > 0,
           NEW scale \in Nat \ {0}, NEW moment \in Nat,
           moment <= Scaled(a.pts[a.size - 1], scale, a.timescale)
    PROVE  LET own == AlignTrak(t, scale, moment)
           IN  /\ own.sample \in 0 .. a.size - 1
               /\ own.sample = FirstFrom(a, Scaled(moment, a.timescale, scale))
               /\ own.time = Scaled(a.pts[own.sample], scale, a.timescale)
<1>1. PICK first \in 0 .. a.size - 1 :
        /\ first = FirstFrom(a, Scaled(moment, a.timescale, scale))
        /\ SttsSample(t.stts, Scaled(moment, t.timescale, scale)) = first
  BY MomentIs
<1>2. StblKeyframe(t, first + 1) - 1 = first
  BY DEF StblKeyframe
<1>3. /\ a.timescale = t.timescale /\ IsTables(t)
      /\ a.size = Total(t.stts) /\ \A j \in 0 .. a.size : a.pts[j] = TimeOf(t, j)
      /\ a.size \in Nat
  BY DEF Known, IsTrak
<1>4. SttsTime(t.stts, first) = a.pts[first]
  <2>1. first \in Nat /\ first < Total(t.stts) /\ first \in 0 .. a.size
    BY <1>3
  <2> QED
    BY <1>3, <2>1, SttsTimeIs
<1>5. AlignTrak(t, scale, moment) =
        [sample |-> first, time |-> Scaled(a.pts[first], scale, a.timescale)]
  BY <1>1, <1>2, <1>3, <1>4 DEF AlignTrak
<1> QED
  BY <1>1, <1>5

\* The turn of the track with key frames.
LEMMA LeaderTurn ==
    ASSUME NEW t, NEW a, Known(t, a), Dense(t), Ascending(t), t.stss[1] = 1,
           NEW scale \in Nat \ {0}, NEW moment \in Nat, a.size > 0,
           moment <= Scaled(a.pts[a.size - 1], scale, a.timescale)
    PROVE  LET own == AlignTrak(t, scale, moment)
               time == Scaled(moment, a.timescale, scale)
           IN  /\ own.sample \in 0 .. a.size - 1
               /\ own.sample = Max({j \in 0 .. a.size - 1 :
                                      a.sync[j] /\ \A i \in 0 .. j - 1 : a.pts[i] < time})
               /\ own.time = Scaled(a.pts[own.sample], scale, a.timescale)
<1>1. PICK time \in Nat : time = Scaled(moment, a.timescale, scale)
  BY MomentIs
<1>2. PICK first \in 0 .. a.size - 1 :
        /\ SttsSample(t.stts, Scaled(moment, t.timescale, scale)) = first
        /\ a.pts[first] >= time /\ \A j \in 0 .. first - 1 : a.pts[j] < time
  BY <1>1, MomentIs
<1>3. /\ a.timescale = t.timescale /\ IsTables(t)
      /\ a.size = Total(t.stts) /\ \A j \in 0 .. a.size : a.pts[j] = TimeOf(t, j)
      /\ a.size \in Nat /\ \A j \in 0 .. a.size : a.pts[j] \in Nat
  BY DEF Known, IsTrak
<1>4. PICK n \in 1 .. first + 1 :
        /\ n = StblKeyframe(t, first + 1) /\ a.sync[n - 1]
        /\ \A x \in 1 .. first + 1 : a.sync[x - 1] => x <= n
  <2>1. t.stss[1] <= first + 1
    OBVIOUS
  <2> QED
    BY <2>1, KeyKnown
<1>5. PICK key \in 0 .. first : key = n - 1 /\ n = key + 1
  OBVIOUS
<1>6. key \in 0 .. a.size - 1 /\ a.sync[key]
  <2>1. key \in 0 .. a.size - 1
    BY <1>3
  <2>2. a.sync[key]
    BY <1>4, <1>5
  <2> QED
    BY <2>1, <2>2
<1>7. SttsTime(t.stts, key) = a.pts[key]
  <2>1. key \in Nat /\ key < Total(t.stts) /\ key \in 0 .. a.size
    BY <1>3, <1>6
  <2> QED
    BY <1>3, <2>1, SttsTimeIs
<1>8. AlignTrak(t, scale, moment) =
        [sample |-> key, time |-> Scaled(a.pts[key], scale, a.timescale)]
  BY <1>2, <1>3, <1>4, <1>5, <1>7 DEF AlignTrak
<1> DEFINE S == {j \in 0 .. a.size - 1 : a.sync[j] /\ \A i \in 0 .. j - 1 : a.pts[i] < time}
<1>9. S \in SUBSET Nat /\ key \in S
  <2>1. \A i \in 0 .. key - 1 : i \in 0 .. first - 1
    BY <1>5
  <2> QED
    BY <1>2, <1>6, <2>1
<1>10. ASSUME NEW j \in S PROVE j <= key
  <2>1. j \in 0 .. a.size - 1 /\ a.sync[j] /\ \A i \in 0 .. j - 1 : a.pts[i] < time
    OBVIOUS
  <2>2. j <= first
    <3> SUFFICES ASSUME first < j PROVE FALSE
      BY <2>1
    <3>1. first \in 0 .. j - 1 /\ first \in 0 .. a.size
      BY <1>3, <2>1
    <3>2. a.pts[first] < time /\ a.pts[first] \in Nat
      BY <1>3, <2>1, <3>1
    <3> QED
      BY <1>2, <3>2
  <2>3. j + 1 \in 1 .. first + 1 /\ j + 1 - 1 = j
    BY <2>1, <2>2
  <2>4. j + 1 <= n
    BY <1>4, <2>1, <2>3
  <2> QED
    BY <1>5, <2>1, <2>4
<1>11. Max(S) = key
  <2> HIDE DEF S
  <2> QED
    BY <1>9, <1>10, GreatestIs
<1> QED
  BY <1>1, <1>6, <1>8, <1>11

\* What is known of the two tracks of a movie that is cut together.
LEMMA TwoKnown ==
    ASSUME DataInv, pc = "indexed", NEW k \in AgreeingTracks, NEW v \in AgreeingTracks,
           CutTogether(v, k)
    PROVE  /\ Known(movie.traks[v], index[v]) /\ Known(movie.traks[k], index[k])
           /\ movie.timescale \in Nat \ {0}
           /\ v \in 1 .. 2 /\ k \in 1 .. 2 /\ v # k /\ Len(movie.traks) = 2
           /\ index[v].size > 0 /\ index[k].size > 0
           /\ \A i \in 1 .. 2 : movie.traks[i].implicit \in BOOLEAN
<1>1. /\ Known(movie.traks[v], index[v]) /\ Known(movie.traks[k], index[k])
      /\ movie.timescale \in Nat \ {0} /\ Len(index) = Len(movie.traks)
  BY KnownIs
<1>2. /\ Len(index) = 2 /\ movie.traks[k].implicit /\ ~ movie.traks[v].implicit
      /\ Ascending(movie.traks[v]) /\ movie.traks[v].stss[1] = 1 /\ index[k].size > 0
  BY DEF CutTogether
<1>3. v \in 1 .. 2 /\ k \in 1 .. 2 /\ v # k
  BY <1>2 DEF AgreeingTracks
<1>4. index[v].size > 0
  <2>1. /\ \A n \in 1 .. Len(movie.traks[v].stss) : movie.traks[v].stss[n] \in 1 .. index[v].size
        /\ movie.traks[v].stss \in Seq(Nat) /\ index[v].size \in Nat
    BY <1>1 DEF Known, IsTables, IsTrak
  <2>2. 1 \in 1 .. Len(movie.traks[v].stss)
    <3> DEFINE q == movie.traks[v].stss
    <3>1. q \in Seq(Nat) /\ q # <<>>
      BY <1>2, <2>1 DEF Ascending
    <3> HIDE DEF q
    <3>2. 1 \in 1 .. Len(q)
      BY <3>1
    <3> QED
      BY <3>2 DEF q
  <2>3. 1 \in 1 .. index[v].size
    BY <1>2, <2>1, <2>2
  <2> QED
    BY <2>1, <2>3
<1>5. \A i \in 1 .. 2 : movie.traks[i].implicit \in BOOLEAN
  <2>1. /\ movie.traks[v].implicit \in BOOLEAN /\ movie.traks[k].implicit \in BOOLEAN
    BY <1>1 DEF Known, IsTables
  <2>2. \A i \in 1 .. 2 : i = v \/ i = k
    BY <1>3
  <2> QED
    BY <2>1, <2>2
<1> QED
  BY <1>1, <1>2, <1>3, <1>4, <1>5

\* The time of a cut, in the movie's clock: in the order of the samples, and 0
\* at the first.
LEMMA CutAtIs ==
    ASSUME NEW t, NEW i, Known(t, index[i]), movie.timescale \in Nat \ {0},
           NEW x, x[i] \in 0 .. index[i].size, NEW y, y[i] \in 0 .. index[i].size
    PROVE  /\ CutAt(x, i) \in Nat
           /\ x[i] <= y[i] => CutAt(x, i) <= CutAt(y, i)
           /\ x[i] = 0 => CutAt(x, i) = 0
<1> DEFINE a == index[i]
<1>1. /\ IsTrak(a) /\ IsTables(t) /\ \A j \in 0 .. a.size : a.pts[j] = TimeOf(t, j)
  BY DEF Known
<1>2. /\ a.size \in Nat /\ a.timescale \in Nat \ {0}
      /\ \A j \in 0 .. a.size : a.pts[j] \in Nat
      /\ \A m, n \in 0 .. a.size : m <= n => a.pts[m] <= a.pts[n]
  BY <1>1 DEF IsTrak
<1>3. a.pts[0] = 0
  <2>1. 0 \in 0 .. a.size
    BY <1>2
  <2>2. TimeOf(t, 0) = 0
    BY <1>1, TimesInOrder
  <2> QED
    BY <1>1, <2>1, <2>2
<1>4. PICK p, q \in Nat : p = a.pts[x[i]] /\ q = a.pts[y[i]]
  BY <1>2
<1>5. CutAt(x, i) = Scaled(p, movie.timescale, a.timescale)
  BY <1>4 DEF CutAt
<1>6. CutAt(y, i) = Scaled(q, movie.timescale, a.timescale)
  BY <1>4 DEF CutAt
<1>7. x[i] <= y[i] => p <= q
  BY <1>2, <1>4
<1>8. PICK to \in Nat \ {0}, from \in Nat \ {0} : to = movie.timescale /\ from = a.timescale
  BY <1>2
<1>9. CutAt(x, i) \in Nat /\ (x[i] <= y[i] => CutAt(x, i) <= CutAt(y, i))
  <2>1. Scaled(p, to, from) \in Nat
    BY ScaledOrder
  <2>2. p <= q => Scaled(p, to, from) <= Scaled(q, to, from)
    BY ScaledOrder
  <2>3. CutAt(x, i) = Scaled(p, to, from) /\ CutAt(y, i) = Scaled(q, to, from)
    BY <1>5, <1>6, <1>8
  <2> QED
    BY <1>7, <2>1, <2>2, <2>3
<1>10. ASSUME x[i] = 0 PROVE CutAt(x, i) = 0
  <2>1. p = 0
    BY <1>3, <1>4, <1>10
  <2>2. PICK m \in Nat \ {0}, n \in Nat \ {0} : m = movie.timescale /\ n = a.timescale
    BY <1>2
  <2>3. Scaled(0, m, n) = 0
    <3>1. 0 * m = 0 /\ 0 \div n = 0
      BY <2>2
    <3> QED
      BY <3>1 DEF Scaled
  <2> QED
    BY <1>5, <2>1, <2>2, <2>3
<1> QED
  BY <1>9, <1>10

\* One end of a cut that is not at the time 0.
LEMMA EndIs ==
    ASSUME DataInv, pc = "indexed", NEW k \in AgreeingTracks, NEW v \in AgreeingTracks,
           CutTogether(v, k), NEW moment \in Nat \ {0}, moment <= CutAt(Lasts, v),
           NEW default, default = [i \in 1 .. 2 |-> default[i]]
    PROVE  LET at == Aligned(movie.traks, movie.timescale, moment, default)
               cut == at.samples
               time == Scaled(CutAt(cut, v), index[k].timescale, movie.timescale)
           IN  /\ cut[v] = KeyBefore(v, moment) /\ cut[v] \in 0 .. index[v].size - 1
               /\ CutAt(cut, v) = 0 => cut[k] = default[k] /\ at.time = 0
               /\ CutAt(cut, v) # 0 =>
                    /\ cut[k] = Following(k, v, cut) /\ cut[k] \in 0 .. index[k].size - 1
                    /\ at.time = CutAt(cut, k)
                    /\ time \in Nat /\ index[k].pts[cut[k]] >= time
                    /\ \A j \in 0 .. cut[k] - 1 : index[k].pts[j] < time
<1>1. /\ Known(movie.traks[v], index[v]) /\ Known(movie.traks[k], index[k])
      /\ movie.timescale \in Nat \ {0}
      /\ v \in 1 .. 2 /\ k \in 1 .. 2 /\ v # k /\ Len(movie.traks) = 2
      /\ index[v].size > 0 /\ index[k].size > 0
      /\ \A i \in 1 .. 2 : movie.traks[i].implicit \in BOOLEAN
  BY TwoKnown
<1>2. /\ movie.traks[k].implicit /\ ~ movie.traks[v].implicit
      /\ Dense(movie.traks[v]) /\ Dense(movie.traks[k])
      /\ Ascending(movie.traks[v]) /\ movie.traks[v].stss[1] = 1
      /\ CutAt(Lasts, v) <= CutAt(Lasts, k)
  BY DEF CutTogether
<1> DEFINE traks == movie.traks
           scale == movie.timescale
           at == Aligned(traks, scale, moment, default)
<1>3. /\ Lasts[v] = index[v].size - 1 /\ Lasts[k] = index[k].size - 1
      /\ index[v].size \in Nat /\ index[k].size \in Nat
  BY <1>1 DEF Lasts, Known, IsTrak
<1>4. moment <= Scaled(index[v].pts[index[v].size - 1], scale, index[v].timescale)
  BY <1>3 DEF CutAt
<1>5. PICK own : own = AlignTrak(traks[v], scale, moment)
  OBVIOUS
<1>6. /\ own.sample \in 0 .. index[v].size - 1
      /\ own.sample = KeyBefore(v, moment)
      /\ own.time = Scaled(index[v].pts[own.sample], scale, index[v].timescale)
  <2>1. PICK t, a, c : t = traks[v] /\ a = index[v] /\ c = scale
    OBVIOUS
  <2>2. /\ Known(t, a) /\ Dense(t) /\ Ascending(t) /\ t.stss[1] = 1 /\ a.size > 0
        /\ c \in Nat \ {0} /\ moment <= Scaled(a.pts[a.size - 1], c, a.timescale)
    BY <1>1, <1>2, <1>4, <2>1
  <2>3. PICK key : key = Max({j \in 0 .. a.size - 1 :
                           /\ a.sync[j]
                           /\ \A i \in 0 .. j - 1 : a.pts[i] < Scaled(moment, a.timescale, c)})
    OBVIOUS
  <2>4. /\ own.sample \in 0 .. a.size - 1 /\ own.sample = key
        /\ own.time = Scaled(a.pts[own.sample], c, a.timescale)
    BY <1>5, <2>1, <2>2, <2>3, LeaderTurn
  <2>5. key = KeyBefore(v, moment)
    BY <2>1, <2>3 DEF KeyBefore
  <2> QED
    BY <2>1, <2>4, <2>5
<1>7. PICK one : one = [samples |-> [default EXCEPT ![v] = own.sample], time |-> own.time]
  OBVIOUS
<1>8. Moved(traks, scale, v, [samples |-> default, time |-> moment]) = one
  BY <1>5, <1>7 DEF Moved
<1>9. at = Moved(traks, scale, k, one)
  BY <1>1, <1>2, <1>8, AlignedTwo
<1>10. one.samples[v] = own.sample /\ one.samples[k] = default[k] /\ one.time = own.time
  BY <1>1, <1>7
<1>11. one.time = CutAt(one.samples, v)
  BY <1>6, <1>10 DEF CutAt
<1>12. ASSUME NEW x, x[v] = own.sample PROVE CutAt(x, v) = own.time
  BY <1>6, <1>12 DEF CutAt
<1> HIDE DEF at
<1>13. CASE own.time = 0
  <2>1. at = one
    BY <1>9, <1>10, <1>13 DEF Moved
  <2>2. CutAt(at.samples, v) = 0
    BY <1>10, <1>12, <1>13, <2>1
  <2> QED
    BY <1>6, <1>10, <1>13, <2>1, <2>2 DEF at
<1>14. CASE own.time # 0
  <2>1. PICK next : next = AlignTrak(traks[k], scale, own.time)
    OBVIOUS
  <2>2. /\ own.time \in Nat
        /\ own.time <= Scaled(index[k].pts[index[k].size - 1], scale, index[k].timescale)
    <3>1. /\ one.samples[v] \in 0 .. index[v].size /\ Lasts[v] \in 0 .. index[v].size
          /\ Lasts[k] \in 0 .. index[k].size /\ one.samples[v] <= Lasts[v]
      BY <1>1, <1>3, <1>6, <1>10
    <3>2. CutAt(one.samples, v) \in Nat /\ CutAt(one.samples, v) <= CutAt(Lasts, v)
      BY <1>1, <3>1, CutAtIs
    <3>3. CutAt(Lasts, v) \in Nat
      BY <1>1, <3>1, CutAtIs
    <3>4. CutAt(Lasts, k) \in Nat
      BY <1>1, <3>1, CutAtIs
    <3>5. own.time \in Nat /\ own.time <= CutAt(Lasts, k)
      BY <1>2, <1>10, <1>11, <3>2, <3>3, <3>4
    <3> QED
      BY <1>3, <3>5 DEF CutAt
  <2>3. PICK time : time = Scaled(own.time, index[k].timescale, scale)
    OBVIOUS
  <2>4. /\ next.sample \in 0 .. index[k].size - 1
        /\ next.sample = FirstFrom(index[k], time)
        /\ next.time = Scaled(index[k].pts[next.sample], scale, index[k].timescale)
    BY <1>1, <1>2, <2>1, <2>2, <2>3, FollowerTurn
  <2>5. /\ time \in Nat /\ index[k].pts[next.sample] >= time
        /\ \A j \in 0 .. next.sample - 1 : index[k].pts[j] < time
    BY <1>1, <1>2, <2>2, <2>3, <2>4, MomentIs
  <2>6. at = [samples |-> [one.samples EXCEPT ![k] = next.sample], time |-> next.time]
    BY <1>9, <1>10, <1>14, <2>1 DEF Moved
  <2>7. one.samples = [i \in 1 .. 2 |-> one.samples[i]]
    BY <1>7
  <2>8. /\ at.samples[k] = next.sample /\ at.time = next.time
        /\ at.samples[v] = own.sample
    BY <1>1, <1>10, <2>6, <2>7
  <2>9. CutAt(at.samples, v) = own.time
    BY <1>12, <2>8
  <2>10. at.time = CutAt(at.samples, k)
    BY <2>4, <2>8 DEF CutAt
  <2>11. at.samples[k] = Following(k, v, at.samples)
    BY <2>3, <2>4, <2>8, <2>9 DEF Following
  <2>12. Scaled(CutAt(at.samples, v), index[k].timescale, scale) = time
    BY <2>3, <2>9
  <2> QED
    BY <1>6, <1>14, <2>4, <2>5, <2>8, <2>9, <2>10, <2>11, <2>12 DEF at
<1> QED
  BY <1>13, <1>14

\* No cut at all, and one at the time 0.
LEMMA NoEnd ==
    ASSUME DataInv, pc = "indexed", NEW k \in AgreeingTracks, NEW v \in AgreeingTracks,
           CutTogether(v, k), NEW default
    PROVE  Aligned(movie.traks, movie.timescale, 0, default) = [samples |-> default, time |-> 0]
<1>1. PICK one : one = [samples |-> default, time |-> 0]
  OBVIOUS
<1>2. \A i : Moved(movie.traks, movie.timescale, i, one) = one
  BY <1>1 DEF Moved
<1>3. Aligned(movie.traks, movie.timescale, 0, default) =
        Moved(movie.traks, movie.timescale, k, Moved(movie.traks, movie.timescale, v, one))
  BY <1>1, TwoKnown, AlignedTwo DEF CutTogether
<1> QED
  BY <1>1, <1>2, <1>3

\* A cut of v that is not behind another is followed by one of k that is not.
LEMMA FollowersInOrder ==
    ASSUME DataInv, pc = "indexed", NEW k \in AgreeingTracks, NEW v \in AgreeingTracks,
           CutTogether(v, k), NEW x, NEW y,
           x[v] \in 0 .. index[v].size, y[v] \in 0 .. index[v].size, x[v] <= y[v],
           x[k] \in 0 .. index[k].size, y[k] \in 0 .. index[k].size,
           index[k].pts[y[k]] >= Scaled(CutAt(y, v), index[k].timescale, movie.timescale),
           \A j \in 0 .. x[k] - 1 :
               index[k].pts[j] < Scaled(CutAt(x, v), index[k].timescale, movie.timescale)
    PROVE  x[k] <= y[k]
<1>1. /\ Known(movie.traks[v], index[v]) /\ Known(movie.traks[k], index[k])
      /\ movie.timescale \in Nat \ {0}
  BY TwoKnown
<1>2. /\ index[k].size \in Nat /\ index[k].timescale \in Nat \ {0}
      /\ \A j \in 0 .. index[k].size : index[k].pts[j] \in Nat
  BY <1>1 DEF Known, IsTrak
<1>3. PICK p, q \in Nat : p = CutAt(x, v) /\ q = CutAt(y, v) /\ p <= q
  <2>1. CutAt(x, v) \in Nat /\ (x[v] <= y[v] => CutAt(x, v) <= CutAt(y, v))
    BY <1>1, CutAtIs
  <2>2. CutAt(y, v) \in Nat
    BY <1>1, CutAtIs
  <2> QED
    BY <2>1, <2>2
<1>4. PICK to \in Nat, from \in Nat \ {0} : to = index[k].timescale /\ from = movie.timescale
  BY <1>1, <1>2
<1>5. PICK b, c \in Nat : b = Scaled(p, to, from) /\ c = Scaled(q, to, from) /\ b <= c
  <2>1. Scaled(p, to, from) \in Nat /\ Scaled(p, to, from) <= Scaled(q, to, from)
    BY <1>3, ScaledOrder
  <2>2. Scaled(q, to, from) \in Nat
    BY ScaledOrder
  <2> QED
    BY <2>1, <2>2
<1>6. index[k].pts[y[k]] >= c /\ \A j \in 0 .. x[k] - 1 : index[k].pts[j] < b
  BY <1>3, <1>4, <1>5
<1> SUFFICES ASSUME y[k] < x[k] PROVE FALSE
  BY <1>2
<1>7. y[k] \in 0 .. x[k] - 1
  BY <1>2
<1>8. index[k].pts[y[k]] < b /\ index[k].pts[y[k]] \in Nat
  BY <1>2, <1>6, <1>7
<1> QED
  BY <1>5, <1>6, <1>8

LEMMA CutsKnown ==
    ASSUME DataInv, pc = "indexed", NEW k \in AgreeingTracks, NEW v \in AgreeingTracks,
           CutTogether(v, k)
    PROVE  CutsTrue(v, k)
<1> SUFFICES ASSUME NEW start \in 0 .. CutAt(Lasts, v), NEW end \in 0 .. CutAt(Lasts, v)
             PROVE  LET cut == Split(movie.traks, movie.timescale, start, end,
                                     [i \in 1 .. 2 |-> index[i].size])
                    IN  /\ start # 0 => /\ cut.start[v] = KeyBefore(v, start)
                                        /\ cut.start[k] = Following(k, v, cut.start)
                        /\ end # 0 =>
                             /\ cut.end[v] = KeyBefore(v, end)
                             /\ cut.end[k] = IF CutAt(cut.end, v) # 0 THEN Following(k, v, cut.end)
                                                                      ELSE index[k].size
                        /\ end # 0 /\ CutAt(cut.end, v) # 0 /\ CutAt(cut.end, k) # 0 /\ cut.ok =>
                             \A i \in 1 .. 2 : cut.start[i] < cut.end[i]
  BY DEF CutsTrue
<1>1. /\ Known(movie.traks[v], index[v]) /\ Known(movie.traks[k], index[k])
      /\ movie.timescale \in Nat \ {0}
      /\ v \in 1 .. 2 /\ k \in 1 .. 2 /\ v # k /\ Len(movie.traks) = 2
      /\ index[v].size > 0 /\ index[k].size > 0
  BY TwoKnown
<1>2. /\ index[v].size \in Nat /\ index[k].size \in Nat
      /\ index[k].timescale \in Nat \ {0}
  BY <1>1 DEF Known, IsTrak
<1>3. PICK zero : zero = [i \in 1 .. 2 |-> 0]
  OBVIOUS
<1>4. PICK sizes : sizes = [i \in 1 .. 2 |-> index[i].size]
  OBVIOUS
<1>5. PICK from : from = Aligned(movie.traks, movie.timescale, start, zero)
  OBVIOUS
<1>6. PICK to : to = Aligned(movie.traks, movie.timescale, end, sizes)
  OBVIOUS
<1>7. Split(movie.traks, movie.timescale, start, end, sizes) =
        [start |-> from.samples, end |-> to.samples, ok |-> to.time = 0 \/ from.time < to.time]
  <2>1. zero = [i \in 1 .. Len(movie.traks) |-> 0]
    BY <1>1, <1>3
  <2> QED
    BY <1>5, <1>6, <2>1 DEF Split
<1>8. CutAt(Lasts, v) \in Nat
  <2>1. Lasts[v] \in 0 .. index[v].size
    BY <1>1, <1>2 DEF Lasts
  <2> QED
    BY <1>1, <2>1, CutAtIs
<1>9. start \in Nat /\ start <= CutAt(Lasts, v) /\ end \in Nat /\ end <= CutAt(Lasts, v)
  BY <1>8
<1>10. zero = [i \in 1 .. 2 |-> zero[i]] /\ zero[k] = 0 /\ zero[v] = 0
  BY <1>1, <1>3
<1>11. sizes = [i \in 1 .. 2 |-> sizes[i]] /\ sizes[k] = index[k].size
  BY <1>1, <1>4
<1> DEFINE Lands(cut, time) ==
             /\ time \in Nat /\ index[k].pts[cut[k]] >= time
             /\ \A j \in 0 .. cut[k] - 1 : index[k].pts[j] < time
           At(cut) == Scaled(CutAt(cut, v), index[k].timescale, movie.timescale)
<1>12. ASSUME start # 0
       PROVE  /\ from.samples[v] = KeyBefore(v, start) /\ from.samples[v] \in 0 .. index[v].size - 1
              /\ CutAt(from.samples, v) = 0 => from.samples[k] = 0 /\ from.time = 0
              /\ CutAt(from.samples, v) # 0 =>
                    /\ from.samples[k] = Following(k, v, from.samples)
                    /\ from.samples[k] \in 0 .. index[k].size - 1
                    /\ from.time = CutAt(from.samples, k)
                    /\ Lands(from.samples, At(from.samples))
  <2>1. start \in Nat \ {0}
    BY <1>9, <1>12
  <2> QED
    BY <1>5, <1>9, <1>10, <2>1, EndIs
<1>13. ASSUME end # 0
       PROVE  /\ to.samples[v] = KeyBefore(v, end) /\ to.samples[v] \in 0 .. index[v].size - 1
              /\ CutAt(to.samples, v) = 0 => to.samples[k] = index[k].size /\ to.time = 0
              /\ CutAt(to.samples, v) # 0 =>
                    /\ to.samples[k] = Following(k, v, to.samples)
                    /\ to.samples[k] \in 0 .. index[k].size - 1
                    /\ to.time = CutAt(to.samples, k)
                    /\ Lands(to.samples, At(to.samples))
  <2>1. end \in Nat \ {0}
    BY <1>9, <1>13
  <2> QED
    BY <1>6, <1>9, <1>11, <2>1, EndIs
<1> HIDE DEF Lands
\* A start that the time 0 leaves at the first sample of k is followed by it too.
<1>14. start # 0 => /\ from.samples[v] = KeyBefore(v, start)
                    /\ from.samples[k] = Following(k, v, from.samples)
  <2> SUFFICES ASSUME start # 0, CutAt(from.samples, v) = 0
               PROVE  from.samples[k] = Following(k, v, from.samples)
    BY <1>12
  <2>1. from.samples[k] = 0
    BY <1>12
  <2>2. PICK from0 \in Nat, to0 \in Nat \ {0} :
          from0 = index[k].timescale /\ to0 = movie.timescale
    BY <1>1, <1>2
  <2>3. Scaled(0, from0, to0) = 0
    <3>1. 0 * from0 = 0 /\ 0 \div to0 = 0
      BY <2>2
    <3> QED
      BY <3>1 DEF Scaled
  <2>4. FirstFrom(index[k], 0) = 0
    <3>1. IsTrak(index[k]) /\ 0 \in 0 .. index[k].size
      BY <1>1, <1>2 DEF Known
    <3>2. index[k].pts[0] \in Nat
      BY <3>1 DEF IsTrak
    <3>3. index[k].pts[0] >= 0 /\ \A j \in 0 .. 0 - 1 : index[k].pts[j] < 0
      BY <3>2
    <3> QED
      BY <3>1, <3>3, FirstFromIs
  <2>5. Following(k, v, from.samples) = FirstFrom(index[k], 0)
    BY <2>2, <2>3 DEF Following
  <2> QED
    BY <2>1, <2>4, <2>5
<1>15. ASSUME end # 0, CutAt(to.samples, v) # 0, CutAt(to.samples, k) # 0,
              to.time = 0 \/ from.time < to.time
       PROVE  \A i \in 1 .. 2 : from.samples[i] < to.samples[i]
  <2>1. /\ to.samples[v] \in 0 .. index[v].size - 1
        /\ to.samples[k] \in 0 .. index[k].size - 1
        /\ to.time = CutAt(to.samples, k) /\ Lands(to.samples, At(to.samples))
    BY <1>13, <1>15
  <2>2. to.samples[v] \in 0 .. index[v].size /\ to.samples[k] \in 0 .. index[k].size
    BY <1>2, <2>1
  <2>3. from.time < to.time
    BY <1>15, <2>1
  <2>4. \A i \in 1 .. 2 : i = v \/ i = k
    BY <1>1
  <2>5. from.samples[v] < to.samples[v] /\ from.samples[k] < to.samples[k]
    <3>1. ASSUME NEW x, x[v] \in 0 .. index[v].size, CutAt(x, v) < CutAt(to.samples, v)
          PROVE  x[v] < to.samples[v]
      <4> SUFFICES ASSUME to.samples[v] <= x[v] PROVE FALSE
        BY <1>2, <2>2, <3>1
      <4>1. CutAt(to.samples, v) \in Nat /\ CutAt(to.samples, v) <= CutAt(x, v)
        BY <1>1, <2>2, <3>1, CutAtIs
      <4>2. CutAt(x, v) \in Nat
        BY <1>1, <3>1, CutAtIs
      <4> QED
        BY <3>1, <4>1, <4>2
    <3>2. ASSUME NEW x, x[k] \in 0 .. index[k].size, CutAt(x, k) < CutAt(to.samples, k)
          PROVE  x[k] < to.samples[k]
      <4> SUFFICES ASSUME to.samples[k] <= x[k] PROVE FALSE
        BY <1>2, <2>2, <3>2
      <4>1. CutAt(to.samples, k) \in Nat /\ CutAt(to.samples, k) <= CutAt(x, k)
        BY <1>1, <2>2, <3>2, CutAtIs
      <4>2. CutAt(x, k) \in Nat
        BY <1>1, <3>2, CutAtIs
      <4> QED
        BY <3>2, <4>1, <4>2
    <3>3. CutAt(to.samples, v) \in Nat /\ CutAt(to.samples, k) \in Nat
      <4>1. CutAt(to.samples, v) \in Nat
        BY <1>1, <2>2, CutAtIs
      <4>2. CutAt(to.samples, k) \in Nat
        BY <1>1, <2>2, CutAtIs
      <4> QED
        BY <4>1, <4>2
    <3>4. CASE start = 0
      <4>1. from.samples = zero
        <5>1. from = Aligned(movie.traks, movie.timescale, 0, zero)
          BY <1>5, <3>4
        <5>2. from = [samples |-> zero, time |-> 0]
          BY <5>1, NoEnd
        <5> QED
          BY <5>2
      <4>2. zero[v] \in 0 .. index[v].size /\ zero[k] \in 0 .. index[k].size
        BY <1>2, <1>10
      <4>3. CutAt(zero, v) = 0 /\ CutAt(zero, k) = 0
        BY <1>1, <1>10, <4>2, CutAtIs
      <4>4. CutAt(zero, v) < CutAt(to.samples, v) /\ CutAt(zero, k) < CutAt(to.samples, k)
        BY <1>15, <3>3, <4>3
      <4> QED
        BY <3>1, <3>2, <4>1, <4>2, <4>4
    <3>5. CASE start # 0 /\ CutAt(from.samples, v) = 0
      <4>1. from.samples[k] = 0 /\ from.samples[v] \in 0 .. index[v].size
        BY <1>2, <1>12, <3>5
      <4>2. from.samples[k] \in 0 .. index[k].size
        BY <1>2, <4>1
      <4>3. CutAt(from.samples, k) = 0
        BY <1>1, <4>1, <4>2, CutAtIs
      <4>4. /\ CutAt(from.samples, v) < CutAt(to.samples, v)
            /\ CutAt(from.samples, k) < CutAt(to.samples, k)
        BY <1>15, <3>3, <3>5, <4>3
      <4> QED
        BY <3>1, <3>2, <4>1, <4>2, <4>4
    <3>6. CASE start # 0 /\ CutAt(from.samples, v) # 0
      <4>1. /\ from.samples[v] \in 0 .. index[v].size - 1
            /\ from.samples[k] \in 0 .. index[k].size - 1
            /\ from.time = CutAt(from.samples, k) /\ Lands(from.samples, At(from.samples))
        BY <1>12, <3>6
      <4>2. from.samples[v] \in 0 .. index[v].size /\ from.samples[k] \in 0 .. index[k].size
        BY <1>2, <4>1
      <4>3. from.samples[k] < to.samples[k]
        BY <2>1, <2>3, <3>2, <4>1, <4>2
      <4>4. from.samples[v] < to.samples[v]
        <5> SUFFICES ASSUME to.samples[v] <= from.samples[v] PROVE FALSE
          BY <1>2, <2>2, <4>2
        <5>1. index[k].pts[from.samples[k]] >= At(from.samples)
          BY <4>1 DEF Lands
        <5>2. \A j \in 0 .. to.samples[k] - 1 : index[k].pts[j] < At(to.samples)
          BY <2>1 DEF Lands
        <5>3. to.samples[k] <= from.samples[k]
          BY <2>2, <4>2, <5>1, <5>2, FollowersInOrder
        <5> QED
          BY <1>2, <2>2, <4>2, <4>3, <5>3
      <4> QED
        BY <4>3, <4>4
    <3> QED
      BY <3>4, <3>5, <3>6
  <2> QED
    BY <2>4, <2>5
<1> DEFINE cut == Split(movie.traks, movie.timescale, start, end, sizes)
<1>16. /\ cut.start = from.samples /\ cut.end = to.samples
       /\ cut.ok <=> to.time = 0 \/ from.time < to.time
  <2> HIDE DEF cut
  <2>1. PICK b \in BOOLEAN : b <=> to.time = 0 \/ from.time < to.time
    OBVIOUS
  <2>2. cut = [start |-> from.samples, end |-> to.samples, ok |-> b]
    BY <1>7, <2>1 DEF cut
  <2> QED
    BY <2>1, <2>2
<1> HIDE DEF cut
<1>17. /\ start # 0 => /\ cut.start[v] = KeyBefore(v, start)
                       /\ cut.start[k] = Following(k, v, cut.start)
       /\ end # 0 =>
            /\ cut.end[v] = KeyBefore(v, end)
            /\ cut.end[k] = IF CutAt(cut.end, v) # 0 THEN Following(k, v, cut.end)
                                                     ELSE index[k].size
       /\ end # 0 /\ CutAt(cut.end, v) # 0 /\ CutAt(cut.end, k) # 0 /\ cut.ok =>
            \A i \in 1 .. 2 : cut.start[i] < cut.end[i]
  BY <1>13, <1>14, <1>15, <1>16
<1> QED
  BY <1>4, <1>17 DEF cut

LEMMA LookupsHold == DataInv => LookupsAgree
<1> SUFFICES ASSUME DataInv, pc = "indexed" PROVE LookupsAgree
  BY DEF LookupsAgree
<1>1. ASSUME NEW k \in AgreeingTracks PROVE LookupsTrue(movie.traks[k], index[k])
  BY KnownIs, LookupsKnown
<1>2. ASSUME NEW k \in AgreeingTracks, NEW v \in AgreeingTracks, CutTogether(v, k)
      PROVE  CutsTrue(v, k)
  BY <1>2, CutsKnown
<1> QED
  BY <1>1, <1>2 DEF LookupsAgree

\* What stts_get_time, stts_get_sample and stbl_get_nearest_keyframe take from the
\* tables is what trak_build_index made of them, whatever the tables; and
\* get_aligned_start_and_end cuts the track without sync samples where it has cut
\* the other one, at the key frame of the moment asked for (mp4_io.h, moov.h).
THEOREM LookupsRight == Spec => []LookupsAgree
BY DataHolds, LookupsHold, PTL

===============================================================================
