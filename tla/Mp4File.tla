-------------------------------- MODULE Mp4File --------------------------------
(***************************************************************************)
(* Reading the file of a request (mp4_io.h): mp4_read and the one window   *)
(* it keeps, and mp4_open, which walks over the atoms of the file until it *)
(* has seen moov and mdat. Afterwards output_ts reads the bytes of its     *)
(* fragments through the same window.                                      *)
(*                                                                         *)
(* The window is buffer (here only whether it is not NULL), buffer_size    *)
(* and file->offset, the position after its last byte: the code finds the  *)
(* position of its first byte by subtracting. `from` and `filled` say what *)
(* is really in the buffer: the bytes from position `from`, `filled` of    *)
(* them; no code sees these two. A size is a size_t, a number below 2^64   *)
(* (SizeRange): behind the end of the file what is left of it wraps.       *)
(*                                                                         *)
(* mp4_context->alignment is 0, as mp4_context_init leaves it, so that     *)
(* positions are not rounded down.                                         *)
(***************************************************************************)
EXTENDS Integers

CONSTANTS
    Files,          \* [size, atoms]: atoms is a set of top-level atoms
    Lookalikes,     \* atoms that bytes of anything else may look like
    BufferSize,     \* hls_mp4_buffer_size
    MaxBufferSize,  \* hls_mp4_max_buffer_size
    Ranges,         \* [pos, size] of the fragments output_ts asks for
    SizeRange,      \* 2^64
    MaxFailures     \* bound: reads that fail

Preamble == 8       \* ATOM_PREAMBLE_SIZE

\* ngx_palloc has no room for half of all there is.
NoRoom(n) == 2 * n >= SizeRange

Atom == [start : Nat, type : {"ftyp", "moov", "mdat", "other"},
         size : {n \in Nat : ~ NoRoom(n)}, extended : BOOLEAN]

ASSUME FilesAssumption ==
    \A f \in Files :
        /\ f.size \in Nat /\ ~ NoRoom(f.size) /\ f.atoms \in SUBSET Atom
        /\ \A a, b \in f.atoms : a.start = b.start => a = b
ASSUME LookalikesAssumption ==
    /\ Lookalikes \in SUBSET Atom
    /\ \E a \in Lookalikes : TRUE
ASSUME SizesAssumption ==
    /\ SizeRange \in Nat /\ ~ NoRoom(Preamble)
    /\ BufferSize \in Nat \ {0} /\ MaxBufferSize \in Nat /\ MaxFailures \in Nat
    /\ ~ NoRoom(BufferSize) /\ ~ NoRoom(MaxBufferSize)
    /\ \A r \in Ranges : {r.pos, r.size} \subseteq Nat /\ ~ NoRoom(r.pos) /\ ~ NoRoom(r.size)

VARIABLES
    file,
    window,         \* buffer, size, end, and from, filled
    read,           \* the last mp4_read: pos, size, ok, and index: *buffer - buffer
    poisoned,       \* history: a read failed, and none has filled the buffer since
    failures,
    offset,         \* mp4_context->offset
    atom,           \* leaf_atom
    moov, mdat,     \* moov_atom, mdat_atom have been set
    phase           \* "walk", "extended", "box", "open", "data", "closed", "failed"

openVars == <<file, window, read, poisoned, failures, offset, atom, moov, mdat, phase>>

NoRead == [pos |-> 0, size |-> 0, ok |-> FALSE, index |-> 0]
NoAtom == [start |-> 0, type |-> "other", size |-> 0, extended |-> FALSE]

OpenInit ==
    /\ file \in Files
    /\ window = [buffer |-> FALSE, size |-> BufferSize, end |-> 0, from |-> 0, filled |-> 0]
    /\ read = NoRead
    /\ poisoned = FALSE /\ failures = 0
    /\ offset = 0
    /\ atom = NoAtom
    /\ moov = FALSE /\ mdat = FALSE
    /\ phase = "walk"

-------------------------------------------------------------------------------
(* mp4_read *)

Smaller(size) == window.size < size

\* The buffer is kept if it is large enough, else its size is raised.
Kept(size) == window.buffer /\ ~ Smaller(size)
Wanted(size) == IF Smaller(size) THEN size ELSE window.size

\* As an off_t, a size of half the range or more is negative.
Signed(n) == IF NoRoom(n) THEN n - SizeRange ELSE n

Start == window.end - Signed(window.size)

\* Faulty: takes a position before the window.
HitsBefore(pos, size) == Kept(size) /\ pos + size <= window.end /\ pos + size > Start

Hits(pos, size) == Kept(size) /\ pos + size <= window.end /\ pos > Start

\* The size of the new window, cut at the end of the file.
Cut(pos, size) ==
    IF pos + Signed(Wanted(size)) > file.size THEN (file.size - pos) % SizeRange ELSE Wanted(size)

ReadHit(pos, size) ==
    /\ Hits(pos, size)
    /\ read' = [pos |-> pos, size |-> size, ok |-> TRUE, index |-> pos - Start]
    /\ UNCHANGED <<window, poisoned, failures>>

\* Faulty: the end of the window is left where it was.
ReadFillKeepsEnd(pos, size) ==
    /\ ~ Hits(pos, size)
    /\ ~ NoRoom(Cut(pos, size))
    /\ window' = [buffer |-> TRUE, size |-> Cut(pos, size), end |-> window.end,
                  from |-> pos, filled |-> Cut(pos, size)]
    /\ read' = [pos |-> pos, size |-> size, ok |-> TRUE, index |-> 0]
    /\ poisoned' = FALSE
    /\ UNCHANGED failures

\* A new buffer, filled from the file.
ReadFill(pos, size) ==
    /\ ~ Hits(pos, size)
    /\ ~ NoRoom(Cut(pos, size))
    /\ window' = [buffer |-> TRUE, size |-> Cut(pos, size), end |-> pos + Cut(pos, size),
                  from |-> pos, filled |-> Cut(pos, size)]
    /\ read' = [pos |-> pos, size |-> size, ok |-> TRUE, index |-> 0]
    /\ poisoned' = FALSE
    /\ UNCHANGED failures

Failed(pos, size) == [pos |-> pos, size |-> size, ok |-> FALSE, index |-> 0]

\* No memory, and there is none for a window that begins behind the file: what is
\* asked for is the size that has wrapped.
ReadNoMemory(pos, size) ==
    /\ ~ Hits(pos, size)
    /\ \/ NoRoom(Cut(pos, size)) /\ UNCHANGED failures
       \/ failures < MaxFailures /\ failures' = failures + 1
    /\ window' = [window EXCEPT !.buffer = FALSE, !.size = Cut(pos, size)]
    /\ read' = Failed(pos, size)
    /\ UNCHANGED poisoned

\* ngx_read_file fails or stops early; the buffer stays, with what was read, and
\* file->offset may have been moved on by that.
ReadFails(pos, size) ==
    /\ ~ Hits(pos, size)
    /\ ~ NoRoom(Cut(pos, size))
    /\ failures < MaxFailures
    /\ failures' = failures + 1
    /\ \E n \in {0} \cup {Cut(pos, size) - 1, Cut(pos, size) \div 2} :
         /\ n >= 0
         /\ \E end \in {window.end, window.end + n} :
              window' = [buffer |-> TRUE, size |-> Cut(pos, size), end |-> end,
                         from |-> pos, filled |-> n]
    /\ read' = Failed(pos, size)
    /\ poisoned' = TRUE

Mp4Read(pos, size) ==
    \/ ReadHit(pos, size)
    \/ ReadFill(pos, size)
    \/ ReadNoMemory(pos, size)
    \/ ReadFails(pos, size)

\* *buffer points to the bytes that were asked for, all of them.
Complete(r, w) == r.ok /\ w.from + r.index = r.pos /\ r.index + r.size <= w.filled

-------------------------------------------------------------------------------
(* mp4_open *)

\* What the bytes of a header can say: the atom of the file that begins there,
\* or, if they are not the bytes of the file, anything.
HeaderIn(r, w, s) ==
    LET there == {a \in file.atoms : a.start = s}
    IN  IF Complete(r, w) /\ there # {} THEN there
        ELSE {[g EXCEPT !.start = s] : g \in Lookalikes}

Walking == phase = "walk" /\ ~ (moov /\ mdat)

\* The loop ends at a header that cannot be read, or has no valid size.
Stop == phase' = "open" /\ UNCHANGED <<atom, offset>>

\* Faulty: the size counts from behind the header.
SeenBehind(a) ==
    /\ mdat' = (mdat \/ a.type = "mdat")
    /\ offset' = offset + a.size

\* Faulty: an atom of no length is walked on from.
SeenStays(a) ==
    /\ mdat' = (mdat \/ a.type = "mdat")
    /\ offset' = a.start

\* What the loop does with an atom that is not moov; the next begins behind it.
Seen(a) ==
    /\ mdat' = (mdat \/ a.type = "mdat")
    /\ offset' = a.start + a.size

\* mp4_read has moved mp4_context->offset past eight bytes of header.
Past == offset' = offset + Preamble /\ UNCHANGED mdat

\* A header whose size is known: invalid, that of moov, or another.
Judge(a) ==
    \/ a.size < Preamble /\ phase' = "open" /\ Past
    \/ a.size >= Preamble /\ a.type = "moov" /\ phase' = "box" /\ Past
    \/ a.size >= Preamble /\ a.type # "moov" /\ phase' = "walk" /\ Seen(a)

ReadHeader ==
    /\ Walking
    /\ Mp4Read(offset, Preamble)
    /\ IF ~ read'.ok THEN Stop /\ UNCHANGED mdat
       ELSE \E a \in HeaderIn(read', window', offset) :
              /\ atom' = a
              /\ \/ a.extended /\ phase' = "extended" /\ Past
                 \/ ~ a.extended /\ Judge(a)
    /\ UNCHANGED <<file, moov>>

\* The 64-bit size after a short size of 1.
ReadExtended ==
    /\ phase = "extended"
    /\ Mp4Read(offset, 8)
    /\ IF ~ read'.ok THEN Stop /\ UNCHANGED mdat
       ELSE \E a \in IF Complete(read', window') THEN {atom}
                    ELSE {[atom EXCEPT !.size = g.size] : g \in Lookalikes} :
              /\ atom' = a
              /\ Judge(a)
    /\ UNCHANGED <<file, moov>>

\* Faulty: the limit of hls_mp4_max_buffer_size is not looked at.
BoxTooLargeNever == FALSE

BoxTooLarge == atom.size > MaxBufferSize

\* read_box refuses the atom.
RefuseBox ==
    /\ phase = "box" /\ BoxTooLarge
    /\ phase' = "failed"
    /\ UNCHANGED <<file, window, read, poisoned, failures, offset, atom, moov, mdat>>

\* read_box and moov_read. A moov that was read whole may still not be one that
\* parses.
ReadBox ==
    /\ phase = "box" /\ ~ BoxTooLarge
    /\ Mp4Read(atom.start, atom.size)
    /\ \/ read'.ok /\ phase' = "walk" /\ moov' = TRUE /\ offset' = atom.start + atom.size
       \/ phase' = "failed" /\ UNCHANGED <<moov, offset>>
    /\ UNCHANGED <<file, atom, mdat>>

Opened ==
    /\ phase = "walk" /\ moov /\ mdat
    /\ phase' = "open"
    /\ UNCHANGED <<file, window, read, poisoned, failures, offset, atom, moov, mdat>>

-------------------------------------------------------------------------------
\* output_ts, if there is an index: without one it fails before it reads.
ReadData ==
    /\ phase = "open" /\ moov
    /\ \E r \in Ranges : Mp4Read(r.pos, r.size)
    /\ offset' = IF read'.ok THEN offset + read'.size ELSE offset
    /\ phase' = IF read'.ok THEN "data" ELSE "failed"
    /\ UNCHANGED <<file, atom, moov, mdat>>

\* mp4_close after a playlist, a segment, or nothing to make them from.
Close ==
    /\ phase \in {"open", "data"}
    /\ phase' = "closed"
    /\ UNCHANGED <<file, window, read, poisoned, failures, offset, atom, moov, mdat>>

OpenNext ==
    \/ ReadHeader \/ ReadExtended \/ RefuseBox \/ ReadBox \/ Opened
    \/ ReadData \/ Close

OpenSpec == OpenInit /\ [][OpenNext]_openVars /\ WF_openVars(OpenNext)

-------------------------------------------------------------------------------
TypeOK ==
    /\ window \in [buffer : BOOLEAN, size : 0 .. SizeRange - 1, end : Nat, from : Nat, filled : Nat]
    /\ window.buffer => ~ NoRoom(window.size)
    /\ read \in [pos : Nat, size : Nat, ok : BOOLEAN, index : Int]
    /\ poisoned \in BOOLEAN /\ failures \in 0 .. MaxFailures
    /\ offset \in Nat
    /\ atom \in Atom
    /\ moov \in BOOLEAN /\ mdat \in BOOLEAN
    /\ phase \in {"walk", "extended", "box", "open", "data", "closed", "failed"}

\* What the code takes the buffer to hold, it holds, unless the last read into
\* it failed.
WindowTrue ==
    window.buffer /\ ~ poisoned =>
        /\ window.from = window.end - window.size
        /\ window.filled = window.size
        /\ window.end <= file.size

\* A read that succeeds points into the buffer, at the byte of the position asked
\* for; all the bytes are there if the file has them: what the file does not have
\* is left out without an error.
ReadsTrue ==
    read.ok /\ ~ poisoned =>
        /\ read.index \in Nat
        /\ window.from + read.index = read.pos
        /\ read.index + read.size <= window.filled \/ read.pos + read.size > file.size

\* The size asked of ngx_palloc is at most one of the two directives, a header, or
\* the fragment that is read. Only where a header or a fragment is looked for
\* behind the end of the file does it ask for nearly 2^64 bytes, as mp4_read does
\* not see that the size has wrapped: then it gets none, the walk is over, and the
\* request reads nothing more from the file.
BufferBounded ==
    \/ \E n \in {BufferSize, MaxBufferSize, Preamble} \cup {r.size : r \in Ranges} :
           window.size <= n
    \/ NoRoom(window.size) /\ ~ window.buffer /\ phase \in {"open", "closed", "failed"}

\* In a file whose atoms follow each other to its end and that has moov and mdat,
\* the walk finds both, unless a read fails or moov is refused.
AtomsFollow ==
    \A a \in file.atoms :
        /\ a.size >= (IF a.extended THEN 16 ELSE 8)
        /\ a.start = 0 \/ \E b \in file.atoms : b.start + b.size = a.start
        /\ a.start + a.size <= file.size

Has(type) == \E a \in file.atoms : a.type = type

FindsBoth ==
    phase = "open" /\ failures = 0 /\ AtomsFollow /\ Has("moov") /\ Has("mdat") => moov /\ mdat

\* The walk and the request come to an end: every atom moves the walk on by
\* eight bytes or more, and behind the file every read fails. (Sizes so near 2^64
\* that the sum of the code wraps are not among the atoms here.)
Ends == <>(phase \in {"closed", "failed"})

===============================================================================
